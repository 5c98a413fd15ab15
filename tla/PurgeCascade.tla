---------------------------- MODULE PurgeCascade ----------------------------
(***************************************************************************)
(* The cascading purge: furl_ctx/cache/compression_store.py,               *)
(* delete_cascade_detailed, over a store whose entries refer to each other *)
(* by the markers in their text.                                           *)
(*                                                                         *)
(* Keys are hashes of contents, so what a key's entry refers to, `refs', is *)
(* fixed before it is stored.  The recursion is a stack of frames; a frame  *)
(* reads its entry, deletes it and then takes its nested hashes one by one. *)
(* The store lock is released between those steps: meanwhile other callers  *)
(* store entries, whose nested ones were stored first, and lose entries to  *)
(* expiry, eviction or a purge of their own.                                *)
(***************************************************************************)
EXTENDS Integers, Sequences, FiniteSets

CONSTANTS
  Keys,            \* hashes
  Top,             \* the hash the caller purges
  MaxInterference  \* bound on the steps of other callers

ASSUME PurgeAssumption ==
  /\ IsFiniteSet(Keys)
  /\ Top \in Keys
  /\ MaxInterference \in Nat

VARIABLES
  refs,      \* Keys -> the hashes its entry refers to, itself excluded
  live,      \* the entries of the store
  stack,     \* the active calls, the innermost last
  visited,   \* _visited
  deleted,   \* top_deleted and nested_deleted
  skipped,   \* nested_shared_skipped, before the deleted ones are taken out
  done,      \* the outer call has returned
  before,    \* history: the entries when the purge began
  stored,    \* history: entries other callers stored since
  lost       \* history: entries other callers lost since

vars == <<refs, live, stack, visited, deleted, skipped, done, before, stored, lost>>
outcome == <<deleted, skipped>>
others == <<before, stored, lost>>

Frame == [key : Keys, phase : {"read", "delete", "nested"}, todo : SUBSET Keys]

Refers(k, n) == n \in refs[k]

-----------------------------------------------------------------------------
TopFrame == [key |-> Top, phase |-> "read", todo |-> {}]

\* The purge is called on any store.
Init ==
  /\ refs \in {r \in [Keys -> SUBSET Keys] : \A k \in Keys : k \notin r[k]}
  /\ live \in SUBSET Keys
  /\ stack = <<TopFrame>>
  /\ visited = {Top}
  /\ deleted = {}
  /\ skipped = {}
  /\ done = FALSE
  /\ before = live
  /\ stored = {}
  /\ lost = {}

Depth == Len(stack)
Active == stack[Depth]
InPhase(phase) == stack # <<>> /\ Active.phase = phase

\* The hashes named by k's stored text, if k is there to be read.
MarkerHashes(k) == IF k \in live THEN refs[k] ELSE {}

\* The nested hashes are collected before the entry goes.
ReadEntry ==
  /\ InPhase("read")
  /\ stack' = [stack EXCEPT ![Depth] =
                 [key |-> Active.key, phase |-> "delete", todo |-> MarkerHashes(Active.key)]]
  /\ UNCHANGED <<refs, live, visited, outcome, done, others>>

DeleteEntry ==
  /\ InPhase("delete")
  /\ live' = live \ {Active.key}
  /\ deleted' = deleted \cup (live \cap {Active.key})
  /\ stack' = [stack EXCEPT ![Depth].phase = "nested"]
  /\ UNCHANGED <<refs, visited, skipped, done, others>>

\* _is_co_referenced: a live entry outside this cascade refers to n.
CoReferenced(n) == \E k \in live \ (visited \cup {n}) : Refers(k, n)

Forget(n) == [stack EXCEPT ![Depth].todo = @ \ {n}]

\* The next nested hash: already visited, kept as shared, or followed.
NestedVisited(n) ==
  /\ n \in visited
  /\ stack' = Forget(n)
  /\ UNCHANGED <<visited, skipped>>

KeepShared_Visited(n) ==
  /\ n \notin visited /\ CoReferenced(n)
  /\ stack' = Forget(n)
  /\ skipped' = skipped \cup {n}
  /\ visited' = visited \cup {n}
KeepShared(n) ==
  /\ n \notin visited /\ CoReferenced(n)
  /\ stack' = Forget(n)
  /\ skipped' = skipped \cup {n}
  /\ UNCHANGED visited

Follow_Unchecked(n) ==
  /\ n \notin visited
  /\ stack' = Append(Forget(n), [key |-> n, phase |-> "read", todo |-> {}])
  /\ visited' = visited \cup {n}
  /\ UNCHANGED skipped
Follow_Unrecorded(n) ==
  /\ n \notin visited /\ ~CoReferenced(n)
  /\ stack' = Append(Forget(n), [key |-> n, phase |-> "read", todo |-> {}])
  /\ UNCHANGED <<visited, skipped>>
Follow(n) ==
  /\ n \notin visited /\ ~CoReferenced(n)
  /\ stack' = Append(Forget(n), [key |-> n, phase |-> "read", todo |-> {}])
  /\ visited' = visited \cup {n}
  /\ UNCHANGED skipped

NextNested ==
  /\ InPhase("nested")
  /\ \E n \in Active.todo : NestedVisited(n) \/ KeepShared(n) \/ Follow(n)
  /\ UNCHANGED <<refs, live, deleted, done, others>>

\* A call returns; the outermost one reports, and what was deleted in one
\* branch is not reported as kept by another.
Return_Unfiltered ==
  /\ InPhase("nested")
  /\ Active.todo = {}
  /\ stack' = SubSeq(stack, 1, Depth - 1)
  /\ done' = (Depth = 1)
  /\ UNCHANGED <<refs, live, visited, outcome, others>>
Return ==
  /\ InPhase("nested")
  /\ Active.todo = {}
  /\ stack' = SubSeq(stack, 1, Depth - 1)
  /\ done' = (Depth = 1)
  /\ skipped' = IF Depth = 1 THEN skipped \ deleted ELSE skipped
  /\ UNCHANGED <<refs, live, visited, deleted, others>>

-----------------------------------------------------------------------------
(* Other callers of the same store.                                        *)

Interference == Cardinality(stored) + Cardinality(lost)

\* compress() stores an entry after the ones its markers name.
OtherStores(k) ==
  /\ ~done /\ Interference < MaxInterference
  /\ k \notin live /\ k \notin stored
  /\ refs[k] \subseteq live
  /\ live' = live \cup {k}
  /\ stored' = stored \cup {k}
  /\ UNCHANGED <<refs, stack, visited, outcome, done, before, lost>>

OtherLoses(k) ==
  /\ ~done /\ Interference < MaxInterference
  /\ k \in live /\ k \notin lost
  /\ live' = live \ {k}
  /\ lost' = lost \cup {k}
  /\ UNCHANGED <<refs, stack, visited, outcome, done, before, stored>>

Cascade == ReadEntry \/ DeleteEntry \/ NextNested \/ Return

Next ==
  \/ Cascade
  \/ \E k \in Keys : OtherStores(k)
  \/ \E k \in Keys : OtherLoses(k)

Spec == Init /\ [][Next]_vars

-----------------------------------------------------------------------------
\* The stack holds a simple path: no call is made twice for a key, and each key
\* but the top was named by its caller.
TypeOK ==
  /\ refs \in [Keys -> SUBSET Keys]
  /\ live \subseteq Keys
  /\ stack \in Seq(Frame)
  /\ visited \subseteq Keys
  /\ deleted \subseteq visited
  /\ skipped \subseteq Keys
  /\ done \in BOOLEAN
  /\ before \subseteq Keys /\ stored \subseteq Keys /\ lost \subseteq Keys
  /\ \A i, j \in 1..Len(stack) : stack[i].key = stack[j].key => i = j
  /\ \A i \in 1..Len(stack) : stack[i].key \in visited

\* A set of entries that can go without breaking another's marker: whatever it
\* refers to goes with it, unless an entry that stays refers to it too.
ClosedUnderOwnership(gone) ==
  /\ Top \in gone
  /\ \A n \in before \ gone :
       (\E d \in gone : Refers(d, n)) => \E k \in before \ (gone \cup {n}) : Refers(k, n)

\* The entries the top one alone owns, directly or through others.
Owned ==
  {k \in before : \A gone \in SUBSET before : ClosedUnderOwnership(gone) => k \in gone}

\* Left alone, the purge of a live entry removes exactly what it owns, in
\* whatever order the nested hashes are taken: no copy of the purged data is left
\* behind under another hash, and no other entry's data goes with it.
PurgesExactlyOwned ==
  (done /\ stored = {} /\ lost = {}) =>
     /\ deleted = IF Top \in before THEN Owned ELSE {}
     /\ live = before \ deleted

\* Whatever other callers do, the cascade leaves no entry that was there before
\* it with a marker that no longer resolves; only the purged hash itself goes
\* from under the entries that refer to it.
OldMarkersResolve ==
  \A k \in live \ (stored \cup visited), n \in deleted \ (live \cup {Top}) : ~Refers(k, n)

\* What the report calls kept because another entry refers to it is still there,
\* and another entry does refer to it.
KeptIsShared ==
  (done /\ lost = {}) =>
     \A n \in (skipped \cap before) \ stored :
       n \in live /\ \E k \in live \ {n} : Refers(k, n)

\* What the purge tells its caller, deleted and kept, is what it has done.
ReportIsTrue == PurgesExactlyOwned /\ KeptIsShared
=============================================================================
