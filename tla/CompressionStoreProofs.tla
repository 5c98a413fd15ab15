----------------------- MODULE CompressionStoreProofs -----------------------
(***************************************************************************)
(* Theorems about CompressionStore, for every value of its constants: first *)
(* for either backend, with or without a spill tier, then over the          *)
(* in-memory backend, where the heap's bookkeeping is exact.                *)
(***************************************************************************)
EXTENDS CompressionStore, FiniteSetTheorems, TLAPS

-----------------------------------------------------------------------------
(* The operators.                                                          *)

\* What the backend returns for a key is an entry or NIL.
LEMMA GetType == ASSUME TypeOK, NEW k \in Keys PROVE Get(k) \in OptEntry
  BY DEF TypeOK, Get

\* A set of some of the finitely many keys is finite.
LEMMA KeySubsetFinite ==
  ASSUME NEW S \in SUBSET Keys
  PROVE  IsFiniteSet(S) /\ Cardinality(S) \in Nat
  BY StoreAssumption, FS_Subset, FS_CardinalityType DEF StoreAssumption

\* A rebuilt heap is a finite set of heap entries, one per entry.
LEMMA IndexType ==
  ASSUME NEW entries \in [Keys -> OptEntry]
  PROVE  /\ Index(entries) \subseteq HeapEntry
         /\ IsFiniteSet(Index(entries))
         /\ Cardinality(Index(entries)) = Cardinality({k \in Keys : entries[k] # NIL})
  <1> DEFINE S == {k \in Keys : entries[k] # NIL}
             f == [k \in S |-> <<entries[k].created, k, 0>>]
  <1>1. Index(entries) \subseteq HeapEntry
    BY DEF Index, HeapEntry, OptEntry, Entry
  <1>2. f \in Bijection(S, Index(entries))
    <2>1. f \in [S -> Index(entries)]
      BY DEF Index
    <2>2. \A h \in Index(entries) : \E k \in S : f[k] = h
      BY DEF Index
    <2>3. \A j, k \in S : f[j] = f[k] => j = k
      OBVIOUS
    <2> QED BY <2>1, <2>2, <2>3 DEF Bijection, Injection, IsInjective, Surjection
  <1>3. IsFiniteSet(S)
    BY KeySubsetFinite
  <1> HIDE DEF f
  <1>4. ExistsBijection(S, Index(entries))
    BY <1>2 DEF ExistsBijection
  <1> QED BY <1>1, <1>3, <1>4, FS_Bijection

\* Among more numbers than the heap has tuples one makes a new tuple.
LEMMA FreshCopyIsFresh ==
  ASSUME TypeOK, NEW t, NEW k
  PROVE  /\ FreshCopy(t, k) \in Nat
         /\ <<t, k, FreshCopy(t, k)>> \notin heap
  <1> DEFINE C == Cardinality(heap)
             I == 0..C
             Tuples == {<<t, k, n>> : n \in I}
             f == [n \in I |-> <<t, k, n>>]
  <1>1. IsFiniteSet(heap) /\ C \in Nat
    BY FS_CardinalityType DEF TypeOK
  <1>2. IsFiniteSet(I) /\ Cardinality(I) = C + 1
    BY <1>1, FS_Interval
  <1>3. f \in Bijection(I, Tuples)
    <2>1. f \in [I -> Tuples]
      OBVIOUS
    <2>2. \A h \in Tuples : \E n \in I : f[n] = h
      OBVIOUS
    <2>3. \A m, n \in I : f[m] = f[n] => m = n
      OBVIOUS
    <2> QED BY <2>1, <2>2, <2>3 DEF Bijection, Injection, IsInjective, Surjection
  <1> HIDE DEF f
  <1>4. ExistsBijection(I, Tuples)
    BY <1>3 DEF ExistsBijection
  <1>5. Cardinality(Tuples) = C + 1
    BY <1>2, <1>4, FS_Bijection
  <1>6. ~(Tuples \subseteq heap)
    <2> SUFFICES ASSUME Tuples \subseteq heap PROVE FALSE
      OBVIOUS
    <2>1. Cardinality(Tuples) <= C
      BY <1>1, FS_Subset
    <2> QED BY <2>1, <1>5, <1>1
  <1>7. \E n \in I : <<t, k, n>> \notin heap
    BY <1>6
  <1>8. FreshCopy(t, k) \in I /\ <<t, k, FreshCopy(t, k)>> \notin heap
    BY <1>7 DEF FreshCopy
  <1> QED BY <1>1, <1>8

-----------------------------------------------------------------------------
(* Type correctness.                                                       *)

\* Every heap the store builds is a finite set of heap entries.
LEMMA PushType ==
  ASSUME TypeOK, NEW t \in 0..MaxTime, NEW k \in Keys
  PROVE  Push(t, k) \subseteq HeapEntry /\ IsFiniteSet(Push(t, k))
  <1>1. <<t, k, FreshCopy(t, k)>> \in HeapEntry
    BY FreshCopyIsFresh DEF HeapEntry
  <1> QED BY <1>1, FS_AddElement DEF Push, TypeOK

\* Removing keys from a tier keeps it a tier.
LEMMA WithoutType ==
  ASSUME NEW tier \in [Keys -> OptEntry], NEW K
  PROVE  Without(tier, K) \in [Keys -> OptEntry]
  BY DEF Without, OptEntry

\* Backend writes keep both tiers of the primary well typed.
LEMMA BackendDeleteType ==
  ASSUME TypeOK, NEW K, NEW ok \in BOOLEAN, BackendDelete(K, ok)
  PROVE  rows' \in [Keys -> OptEntry] /\ fallback' \in [Keys -> OptEntry]
  BY WithoutType DEF TypeOK, BackendDelete

LEMMA BackendSetType ==
  ASSUME TypeOK, NEW k \in Keys, NEW e \in Entry, NEW ok \in BOOLEAN, BackendSet(k, e, ok)
  PROVE  rows' \in [Keys -> OptEntry] /\ fallback' \in [Keys -> OptEntry]
  BY DEF TypeOK, BackendSet, OptEntry

LEMMA WriteOutcomesType == WriteOutcomes \subseteq BOOLEAN /\ SpillOutcomes \subseteq BOOLEAN
  BY DEF WriteOutcomes, SpillOutcomes

\* A thread that is not idle has a call.
LEMMA CallType ==
  ASSUME TypeOK, NEW t \in Threads, pc[t] # "idle"
  PROVE  /\ call[t] \in Call
         /\ call[t].key \in Keys
         /\ call[t].entry \in Entry
         /\ call[t].entry.created \in 0..MaxTime
         /\ call[t].require_durable \in BOOLEAN
  BY DEF TypeOK, PhaseOK, Call, Entry

\* TypeOK in two parts: the tiers with the heap, and the threads.
DataOK ==
  /\ now \in 0..MaxTime
  /\ rows \in [Keys -> OptEntry]
  /\ fallback \in [Keys -> OptEntry]
  /\ spill \in [Keys -> OptEntry]
  /\ heap \subseteq HeapEntry
  /\ IsFiniteSet(heap)
  /\ stale \in Nat

ThreadsOK ==
  /\ lock \in Threads \cup {NIL}
  /\ pc \in [Threads -> {"idle", "call", "evict", "retry"}]
  /\ call \in [Threads -> Call \cup {NIL}]
  /\ attempts \in [Threads -> 0..RetryAttempts]
  /\ rebuilt \in BOOLEAN
  /\ PhaseOK

LEMMA TypeParts == (TypeOK <=> DataOK /\ ThreadsOK) /\ (TypeOK' <=> DataOK' /\ ThreadsOK')
  BY DEF TypeOK, DataOK, ThreadsOK

\* Steps outside store() leave the threads alone.
LEMMA ThreadsUnchanged == ASSUME ThreadsOK, UNCHANGED threads PROVE ThreadsOK'
  BY DEF ThreadsOK, PhaseOK, threads

\* Leaving the locked region for the caller, or for the retries.
LEMMA LeaveType ==
  ASSUME TypeOK, NEW t \in Threads, Evicting(t), lock' = NIL, rebuilt' = FALSE,
         \/ Release(t) /\ UNCHANGED attempts
         \/ /\ pc' = [pc EXCEPT ![t] = "retry"]
            /\ attempts' = [attempts EXCEPT ![t] = RetryAttempts]
            /\ RetryAttempts > 0
            /\ UNCHANGED call
  PROVE  ThreadsOK'
  <1>1. /\ pc' \in [Threads -> {"idle", "call", "evict", "retry"}]
        /\ call' \in [Threads -> Call \cup {NIL}]
    BY DEF TypeOK, Release
  <1>3. attempts' \in [Threads -> 0..RetryAttempts]
    BY StoreAssumption DEF TypeOK, StoreAssumption
  <1>2. PhaseOK'
    <2> SUFFICES ASSUME NEW u \in Threads
                 PROVE  /\ (call'[u] = NIL) <=> (pc'[u] = "idle")
                        /\ (pc'[u] = "evict") <=> (lock' = u)
                        /\ (pc'[u] = "retry") <=> (attempts'[u] > 0)
      BY DEF PhaseOK
    <2>1. u # NIL
      BY NILAssumption
    <2>2. CASE u = t
      BY <2>1, <2>2, StoreAssumption DEF TypeOK, PhaseOK, Evicting, Release, StoreAssumption
    <2>3. CASE u # t
      BY <2>1, <2>3 DEF TypeOK, PhaseOK, Evicting, Release
    <2> QED BY <2>2, <2>3
  <1> QED BY <1>1, <1>2, <1>3 DEF ThreadsOK

LEMMA StoreCallType == ASSUME TypeOK, NEW t \in Threads, StoreCall(t) PROVE TypeOK'
  <1>1. PICK c \in Call : call' = [call EXCEPT ![t] = c]
    BY DEF StoreCall, Call, Entry, TypeOK
  <1>2. c # NIL
    BY NILAssumption
  <1> QED BY <1>1, <1>2 DEF StoreCall, TypeOK, PhaseOK, tiers

LEMMA StoreLockType == ASSUME TypeOK, NEW t \in Threads, StoreLock(t) PROVE TypeOK'
  <1>1. PICK ok \in BOOLEAN :
          /\ rows' = Without(rows, ExpiredRows(ok))
          /\ fallback' = Without(fallback, ExpiredFallback)
          /\ heap' = IF RebuildDue(SweptStale(ok)) THEN LiveIndex' ELSE heap
          /\ stale' = IF RebuildDue(SweptStale(ok)) THEN 0 ELSE SweptStale(ok)
    BY WriteOutcomesType DEF StoreLock
  <1>2. SweptStale(ok) \in Nat
    <2>1. ExpiredRows(ok) \in SUBSET Keys /\ ExpiredFallback \in SUBSET Keys
      BY DEF ExpiredRows, ExpiredFallback
    <2> QED BY <2>1, KeySubsetFinite DEF SweptStale, TypeOK
  <1>3. rows' \in [Keys -> OptEntry] /\ fallback' \in [Keys -> OptEntry]
    BY <1>1, WithoutType DEF TypeOK
  <1>4. LiveIndex' \subseteq HeapEntry /\ IsFiniteSet(LiveIndex')
    <2>1. [k \in Keys |-> Get(k)'] \in [Keys -> OptEntry]
      BY <1>3 DEF Get
    <2>2. LiveIndex' = Index([k \in Keys |-> Get(k)'])
      BY DEF LiveIndex, Index
    <2> QED BY <2>1, <2>2, IndexType
  <1>6. t # NIL
    BY NILAssumption
  <1>7. /\ now' \in 0..MaxTime /\ spill' \in [Keys -> OptEntry]
        /\ lock' = t /\ lock = NIL /\ pc[t] = "call" /\ pc' = [pc EXCEPT ![t] = "evict"]
        /\ rebuilt' = FALSE /\ call' = call /\ attempts' = attempts
    BY DEF StoreLock, TypeOK
  <1>8. heap' \subseteq HeapEntry /\ IsFiniteSet(heap') /\ stale' \in Nat
    BY <1>1, <1>2, <1>4 DEF TypeOK
  <1>9. PhaseOK'
    <2> SUFFICES ASSUME NEW u \in Threads
                 PROVE  /\ (call'[u] = NIL) <=> (pc'[u] = "idle")
                        /\ (pc'[u] = "evict") <=> (lock' = u)
                        /\ (pc'[u] = "retry") <=> (attempts'[u] > 0)
      BY DEF PhaseOK
    <2>1. CASE u = t
      BY <1>6, <1>7, <2>1 DEF TypeOK, PhaseOK
    <2>2. CASE u # t
      <3>1. pc'[u] = pc[u] /\ call'[u] = call[u] /\ attempts'[u] = attempts[u]
        BY <1>7, <2>2 DEF TypeOK
      <3>2. u # NIL
        BY NILAssumption
      <3> QED BY <1>6, <1>7, <2>2, <3>1, <3>2 DEF TypeOK, PhaseOK
    <2> QED BY <2>1, <2>2
  <1>10. /\ lock' \in Threads \cup {NIL} /\ rebuilt' \in BOOLEAN
         /\ pc' \in [Threads -> {"idle", "call", "evict", "retry"}]
         /\ call' \in [Threads -> Call \cup {NIL}]
         /\ attempts' \in [Threads -> 0..RetryAttempts]
    BY <1>7 DEF TypeOK
  <1> QED BY <1>3, <1>7, <1>8, <1>9, <1>10 DEF TypeOK

LEMMA EvictPopType == ASSUME TypeOK, NEW t \in Threads, EvictPop(t) PROVE TypeOK'
  <1>1. PICK h \in heap :
          /\ heap' = heap \ {h}
          /\ IF Get(h[2]) # NIL /\ Get(h[2]).created = h[1]
               THEN /\ spill' = Demote(h[2])
                    /\ \E ok \in WriteOutcomes : BackendDelete({h[2]}, ok)
                    /\ rebuilt' = FALSE
                    /\ UNCHANGED stale
               ELSE /\ stale' = Discounted
                    /\ UNCHANGED <<tiers, rebuilt>>
    BY DEF EvictPop, Oldest, Popped
  <1>2. h[2] \in Keys
    BY DEF TypeOK, HeapEntry
  <1>3. heap' \subseteq HeapEntry /\ IsFiniteSet(heap')
    BY <1>1, FS_RemoveElement DEF TypeOK
  <1>4. rows' \in [Keys -> OptEntry] /\ fallback' \in [Keys -> OptEntry]
    BY <1>1, BackendDeleteType, WriteOutcomesType DEF TypeOK, tiers
  <1>5. spill' \in [Keys -> OptEntry] /\ stale' \in Nat /\ rebuilt' \in BOOLEAN
    <2>1. Get(h[2]) \in OptEntry
      BY <1>2, GetType
    <2>2. Demote(h[2]) \in [Keys -> OptEntry]
      BY <2>1 DEF Demote, TypeOK
    <2>3. Discounted \in Nat
      BY DEF Discounted, TypeOK
    <2> QED BY <1>1, <2>2, <2>3 DEF TypeOK, tiers
  <1>6. DataOK'
    BY <1>3, <1>4, <1>5 DEF DataOK, EvictPop, TypeOK
  <1>7. ThreadsOK'
    BY <1>5 DEF ThreadsOK, TypeOK, PhaseOK, EvictPop
  <1> QED BY <1>6, <1>7, TypeParts

LEMMA EvictRebuildType == ASSUME TypeOK, NEW t \in Threads, EvictRebuild(t) PROVE TypeOK'
  <1>1. LiveIndex \subseteq HeapEntry /\ IsFiniteSet(LiveIndex)
    BY GetType, IndexType DEF LiveIndex
  <1>2. DataOK'
    BY <1>1 DEF DataOK, EvictRebuild, TypeOK, tiers
  <1>3. ThreadsOK'
    BY DEF ThreadsOK, TypeOK, PhaseOK, EvictRebuild
  <1> QED BY <1>2, <1>3, TypeParts

LEMMA CollisionDropType == ASSUME TypeOK, NEW t \in Threads, CollisionDrop(t) PROVE TypeOK'
  <1>1. DataOK'
    BY BackendDeleteType, WriteOutcomesType DEF DataOK, CollisionDrop, TypeOK
  <1>2. ThreadsOK'
    BY LeaveType DEF CollisionDrop, Release
  <1> QED BY <1>1, <1>2, TypeParts

LEMMA BindKeyType ==
  ASSUME TypeOK, NEW t \in Threads, NEW ok \in BOOLEAN, BindKey(t, ok)
  PROVE  DataOK'
  <1>1. call[t].key \in Keys /\ call[t].entry \in Entry /\ call[t].entry.created \in 0..MaxTime
    BY CallType DEF BindKey, Evicting
  <1>2. heap' \subseteq HeapEntry /\ IsFiniteSet(heap')
    BY <1>1, PushType DEF BindKey
  <1>3. rows' \in [Keys -> OptEntry] /\ fallback' \in [Keys -> OptEntry]
    BY <1>1, BackendSetType DEF BindKey
  <1> QED BY <1>2, <1>3 DEF DataOK, BindKey, TypeOK

LEMMA BindType ==
  ASSUME TypeOK, NEW t \in Threads, Bind(t) \/ BindVolatile(t)
  PROVE  TypeOK'
  <1>1. PICK ok \in BOOLEAN :
          /\ BindKey(t, ok)
          /\ lock' = NIL /\ rebuilt' = FALSE
          /\ \/ Release(t) /\ UNCHANGED attempts
             \/ /\ pc' = [pc EXCEPT ![t] = "retry"]
                /\ attempts' = [attempts EXCEPT ![t] = RetryAttempts]
                /\ RetryAttempts > 0
                /\ UNCHANGED call
    BY WriteOutcomesType DEF Bind, BindVolatile, Release, MustRetry
  <1>2. ThreadsOK'
    BY <1>1, LeaveType DEF BindKey
  <1> QED BY <1>1, <1>2, BindKeyType, TypeParts

LEMMA RetryPersistType == ASSUME TypeOK, NEW t \in Threads, RetryPersist(t) PROVE TypeOK'
  <1>1. PICK ok \in BOOLEAN :
          /\ BackendSet(call[t].key, call[t].entry, ok)
          /\ attempts' = [attempts EXCEPT ![t] = IF ok THEN 0 ELSE @ - 1]
    BY WriteOutcomesType DEF RetryPersist
  <1>2. call[t].key \in Keys /\ call[t].entry \in Entry
    BY CallType DEF RetryPersist
  <1>3. rows' \in [Keys -> OptEntry] /\ fallback' \in [Keys -> OptEntry]
    BY <1>1, <1>2, BackendSetType
  <1>4. DataOK'
    BY <1>3 DEF DataOK, RetryPersist, TypeOK
  <1>5. attempts[t] \in 1..RetryAttempts
    BY StoreAssumption DEF RetryPersist, TypeOK, PhaseOK, StoreAssumption
  <1>6. attempts' \in [Threads -> 0..RetryAttempts]
    BY <1>1, <1>5, StoreAssumption DEF TypeOK, StoreAssumption
  <1>7. /\ pc' \in [Threads -> {"idle", "call", "evict", "retry"}]
        /\ call' \in [Threads -> Call \cup {NIL}]
    BY DEF RetryPersist, TypeOK
  <1>8. PhaseOK'
    <2> SUFFICES ASSUME NEW u \in Threads
                 PROVE  /\ (call'[u] = NIL) <=> (pc'[u] = "idle")
                        /\ (pc'[u] = "evict") <=> (lock' = u)
                        /\ (pc'[u] = "retry") <=> (attempts'[u] > 0)
      BY DEF PhaseOK
    <2>1. u # NIL
      BY NILAssumption
    <2>2. CASE u = t
      BY <1>5, <1>6, <2>1, <2>2 DEF RetryPersist, TypeOK, PhaseOK
    <2>3. CASE u # t
      <3>1. pc'[u] = pc[u] /\ call'[u] = call[u] /\ attempts'[u] = attempts[u]
        BY <1>1, <2>3 DEF RetryPersist, TypeOK
      <3> QED BY <3>1 DEF RetryPersist, TypeOK, PhaseOK
    <2> QED BY <2>2, <2>3
  <1>9. ThreadsOK'
    BY <1>6, <1>7, <1>8 DEF ThreadsOK, RetryPersist, TypeOK
  <1> QED BY <1>4, <1>9, TypeParts

LEMMA KeyStepType == ASSUME TypeOK, NEW k \in Keys, KeyStep(k) PROVE TypeOK'
  <1>1. CASE ReapExpired(k)
    BY <1>1, BackendDeleteType, WriteOutcomesType, TypeParts, ThreadsUnchanged
       DEF ReapExpired, DataOK
  <1>2. CASE WriteBack(k)
    <2>1. Get(k) \in Entry
      BY <1>2, GetType DEF WriteBack, OptEntry
    <2> QED
      BY <1>2, <2>1, BackendSetType, WriteOutcomesType, TypeParts, ThreadsUnchanged
         DEF WriteBack, DataOK
  <1>3. CASE ReapSpill(k)
    BY <1>3, TypeParts, ThreadsUnchanged DEF ReapSpill, DataOK, OptEntry
  <1>4. CASE Delete(k)
    <2>1. PICK ok \in BOOLEAN, spill_ok \in BOOLEAN :
            /\ BackendDelete({k}, ok)
            /\ stale' = IF BackendDeleted(k, ok) THEN stale + 1 ELSE stale
            /\ spill' = IF spill_ok THEN [spill EXCEPT ![k] = NIL] ELSE spill
      BY <1>4, WriteOutcomesType DEF Delete
    <2>2. UNCHANGED <<now, heap, threads>>
      BY <1>4 DEF Delete
    <2> QED
      BY <2>1, <2>2, BackendDeleteType, TypeParts, ThreadsUnchanged DEF DataOK, OptEntry
  <1> QED
    BY <1>1, <1>2, <1>3, <1>4
       DEF KeyStep, Retrieve, GetMetadata, GetEntryForSearch, RecordSearchAccess

LEMMA ClearType == ASSUME TypeOK, Clear PROVE TypeOK'
  <1>1. spill' \in [Keys -> OptEntry]
    BY DEF Clear, TypeOK, OptEntry
  <1>2. rows' \in [Keys -> OptEntry] /\ fallback' \in [Keys -> OptEntry]
    BY BackendDeleteType, WriteOutcomesType DEF Clear
  <1>3. heap' = {} /\ stale' = 0 /\ UNCHANGED <<now, threads>>
    BY DEF Clear
  <1> QED
    BY <1>1, <1>2, <1>3, FS_EmptySet, TypeParts, ThreadsUnchanged DEF DataOK

LEMMA RestartType == ASSUME TypeOK, Restart PROVE TypeOK'
  <1>1. DataOK'
    BY FS_EmptySet DEF Restart, StartupRows, DataOK, TypeOK, OptEntry
  <1>2. ThreadsOK'
    <2>1. PhaseOK'
      BY NILAssumption DEF Restart, PhaseOK
    <2>2. attempts' \in [Threads -> 0..RetryAttempts]
      BY StoreAssumption DEF Restart, StoreAssumption
    <2>3. rebuilt' \in BOOLEAN
      BY DEF Restart
    <2> QED BY <2>1, <2>2, <2>3 DEF Restart, ThreadsOK
  <1> QED BY <1>1, <1>2, TypeParts

LEMMA TypeInitially == Init => TypeOK
  <1> SUFFICES ASSUME Init PROVE TypeOK
    OBVIOUS
  <1>1. DataOK
    BY FS_EmptySet, StoreAssumption DEF Init, DataOK, OptEntry, StoreAssumption
  <1>2. PhaseOK
    BY NILAssumption DEF Init, PhaseOK
  <1>3. ThreadsOK
    <2>1. attempts \in [Threads -> 0..RetryAttempts]
      BY StoreAssumption DEF Init, StoreAssumption
    <2>2. rebuilt \in BOOLEAN
      BY DEF Init
    <2> QED BY <1>2, <2>1, <2>2 DEF Init, ThreadsOK
  <1> QED BY <1>1, <1>3, TypeParts

LEMMA TypeStep == TypeOK /\ [Next]_vars => TypeOK'
  <1> SUFFICES ASSUME TypeOK, [Next]_vars PROVE TypeOK'
    OBVIOUS
  <1>1. ASSUME NEW t \in Threads, StoreStep(t) PROVE TypeOK'
    BY <1>1, StoreCallType, StoreLockType, EvictPopType, EvictRebuildType,
       CollisionDropType, BindType, RetryPersistType DEF StoreStep, LockedStep
  <1>2. ASSUME NEW k \in Keys, KeyStep(k) PROVE TypeOK'
    BY <1>2, KeyStepType
  <1>3. CASE Tick
    BY <1>3, TypeParts, ThreadsUnchanged, StoreAssumption
       DEF Tick, DataOK, tiers, StoreAssumption
  <1>4. CASE UNCHANGED vars
    BY <1>4, TypeParts, ThreadsUnchanged DEF vars, threads, DataOK
  <1> QED BY <1>1, <1>2, <1>3, <1>4, ClearType, RestartType DEF Next

\* The state keeps its types: entries in the tiers, a finite heap of tuples, and
\* a thread's locals in step with its place in store().
THEOREM TypeCorrect == Spec => []TypeOK
  BY TypeInitially, TypeStep, PTL DEF Spec
-----------------------------------------------------------------------------
(* What a caller can read back, step by step.                              *)

\* What a caller sees of a key depends on the key's own cells and the clock.
LEMMA SameCells ==
  ASSUME NEW k \in Keys,
         rows'[k] = rows[k], fallback'[k] = fallback[k], spill'[k] = spill[k], now' = now
  PROVE  View(k)' = View(k)
  BY DEF View, RetrieveResult, RecoverFromSpill, IsExpired, Get

\* A key that resolves has an unexpired entry in the primary, or none there and an
\* unexpired one in the spill.
LEMMA Resolves ==
  ASSUME TypeOK, NEW k \in Keys
  PROVE  /\ View(k) # NIL <=>
              \/ Get(k) # NIL /\ ~IsExpired(Get(k))
              \/ Get(k) = NIL /\ Spill /\ spill[k] # NIL /\ ~IsExpired(spill[k])
         /\ Get(k) # NIL /\ View(k) # NIL => View(k) = Get(k).content
  <1>1. Get(k) \in OptEntry /\ spill[k] \in OptEntry
    BY GetType DEF TypeOK
  <1>2. \A e \in Entry : e # NIL /\ e.content # NIL
    BY NILAssumption DEF Entry
  <1> QED BY <1>1, <1>2 DEF View, RetrieveResult, RecoverFromSpill, OptEntry

\* The key keeps what it shows while its primary entry stays what it is.
LEMMA SameEntry ==
  ASSUME TypeOK, TypeOK', NEW k \in Keys, now' = now,
         Get(k) # NIL, View(k) # NIL, Get(k)' = Get(k)
  PROVE  View(k)' = View(k)
  BY DEF View, RetrieveResult, IsExpired

\* A write of a key touches no other and shows what it wrote, or the row it could
\* not replace.
LEMMA SetShows ==
  ASSUME TypeOK, NEW j \in Keys, NEW e \in Entry, NEW ok \in BOOLEAN, BackendSet(j, e, ok)
  PROVE  /\ \A k \in Keys \ {j} : rows'[k] = rows[k] /\ fallback'[k] = fallback[k]
         /\ Get(j)' = IF ok \/ rows[j] = NIL THEN e ELSE Get(j)
  <1>1. rows \in [Keys -> OptEntry] /\ fallback \in [Keys -> OptEntry] /\ e # NIL
    BY NILAssumption DEF TypeOK
  <1> QED BY <1>1 DEF BackendSet, Get

\* A delete touches no other key.
LEMMA DeleteShows ==
  ASSUME TypeOK, NEW K \in SUBSET Keys, NEW ok \in BOOLEAN, BackendDelete(K, ok)
  PROVE  /\ \A k \in Keys \ K : rows'[k] = rows[k] /\ fallback'[k] = fallback[k]
         /\ ok => \A k \in K : Get(k)' = NIL
  BY DEF TypeOK, BackendDelete, Without, Get

\* A key that resolves keeps what it shows when expired entries are deleted.
LEMMA ReapKeeps ==
  ASSUME TypeOK, NEW j \in Keys, ReapExpired(j) \/ ReapSpill(j), NEW k \in Keys, View(k) # NIL
  PROVE  View(k)' = View(k)
  <1>1. k # j
    BY Resolves DEF ReapExpired, ReapSpill
  <1>2. CASE ReapExpired(j)
    <2>1. PICK ok \in BOOLEAN : BackendDelete({j}, ok)
      BY <1>2, WriteOutcomesType DEF ReapExpired
    <2>2. rows'[k] = rows[k] /\ fallback'[k] = fallback[k]
      BY <1>1, <2>1, DeleteShows
    <2> QED BY <1>2, <2>2, SameCells DEF ReapExpired
  <1>3. CASE ReapSpill(j)
    BY <1>1, <1>3, SameCells DEF ReapSpill, TypeOK
  <1> QED BY <1>2, <1>3

\* An access written back changes no original.
LEMMA WriteBackKeeps ==
  ASSUME TypeOK, TypeOK', NEW j \in Keys, WriteBack(j), NEW k \in Keys, View(k) # NIL
  PROVE  View(k)' = View(k)
  <1>0. Get(j) # NIL /\ now' = now /\ spill' = spill
    BY DEF WriteBack
  <1>1. PICK ok \in BOOLEAN : BackendSet(j, Get(j), ok)
    BY WriteOutcomesType DEF WriteBack
  <1>2. Get(j) \in Entry
    BY <1>0, GetType DEF OptEntry
  <1>3. CASE k = j
    <2>1. Get(j)' = Get(j)
      BY <1>1, <1>2, SetShows
    <2> QED BY <1>0, <1>3, <2>1, SameEntry
  <1>4. CASE k # j
    <2>1. rows'[k] = rows[k] /\ fallback'[k] = fallback[k]
      BY <1>1, <1>2, <1>4, SetShows
    <2> QED BY <1>0, <2>1, SameCells
  <1> QED BY <1>3, <1>4

\* retrieve, get_metadata and the search of compression_store.py: whatever backend
\* and spill are configured, no read makes a resolvable original unresolvable.
THEOREM ReadingIsSafe == Spec => ReadsPreserve
  <1>1. ASSUME TypeOK, TypeOK', NEW j \in Keys,
               Retrieve(j) \/ GetMetadata(j) \/ GetEntryForSearch(j) \/ RecordSearchAccess(j),
               NEW k \in Keys, View(k) # NIL
        PROVE  View(k)' = View(k)
    BY <1>1, ReapKeeps, WriteBackKeeps
       DEF Retrieve, GetMetadata, GetEntryForSearch, RecordSearchAccess
  <1>2. TypeOK /\ TypeOK'
          => [\A j \in Keys :
                Retrieve(j) \/ GetMetadata(j) \/ GetEntryForSearch(j) \/ RecordSearchAccess(j) =>
                  \A k \in Keys : View(k) # NIL => View(k)' = View(k)]_vars
    BY <1>1
  <1> QED BY <1>2, TypeCorrect, PTL DEF ReadsPreserve

-----------------------------------------------------------------------------
(* How an original stops resolving.                                        *)

\* The expiry sweep of store() takes no entry that still resolves.
LEMMA SweepKeeps ==
  ASSUME TypeOK, TypeOK', NEW t \in Threads, StoreLock(t), NEW k \in Keys, View(k) # NIL
  PROVE  View(k)' # NIL
  <1>1. PICK ok \in BOOLEAN :
          rows' = Without(rows, ExpiredRows(ok)) /\ fallback' = Without(fallback, ExpiredFallback)
    BY WriteOutcomesType DEF StoreLock
  <1>2. now' = now /\ spill' = spill
    BY DEF StoreLock
  <1>3. CASE Get(k) = NIL
    <2>1. rows'[k] = rows[k] /\ fallback'[k] = fallback[k]
      BY <1>1, <1>3 DEF Without, Get, ExpiredRows, ExpiredFallback
    <2> QED BY <1>2, <2>1, SameCells
  <1>4. CASE Get(k) # NIL
    <2>1. ~IsExpired(Get(k))
      BY <1>4, Resolves
    <2>2. Get(k)' = Get(k)
      BY <1>1, <1>4, <2>1 DEF Without, Get, ExpiredRows, ExpiredFallback
    <2> QED BY <1>2, <1>4, <2>2, SameEntry
  <1> QED BY <1>3, <1>4

\* With a spill tier an evicted entry resolves there.
LEMMA SpilledResolves ==
  ASSUME TypeOK, TypeOK', Spill, NEW t \in Threads, EvictPop(t), NEW k \in Keys, View(k) # NIL
  PROVE  View(k)' # NIL
  <1>0. WriteOutcomes = {TRUE} /\ now' = now
    BY StoreAssumption DEF WriteOutcomes, EvictPop
  <1>1. PICK h \in heap :
          IF Get(h[2]) # NIL /\ Get(h[2]).created = h[1]
            THEN spill' = Demote(h[2]) /\ BackendDelete({h[2]}, TRUE)
            ELSE UNCHANGED tiers
    BY <1>0 DEF EvictPop, Oldest
  <1>2. CASE UNCHANGED tiers
    BY <1>0, <1>2, SameCells DEF tiers
  <1>3. CASE Get(h[2]) # NIL /\ spill' = Demote(h[2]) /\ BackendDelete({h[2]}, TRUE)
    <2>0. h[2] \in Keys /\ spill \in [Keys -> OptEntry]
      BY DEF TypeOK, HeapEntry
    <2>1. spill' = [spill EXCEPT ![h[2]] = Get(h[2])]
      BY <1>3 DEF Demote
    <2>2. CASE k # h[2]
      <3>1. rows'[k] = rows[k] /\ fallback'[k] = fallback[k]
        <4>1. {h[2]} \in SUBSET Keys /\ k \in Keys \ {h[2]} /\ TRUE \in BOOLEAN
          BY <2>0, <2>2
        <4> QED BY <1>3, <4>1, DeleteShows
      <3>2. spill'[k] = spill[k]
        BY <2>0, <2>1, <2>2
      <3> QED BY <1>0, <3>1, <3>2, SameCells
    <2>3. CASE k = h[2]
      <3>1. Get(k)' = NIL
        BY <1>3, <2>0, <2>3, DeleteShows
      <3>2. spill'[k] = Get(k) /\ ~IsExpired(Get(k))
        BY <1>3, <2>0, <2>1, <2>3, Resolves
      <3>3. ~(now' - spill'[k].created > spill'[k].ttl)
        BY <1>0, <3>2 DEF IsExpired
      <3>4. RetrieveResult(k)' = spill'[k]
        BY <1>3, <2>3, <3>1, <3>2, <3>3 DEF RetrieveResult, RecoverFromSpill, IsExpired
      <3>5. spill'[k].content # NIL
        BY <1>3, <2>3, <3>2, GetType, NILAssumption DEF OptEntry, Entry
      <3> QED BY <1>3, <2>3, <3>2, <3>4, <3>5 DEF View
    <2> QED BY <2>2, <2>3
  <1> QED BY <1>1, <1>2, <1>3

\* A store() that binds a key loses no other, and its own only to an entry that
\* expired while the call waited for the lock.
LEMMA BoundResolves ==
  ASSUME TypeOK, TypeOK', NEW t \in Threads, Bind(t) \/ BindVolatile(t) \/ RetryPersist(t),
         NEW k \in Keys, View(k) # NIL, View(k)' = NIL
  PROVE  call[t].key = k /\ IsExpired(call[t].entry)
  <1>1. call[t] \in Call
    <2>1. pc[t] # "idle"
      BY DEF Bind, BindVolatile, BindKey, RetryPersist, TypeOK, PhaseOK, Evicting
    <2> QED BY <2>1 DEF TypeOK, PhaseOK
  <1>2. PICK j \in Keys, e \in Entry : j = call[t].key /\ e = call[t].entry
    BY <1>1 DEF Call
  <1>3. PICK ok \in BOOLEAN : BackendSet(j, e, ok)
    BY <1>2, WriteOutcomesType DEF Bind, BindVolatile, BindKey, RetryPersist
  <1>4. now' = now /\ spill' = spill
    BY DEF Bind, BindVolatile, BindKey, RetryPersist
  <1>5. k = j
    <2> SUFFICES ASSUME k # j PROVE FALSE
      OBVIOUS
    <2>1. rows'[k] = rows[k] /\ fallback'[k] = fallback[k]
      BY <1>2, <1>3, SetShows
    <2> QED BY <1>4, <2>1, SameCells
  <1>6. Get(k)' = IF ok \/ rows[k] = NIL THEN e ELSE Get(k)
    BY <1>2, <1>3, <1>5, SetShows
  <1>7. CASE ~(ok \/ rows[k] = NIL)
    <2>1. Get(k) # NIL /\ Get(k)' = Get(k)
      BY <1>6, <1>7 DEF Get
    <2> QED BY <1>4, <2>1, SameEntry
  <1>8. CASE ok \/ rows[k] = NIL
    <2>1. Get(k)' = e /\ e # NIL /\ e.content # NIL
      BY <1>2, <1>6, <1>8, NILAssumption DEF Entry
    <2>2. now' - e.created > e.ttl
      BY <2>1 DEF View, RetrieveResult, IsExpired
    <2> QED BY <1>2, <1>4, <1>5, <2>2 DEF IsExpired
  <1> QED BY <1>7, <1>8

\* A restart keeps what is in the file.
LEMMA RestartKeeps ==
  ASSUME TypeOK, TypeOK', Restart, NEW k \in Keys, View(k) # NIL, rows[k] # NIL
  PROVE  View(k)' = View(k)
  <1>1. Get(k) = rows[k] /\ ~IsExpired(rows[k])
    BY Resolves DEF Get
  <1>2. Get(k)' = rows[k] /\ now' = now
    BY <1>1 DEF Restart, StartupRows, Get
  <1> QED BY <1>1, <1>2, SameEntry

\* The steps that name the way an original went, as LossIsAccounted lists them.
Accounted(k) ==
  \/ Tick
  \/ Delete(k)
  \/ Clear
  \/ \E t \in Threads :
       \/ CollisionDrop(t) /\ call[t].key = k
       \/ EvictPop(t) /\ ~Spill
       \/ (Bind(t) \/ BindVolatile(t) \/ RetryPersist(t)) /\ call[t].key = k /\ IsExpired(call[t].entry)
  \/ Restart /\ rows[k] = NIL

LEMMA LossHasACause ==
  ASSUME TypeOK, TypeOK', [Next]_vars, NEW k \in Keys, View(k) # NIL, View(k)' = NIL
  PROVE  Accounted(k)
  <1>1. ASSUME NEW t \in Threads, StoreStep(t) PROVE Accounted(k)
    <2>1. CASE StoreCall(t) \/ EvictRebuild(t)
      BY <2>1, SameCells DEF StoreCall, EvictRebuild, tiers
    <2>2. CASE StoreLock(t)
      BY <2>2, SweepKeeps
    <2>3. CASE EvictPop(t)
      BY <2>3, SpilledResolves DEF Accounted
    <2>4. CASE CollisionDrop(t)
      <3>1. CASE call[t].key = k
        BY <2>4, <3>1 DEF Accounted
      <3>2. CASE call[t].key # k
        <4>1. call[t].key \in Keys
          BY <2>4 DEF CollisionDrop, Evicting, TypeOK, PhaseOK, Call
        <4>2. PICK ok \in BOOLEAN : BackendDelete({call[t].key}, ok)
          BY <2>4, WriteOutcomesType DEF CollisionDrop
        <4>3. rows'[k] = rows[k] /\ fallback'[k] = fallback[k]
          BY <3>2, <4>1, <4>2, DeleteShows
        <4> QED BY <2>4, <4>3, SameCells DEF CollisionDrop
      <3> QED BY <3>1, <3>2
    <2>5. CASE Bind(t) \/ BindVolatile(t) \/ RetryPersist(t)
      BY <2>5, BoundResolves DEF Accounted
    <2> QED BY <1>1, <2>1, <2>2, <2>3, <2>4, <2>5 DEF StoreStep, LockedStep
  <1>2. ASSUME NEW j \in Keys, KeyStep(j) PROVE Accounted(k)
    <2>1. CASE Delete(j)
      <3>1. CASE j = k
        BY <2>1, <3>1 DEF Accounted
      <3>2. CASE j # k
        <4>1. PICK ok \in BOOLEAN : BackendDelete({j}, ok)
          BY <2>1, WriteOutcomesType DEF Delete
        <4>2. rows'[k] = rows[k] /\ fallback'[k] = fallback[k]
          BY <3>2, <4>1, DeleteShows
        <4>3. spill'[k] = spill[k] /\ now' = now
          BY <2>1, <3>2 DEF Delete, TypeOK
        <4> QED BY <4>2, <4>3, SameCells
      <3> QED BY <3>1, <3>2
    <2>2. CASE ~Delete(j)
      <3>1. ReapExpired(j) \/ WriteBack(j) \/ ReapSpill(j)
        BY <1>2, <2>2
           DEF KeyStep, Retrieve, GetMetadata, GetEntryForSearch, RecordSearchAccess
      <3> QED BY <3>1, ReapKeeps, WriteBackKeeps
    <2> QED BY <2>1, <2>2
  <1>3. CASE Tick \/ Clear
    BY <1>3 DEF Accounted
  <1>4. CASE Restart
    BY <1>4, RestartKeeps DEF Accounted
  <1>5. CASE UNCHANGED vars
    BY <1>5, SameCells DEF vars
  <1> QED BY <1>1, <1>2, <1>3, <1>4, <1>5 DEF Next

\* The retention promise of compression_store.py, for either backend and with or
\* without a spill: an original stops resolving only by its time, a purge, a
\* collision, an eviction with nowhere to go, or a crash that held its only copy.
THEOREM LossesAreAccounted == Spec => LossIsAccounted
  <1>1. TypeOK /\ TypeOK' /\ [Next]_vars
          => [\A k \in Keys : (View(k) # NIL /\ View(k)' = NIL) =>
                \/ Tick
                \/ Delete(k)
                \/ Clear
                \/ \E t \in Threads :
                     \/ CollisionDrop(t) /\ call[t].key = k
                     \/ EvictPop(t) /\ ~Spill
                     \/ (Bind(t) \/ BindVolatile(t) \/ RetryPersist(t)) /\ call[t].key = k /\ IsExpired(call[t].entry)
                \/ Restart /\ rows[k] = NIL]_vars
    BY LossHasACause DEF Accounted
  <1> QED BY <1>1, TypeCorrect, PTL DEF Spec, LossIsAccounted
-----------------------------------------------------------------------------
(***************************************************************************)
(* Over the in-memory backend (~DurableBackend): capacity, the heap's       *)
(* bookkeeping and eviction order hold for any keys, threads, capacity and  *)
(* interleaving.                                                           *)
(*                                                                         *)
(* No conjunct is inductive alone.  The capacity bound needs the eviction   *)
(* loop to stop only below capacity, which with an empty heap needs every   *)
(* live entry to be in the heap; the discount of a stale tuple keeps the    *)
(* counter exact only because a tuple that names no live entry proves the   *)
(* counter positive; and the heap's bound needs the counter's bound while   *)
(* the lock is held.                                                        *)
(***************************************************************************)

\* Every write of the in-memory backend lands, so nothing is in the fallback
\* and no thread retries.
Volatile ==
  /\ fallback = [k \in Keys |-> NIL]
  /\ \A t \in Threads : pc[t] # "retry"

\* The sweep leaves less than half of the heap stale to the thread it lets in.
StaleBelowCapacity == lock # NIL => stale < MaxEntries

IInv ==
  /\ TypeOK
  /\ Volatile
  /\ HeapCovers
  /\ HeapExact
  /\ CapacityBound
  /\ HeapBounded
  /\ StaleBelowCapacity

-----------------------------------------------------------------------------
(* The same notions as operators of a tier and a heap.                     *)

LiveIn(tier) == {k \in Keys : tier[k] # NIL}
Covers(tier, H) ==
  \A k \in LiveIn(tier) : \E h \in H : h[1] = tier[k].created /\ h[2] = k

\* With an empty fallback the primary is the dict.
LEMMA DictGet ==
  ASSUME fallback = [k \in Keys |-> NIL]
  PROVE  /\ \A k \in Keys : Get(k) = rows[k]
         /\ Live = LiveIn(rows)
         /\ Count = Cardinality(LiveIn(rows))
         /\ HeapCovers <=> Covers(rows, heap)
  <1>1. \A k \in Keys : Get(k) = rows[k]
    BY DEF Get
  <1>2. Live = LiveIn(rows)
    BY <1>1 DEF Live, LiveIn
  <1>3. HeapCovers <=> Covers(rows, heap)
    BY <1>1, <1>2 DEF HeapCovers, Covers, LiveIn
  <1> QED BY <1>1, <1>2, <1>3 DEF Count

\* The same in the next state.
LEMMA DictGetNext ==
  ASSUME fallback' = [k \in Keys |-> NIL]
  PROVE  /\ \A k \in Keys : Get(k)' = rows'[k]
         /\ Live' = LiveIn(rows')
         /\ Count' = Cardinality(LiveIn(rows'))
         /\ HeapCovers' <=> Covers(rows', heap')
  <1>1. \A k \in Keys : Get(k)' = rows'[k]
    BY DEF Get
  <1>2. Live' = LiveIn(rows')
    BY <1>1 DEF Live, LiveIn
  <1>3. HeapCovers' <=> Covers(rows', heap')
    BY <1>1, <1>2 DEF HeapCovers, Covers, LiveIn
  <1> QED BY <1>1, <1>2, <1>3 DEF Count

LEMMA LiveInFinite ==
  ASSUME NEW tier
  PROVE  IsFiniteSet(LiveIn(tier)) /\ Cardinality(LiveIn(tier)) \in Nat
  BY KeySubsetFinite DEF LiveIn

\* Removing keys.
LEMMA RemoveKeys ==
  ASSUME NEW tier \in [Keys -> OptEntry], NEW K \in SUBSET Keys, NEW H, Covers(tier, H)
  PROVE  /\ LiveIn(Without(tier, K)) = LiveIn(tier) \ K
         /\ Covers(Without(tier, K), H)
         /\ Cardinality(LiveIn(Without(tier, K)))
              = Cardinality(LiveIn(tier)) - Cardinality(LiveIn(tier) \cap K)
  <1>1. LiveIn(Without(tier, K)) = LiveIn(tier) \ K
    BY DEF LiveIn, Without
  <1>2. Covers(Without(tier, K), H)
    BY <1>1 DEF Covers, LiveIn, Without
  <1> QED BY <1>1, <1>2, LiveInFinite, FS_Difference

\* Removing one key.
LEMMA RemoveKey ==
  ASSUME NEW tier \in [Keys -> OptEntry], NEW k \in Keys, NEW H, Covers(tier, H)
  PROVE  /\ Covers(Without(tier, {k}), H)
         /\ Cardinality(LiveIn(Without(tier, {k})))
              = IF tier[k] # NIL THEN Cardinality(LiveIn(tier)) - 1 ELSE Cardinality(LiveIn(tier))
  <1>1. /\ LiveIn(Without(tier, {k})) = LiveIn(tier) \ {k}
        /\ Covers(Without(tier, {k}), H)
    <2>1. {k} \in SUBSET Keys
      OBVIOUS
    <2> QED BY <2>1, RemoveKeys
  <1>2. k \in LiveIn(tier) <=> tier[k] # NIL
    BY DEF LiveIn
  <1> QED BY <1>1, <1>2, LiveInFinite, FS_RemoveElement

\* Binding a key and pushing its tuple.
LEMMA AddKey ==
  ASSUME NEW tier \in [Keys -> OptEntry], NEW k \in Keys, NEW e \in Entry, NEW H, NEW n,
         Covers(tier, H)
  PROVE  /\ Covers([tier EXCEPT ![k] = e], H \cup {<<e.created, k, n>>})
         /\ Cardinality(LiveIn([tier EXCEPT ![k] = e]))
              = IF tier[k] # NIL THEN Cardinality(LiveIn(tier)) ELSE Cardinality(LiveIn(tier)) + 1
  <1>1. e # NIL
    BY NILAssumption
  <1>2. LiveIn([tier EXCEPT ![k] = e]) = LiveIn(tier) \cup {k}
    BY <1>1 DEF LiveIn
  <1>3. k \in LiveIn(tier) <=> tier[k] # NIL
    BY DEF LiveIn
  <1>4. Covers([tier EXCEPT ![k] = e], H \cup {<<e.created, k, n>>})
    <2> SUFFICES ASSUME NEW j \in LiveIn([tier EXCEPT ![k] = e])
                 PROVE  \E h \in H \cup {<<e.created, k, n>>} :
                           h[1] = [tier EXCEPT ![k] = e][j].created /\ h[2] = j
      BY DEF Covers
    <2>1. CASE j = k
      <3>1. [tier EXCEPT ![k] = e][j] = e
        BY <2>1
      <3>2. <<e.created, k, n>>[1] = e.created /\ <<e.created, k, n>>[2] = k
        OBVIOUS
      <3> QED BY <2>1, <3>1, <3>2
    <2>2. CASE j # k
      BY <1>2, <2>2 DEF Covers, LiveIn
    <2> QED BY <2>1, <2>2
  <1> QED BY <1>2, <1>3, <1>4, LiveInFinite, FS_AddElement

\* A heap rebuilt from the live entries covers them, with no stale tuple.
LEMMA RebuiltHeap ==
  ASSUME NEW tier \in [Keys -> OptEntry]
  PROVE  /\ Covers(tier, Index(tier))
         /\ Cardinality(Index(tier)) = Cardinality(LiveIn(tier))
         /\ IsFiniteSet(Index(tier))
  <1>1. Covers(tier, Index(tier))
    <2> SUFFICES ASSUME NEW k \in LiveIn(tier)
                 PROVE  \E h \in Index(tier) : h[1] = tier[k].created /\ h[2] = k
      BY DEF Covers
    <2>1. <<tier[k].created, k, 0>> \in Index(tier)
      BY DEF Index, LiveIn
    <2> QED BY <2>1
  <1> QED BY <1>1, IndexType DEF LiveIn

\* A tuple that names no live entry makes the heap larger than the entries.
LEMMA StaleTuple ==
  ASSUME NEW tier \in [Keys -> OptEntry], NEW H, IsFiniteSet(H), Covers(tier, H),
         NEW h \in H, ~(tier[h[2]] # NIL /\ tier[h[2]].created = h[1])
  PROVE  /\ Covers(tier, H \ {h})
         /\ Cardinality(LiveIn(tier)) < Cardinality(H)
         /\ Cardinality(H \ {h}) = Cardinality(H) - 1
         /\ Cardinality(H) \in Nat
  <1> DEFINE cover(k) == CHOOSE g \in H : g[1] = tier[k].created /\ g[2] = k
             f == [k \in LiveIn(tier) |-> cover(k)]
  <1>1. \A k \in LiveIn(tier) : cover(k) \in H /\ cover(k)[1] = tier[k].created /\ cover(k)[2] = k
    BY DEF Covers
  <1>2. \A k \in LiveIn(tier) : cover(k) # h
    BY <1>1 DEF LiveIn
  <1>3. f \in Injection(LiveIn(tier), H \ {h})
    <2>1. f \in [LiveIn(tier) -> H \ {h}]
      BY <1>1, <1>2
    <2>2. \A j, k \in LiveIn(tier) : f[j] = f[k] => j = k
      BY <1>1
    <2> QED BY <2>1, <2>2 DEF Injection, IsInjective
  <1>4. IsFiniteSet(H \ {h}) /\ Cardinality(H \ {h}) = Cardinality(H) - 1
    BY FS_RemoveElement
  <1>5. Cardinality(H) \in Nat
    BY FS_CardinalityType
  <1>6. Covers(tier, H \ {h})
    BY <1>1, <1>2 DEF Covers
  <1> HIDE DEF f
  <1>7. Cardinality(LiveIn(tier)) <= Cardinality(H \ {h})
    BY <1>3, <1>4, FS_Injection
  <1> QED BY <1>4, <1>5, <1>6, <1>7, LiveInFinite

-----------------------------------------------------------------------------
(* The steps.                                                              *)

LEMMA WritesLand == ASSUME ~DurableBackend PROVE WriteOutcomes = {TRUE}
  BY StoreAssumption DEF StoreAssumption, WriteOutcomes

\* What the invariant says of the dict and the heap, and of the counter.
Bookkeeping(tier, H, s, held) ==
  /\ Covers(tier, H)
  /\ Cardinality(H) = Cardinality(LiveIn(tier)) + s
  /\ Cardinality(LiveIn(tier)) <= MaxEntries
  /\ Cardinality(H) < 2 * MaxEntries
  /\ held => s < MaxEntries

LEMMA IInvParts == IInv <=> TypeOK /\ Volatile /\ Bookkeeping(rows, heap, stale, lock # NIL)
  <1>1. ASSUME Volatile
        PROVE  /\ HeapCovers /\ HeapExact /\ CapacityBound /\ HeapBounded /\ StaleBelowCapacity
               <=> Bookkeeping(rows, heap, stale, lock # NIL)
    BY <1>1, DictGet
       DEF Volatile, Bookkeeping, HeapExact, CapacityBound, HeapBounded, StaleBelowCapacity
  <1> QED BY <1>1 DEF IInv

LEMMA IInvPartsNext ==
  IInv' <=> TypeOK' /\ Volatile' /\ Bookkeeping(rows', heap', stale', lock' # NIL)
  <1>1. ASSUME Volatile'
        PROVE  /\ HeapCovers' /\ HeapExact' /\ CapacityBound' /\ HeapBounded' /\ StaleBelowCapacity'
               <=> Bookkeeping(rows', heap', stale', lock' # NIL)
    BY <1>1, DictGetNext
       DEF Volatile, Bookkeeping, HeapExact, CapacityBound, HeapBounded, StaleBelowCapacity
  <1> QED BY <1>1 DEF IInv

\* The numbers the arithmetic below is about.
LEMMA Numbers ==
  ASSUME TypeOK
  PROVE  /\ stale \in Nat /\ MaxEntries \in Nat \ {0}
         /\ Cardinality(heap) \in Nat
         /\ Cardinality(LiveIn(rows)) \in Nat
  BY StoreAssumption, LiveInFinite, FS_CardinalityType DEF TypeOK, StoreAssumption

\* Outside the eviction loop's own steps: K is deleted and at most as many
\* tuples as were live are counted stale.
LEMMA DeleteKeeps ==
  ASSUME IInv, ~DurableBackend, NEW k \in Keys, BackendDelete({k}, TRUE),
         rows[k] # NIL, heap' = heap, stale' = stale + 1, lock' = NIL,
         \A t \in Threads : pc'[t] # "retry", TypeOK'
  PROVE  IInv'
  <1>1. rows' = Without(rows, {k}) /\ Volatile'
    BY DEF BackendDelete, Volatile, IInv, Without
  <1>2. rows \in [Keys -> OptEntry] /\ Bookkeeping(rows, heap, stale, lock # NIL)
    BY IInvParts DEF IInv, TypeOK
  <1>3. Covers(rows', heap) /\ Cardinality(LiveIn(rows')) = Cardinality(LiveIn(rows)) - 1
    BY <1>1, <1>2, RemoveKey DEF Bookkeeping
  <1>4. Bookkeeping(rows', heap', stale', lock' # NIL)
    BY <1>2, <1>3, Numbers DEF Bookkeeping, IInv
  <1> QED BY <1>1, <1>4, IInvPartsNext

\* A step that leaves the dict, the heap and the counter alone.
LEMMA SameBooks ==
  ASSUME IInv, TypeOK', UNCHANGED <<rows, fallback, heap, stale>>,
         lock' # NIL => lock # NIL,
         \A t \in Threads : pc'[t] # "retry"
  PROVE  IInv'
  <1>1. Volatile'
    BY DEF Volatile, IInv
  <1>2. Bookkeeping(rows', heap', stale', lock' # NIL)
    BY IInvParts DEF Bookkeeping
  <1> QED BY <1>1, <1>2, IInvPartsNext

LEMMA StoreLockKeeps ==
  ASSUME IInv, ~DurableBackend, NEW t \in Threads, StoreLock(t), TypeOK'
  PROVE  IInv'
  <1>1. PICK ok \in BOOLEAN :
          /\ rows' = Without(rows, ExpiredRows(ok))
          /\ fallback' = Without(fallback, ExpiredFallback)
          /\ heap' = IF RebuildDue(SweptStale(ok)) THEN LiveIndex' ELSE heap
          /\ stale' = IF RebuildDue(SweptStale(ok)) THEN 0 ELSE SweptStale(ok)
          /\ pc' = [pc EXCEPT ![t] = "evict"]
    BY WriteOutcomesType DEF StoreLock
  <1> DEFINE K == ExpiredRows(ok)
             swept == SweptStale(ok)
  <1>2. TypeOK /\ Volatile /\ Bookkeeping(rows, heap, stale, lock # NIL)
    BY IInvParts
  <1>3. /\ fallback' = [k \in Keys |-> NIL]
        /\ Volatile'
    BY <1>1, <1>2 DEF Volatile, Without, TypeOK
  <1>4. K \in SUBSET Keys /\ K \subseteq LiveIn(rows) /\ rows \in [Keys -> OptEntry]
    BY <1>2 DEF ExpiredRows, LiveIn, TypeOK
  <1>5. ExpiredFallback = {}
    BY <1>2 DEF ExpiredFallback, Volatile
  <1>6. swept = stale + Cardinality(K) /\ Cardinality(K) \in Nat
    <2>1. Cardinality(K) \in Nat
      BY <1>4, KeySubsetFinite
    <2>2. Cardinality(ExpiredFallback) = 0
      BY <1>5, FS_EmptySet
    <2>3. swept = stale + Cardinality(K) + Cardinality(ExpiredFallback)
      BY DEF SweptStale
    <2> QED BY <1>2, <2>1, <2>2, <2>3 DEF TypeOK
  <1>7. LiveIn(rows) \cap K = K
    BY <1>4
  <1>8. /\ Covers(rows', heap)
        /\ Cardinality(LiveIn(rows')) = Cardinality(LiveIn(rows)) - Cardinality(K)
    BY <1>1, <1>2, <1>4, <1>7, RemoveKeys DEF Bookkeeping
  <1>9. Cardinality(LiveIn(rows')) \in Nat
    BY LiveInFinite
  <1>13. /\ heap' = IF RebuildDue(swept) THEN LiveIndex' ELSE heap
         /\ stale' = IF RebuildDue(swept) THEN 0 ELSE swept
    BY <1>1
  <1> HIDE DEF K, swept
  <1>10. Cardinality(LiveIn(rows')) <= MaxEntries
    BY <1>2, <1>6, <1>8, <1>9, Numbers DEF Bookkeeping
  <1>11. CASE RebuildDue(swept)
    <2>1. rows' \in [Keys -> OptEntry]
      BY DEF TypeOK
    <2>2. heap' = Index(rows') /\ stale' = 0
      <3>1. LiveIndex' = Index(rows')
        BY <1>3, <2>1, DictGetNext DEF LiveIndex, Index
      <3> QED BY <1>11, <1>13, <3>1
    <2>3. Covers(rows', heap') /\ Cardinality(heap') = Cardinality(LiveIn(rows'))
      BY <2>1, <2>2, RebuiltHeap
    <2>4. Bookkeeping(rows', heap', stale', lock' # NIL)
      BY <1>2, <1>9, <1>10, <2>2, <2>3, Numbers DEF Bookkeeping
    <2> QED BY <1>3, <2>4, IInvPartsNext
  <1>12. CASE ~RebuildDue(swept)
    <2>1. heap' = heap /\ stale' = stale + Cardinality(K)
      BY <1>6, <1>12, <1>13
    <2>2. Cardinality(heap) = Cardinality(LiveIn(rows')) + stale' /\ stale' \in Nat
      BY <1>2, <1>6, <1>8, <1>9, <2>1, Numbers DEF Bookkeeping
    <2>3. CASE heap = {}
      <3>1. Cardinality(heap) = 0
        BY <2>3, FS_EmptySet
      <3>2. stale' < MaxEntries
        BY <1>2, <1>9, <2>2, <3>1, Numbers
      <3> QED BY <1>2, <1>3, <1>8, <1>10, <2>1, <2>2, <3>2, IInvPartsNext DEF Bookkeeping
    <2>4. CASE 2 * stale' < Cardinality(heap)
      <3>1. stale' < MaxEntries
        BY <1>2, <1>9, <1>10, <2>2, <2>4, Numbers
      <3> QED BY <1>2, <1>3, <1>8, <1>10, <2>1, <2>2, <3>1, IInvPartsNext DEF Bookkeeping
    <2>5. heap = {} \/ 2 * stale' < Cardinality(heap)
      BY <1>2, <1>6, <1>12, <2>1, <2>2, Numbers DEF RebuildDue
    <2> QED BY <2>3, <2>4, <2>5
  <1> QED BY <1>11, <1>12

LEMMA EvictPopKeeps ==
  ASSUME IInv, ~DurableBackend, NEW t \in Threads, EvictPop(t), TypeOK'
  PROVE  IInv'
  <1>1. PICK h \in heap :
          /\ heap' = heap \ {h}
          /\ IF Get(h[2]) # NIL /\ Get(h[2]).created = h[1]
               THEN BackendDelete({h[2]}, TRUE) /\ UNCHANGED stale
               ELSE stale' = Discounted /\ UNCHANGED tiers
    BY WritesLand DEF EvictPop, Oldest, Popped
  <1>2. TypeOK /\ Volatile /\ Bookkeeping(rows, heap, stale, lock # NIL)
    BY IInvParts
  <1>3. h[2] \in Keys /\ rows \in [Keys -> OptEntry] /\ IsFiniteSet(heap)
    BY <1>2 DEF TypeOK, HeapEntry
  <1>4. Volatile'
    BY <1>1, <1>2 DEF EvictPop, BackendDelete, Without, Volatile, tiers
  <1>5. Cardinality(heap') = Cardinality(heap) - 1
    BY <1>1, <1>3, FS_RemoveElement
  <1>6. Get(h[2]) = rows[h[2]]
    BY <1>2, <1>3, DictGet DEF Volatile
  <1>7. UNCHANGED lock
    BY DEF EvictPop
  <1>8. CASE rows[h[2]] # NIL /\ rows[h[2]].created = h[1]
    <2>1. rows' = Without(rows, {h[2]}) /\ stale' = stale
      BY <1>1, <1>6, <1>8 DEF BackendDelete
    <2>2. /\ Covers(rows', heap)
          /\ Cardinality(LiveIn(rows')) = Cardinality(LiveIn(rows)) - 1
      BY <1>2, <1>3, <1>8, <2>1, RemoveKey DEF Bookkeeping
    <2>3. Covers(rows', heap')
      <3>1. rows'[h[2]] = NIL
        BY <1>3, <2>1 DEF Without
      <3> QED BY <1>1, <2>2, <3>1 DEF Covers, LiveIn
    <2>4. Bookkeeping(rows', heap', stale', lock' # NIL)
      BY <1>2, <1>5, <1>7, <2>1, <2>2, <2>3, Numbers DEF Bookkeeping
    <2> QED BY <1>4, <2>4, IInvPartsNext
  <1>9. CASE ~(rows[h[2]] # NIL /\ rows[h[2]].created = h[1])
    <2>1. rows' = rows /\ stale' = Discounted
      BY <1>1, <1>6, <1>9 DEF tiers
    <2>2. Covers(rows, heap') /\ Cardinality(LiveIn(rows)) < Cardinality(heap)
      BY <1>1, <1>2, <1>3, <1>9, StaleTuple DEF Bookkeeping
    <2>3. stale' = stale - 1
      BY <1>2, <2>1, <2>2, Numbers DEF Bookkeeping, Discounted
    <2>4. Bookkeeping(rows', heap', stale', lock' # NIL)
      BY <1>2, <1>5, <1>7, <2>1, <2>2, <2>3, Numbers DEF Bookkeeping
    <2> QED BY <1>4, <2>4, IInvPartsNext
  <1> QED BY <1>8, <1>9

LEMMA EvictRebuildKeeps ==
  ASSUME IInv, ~DurableBackend, NEW t \in Threads, EvictRebuild(t), TypeOK'
  PROVE  IInv'
  <1>1. TypeOK /\ Volatile /\ Bookkeeping(rows, heap, stale, lock # NIL)
    BY IInvParts
  <1>2. /\ rows' = rows /\ fallback' = fallback /\ pc' = pc /\ lock' = lock
        /\ heap' = LiveIndex /\ stale' = 0
    BY DEF EvictRebuild, tiers
  <1>3. rows \in [Keys -> OptEntry]
    BY <1>1 DEF TypeOK
  <1>4. LiveIndex = Index(rows)
    BY <1>1, <1>3, DictGet DEF LiveIndex, Index, Volatile
  <1>5. Bookkeeping(rows', heap', stale', lock' # NIL)
    BY <1>1, <1>2, <1>3, <1>4, RebuiltHeap, Numbers DEF Bookkeeping
  <1> QED BY <1>1, <1>2, <1>5, IInvPartsNext DEF Volatile

LEMMA BindKeeps ==
  ASSUME IInv, ~DurableBackend, NEW t \in Threads, Bind(t), TypeOK'
  PROVE  IInv'
  <1> DEFINE k == call[t].key
             e == call[t].entry
             n == FreshCopy(e.created, k)
             w == <<e.created, k, n>>
  <1>1. BindKey(t, TRUE) /\ Release(t)
    BY WritesLand DEF Bind
  <1>2. TypeOK /\ Volatile /\ Bookkeeping(rows, heap, stale, lock # NIL)
    BY IInvParts
  <1>3. k \in Keys /\ e \in Entry
    BY <1>1, <1>2, CallType DEF BindKey, Evicting
  <1>4. rows \in [Keys -> OptEntry] /\ IsFiniteSet(heap)
    BY <1>2 DEF TypeOK
  <1>5. /\ rows' = [rows EXCEPT ![k] = e]
        /\ heap' = heap \cup {w}
        /\ stale' = IF rows[k] # NIL THEN stale + 1 ELSE stale
        /\ lock' = NIL
    BY <1>1, <1>2, <1>3, DictGet DEF BindKey, BackendSet, Push, Release, Volatile
  <1>6. Volatile'
    BY <1>1, <1>2, <1>3 DEF BindKey, BackendSet, Release, Volatile, TypeOK
  <1>7. Cardinality(heap') = Cardinality(heap) + 1
    BY <1>2, <1>4, <1>5, FreshCopyIsFresh, FS_AddElement
  <1>8. /\ Covers(rows', heap')
        /\ Cardinality(LiveIn(rows'))
             = IF rows[k] # NIL THEN Cardinality(LiveIn(rows)) ELSE Cardinality(LiveIn(rows)) + 1
    BY <1>2, <1>3, <1>4, <1>5, AddKey DEF Bookkeeping
  <1>9. stale < MaxEntries
    BY <1>1, <1>2, NILAssumption DEF Bookkeeping, BindKey, Evicting
  <1>10. Cardinality(LiveIn(rows)) < MaxEntries
    <2>1. CASE Count < MaxEntries
      BY <1>2, <2>1, DictGet DEF Volatile
    <2>2. CASE heap = {}
      <3>1. Cardinality(heap) = 0
        BY <2>2, FS_EmptySet
      <3> QED BY <1>2, <3>1, Numbers DEF Bookkeeping
    <2> QED BY <1>1, <2>1, <2>2 DEF BindKey, EvictionDone
  <1>11. Bookkeeping(rows', heap', stale', lock' # NIL)
    BY <1>2, <1>5, <1>7, <1>8, <1>9, <1>10, Numbers DEF Bookkeeping
  <1> QED BY <1>6, <1>11, IInvPartsNext

\* The retry phase is out of reach: every write lands.
LEMMA NoRetry ==
  ASSUME IInv, ~DurableBackend, NEW t \in Threads
  PROVE  ~BindVolatile(t) /\ ~RetryPersist(t)
  BY WritesLand DEF BindVolatile, MustRetry, RetryPersist, IInv, Volatile

LEMMA StoreStepKeeps ==
  ASSUME IInv, ~DurableBackend, NEW t \in Threads, StoreStep(t), TypeOK'
  PROVE  IInv'
  <1>1. CASE StoreCall(t)
    <2>1. UNCHANGED <<rows, fallback, heap, stale, lock>> /\ pc' = [pc EXCEPT ![t] = "call"]
      BY <1>1 DEF StoreCall, tiers
    <2>2. \A u \in Threads : pc'[u] # "retry"
      BY <2>1 DEF IInv, Volatile, TypeOK
    <2> QED BY <2>1, <2>2, SameBooks
  <1>2. CASE CollisionDrop(t)
    <2>1. TypeOK /\ Volatile /\ call[t].key \in Keys
      BY <1>2, CallType DEF IInv, CollisionDrop, Evicting
    <2>2. rows[call[t].key] # NIL
      BY <1>2, <2>1, DictGet DEF CollisionDrop, Collides, Volatile
    <2>3. /\ BackendDelete({call[t].key}, TRUE)
          /\ heap' = heap /\ stale' = stale + 1 /\ lock' = NIL
          /\ pc' = [pc EXCEPT ![t] = "idle"]
      BY <1>2, WritesLand DEF CollisionDrop, Release
    <2>4. \A u \in Threads : pc'[u] # "retry"
      BY <2>1, <2>3 DEF Volatile, TypeOK
    <2> QED BY <2>1, <2>2, <2>3, <2>4, DeleteKeeps
  <1> QED
    BY <1>1, <1>2, NoRetry, StoreLockKeeps, EvictPopKeeps, EvictRebuildKeeps, BindKeeps
       DEF StoreStep, LockedStep

LEMMA KeyStepKeeps ==
  ASSUME IInv, ~DurableBackend, NEW k \in Keys, KeyStep(k), TypeOK'
  PROVE  IInv'
  <1>1. /\ TypeOK /\ Volatile /\ Get(k) = rows[k] /\ lock = NIL
        /\ UNCHANGED <<heap, threads>>
    BY DictGet
       DEF IInv, Volatile, KeyStep, Retrieve, GetMetadata, GetEntryForSearch,
           RecordSearchAccess, Delete, ReapExpired, WriteBack, ReapSpill
  <1>2. UNCHANGED <<lock, pc>> /\ \A t \in Threads : pc'[t] # "retry"
    BY <1>1 DEF threads, Volatile
  <1>3. CASE ReapExpired(k)
    <2>1. rows[k] # NIL /\ BackendDelete({k}, TRUE) /\ stale' = stale + 1
      BY <1>1, <1>3, WritesLand DEF ReapExpired
    <2> QED BY <1>1, <1>2, <2>1, DeleteKeeps
  <1>4. CASE WriteBack(k)
    <2>1. BackendSet(k, rows[k], TRUE) /\ UNCHANGED stale
      BY <1>1, <1>4, WritesLand DEF WriteBack
    <2>2. UNCHANGED <<rows, fallback>>
      BY <1>1, <2>1 DEF BackendSet, TypeOK, Volatile
    <2> QED BY <1>1, <1>2, <2>1, <2>2, SameBooks
  <1>5. CASE ReapSpill(k)
    BY <1>1, <1>2, <1>5, SameBooks DEF ReapSpill
  <1>6. CASE Delete(k)
    <2>1. /\ BackendDelete({k}, TRUE)
          /\ stale' = IF BackendDeleted(k, TRUE) THEN stale + 1 ELSE stale
      BY <1>6, WritesLand DEF Delete
    <2>2. BackendDeleted(k, TRUE) <=> rows[k] # NIL
      BY <1>1 DEF BackendDeleted, Volatile
    <2>3. CASE rows[k] # NIL
      BY <1>1, <1>2, <2>1, <2>2, <2>3, DeleteKeeps
    <2>4. CASE rows[k] = NIL
      <3>1. UNCHANGED <<rows, fallback>>
        BY <1>1, <2>1, <2>4 DEF BackendDelete, Without, TypeOK, Volatile
      <3> QED BY <1>1, <1>2, <2>1, <2>2, <2>4, <3>1, SameBooks
    <2> QED BY <2>3, <2>4
  <1> QED
    BY <1>3, <1>4, <1>5, <1>6
       DEF KeyStep, Retrieve, GetMetadata, GetEntryForSearch, RecordSearchAccess

\* Empty tiers and an empty heap agree.
LEMMA EmptyBooks ==
  ASSUME NEW tier, \A k \in Keys : tier[k] = NIL
  PROVE  /\ Covers(tier, {})
         /\ Cardinality({}) = 0
         /\ Cardinality(LiveIn(tier)) = 0
  <1>1. LiveIn(tier) = {}
    BY DEF LiveIn
  <1> QED BY <1>1, FS_EmptySet DEF Covers

LEMMA ClearKeeps == ASSUME IInv, ~DurableBackend, Clear, TypeOK' PROVE IInv'
  <1>1. /\ rows' = Without(rows, Keys) /\ fallback' = Without(fallback, Keys)
        /\ heap' = {} /\ stale' = 0 /\ lock = NIL /\ UNCHANGED <<lock, pc>>
    <2>1. PICK ok \in WriteOutcomes : BackendDelete(Keys, ok)
      BY DEF Clear
    <2>2. ok = TRUE
      BY WritesLand
    <2> QED BY <2>1, <2>2 DEF Clear, BackendDelete, threads
  <1>2. Volatile'
    BY <1>1 DEF IInv, Volatile, Without
  <1>3. \A k \in Keys : rows'[k] = NIL
    BY <1>1 DEF Without
  <1>4. Covers(rows', {}) /\ Cardinality({}) = 0 /\ Cardinality(LiveIn(rows')) = 0
    BY <1>3, EmptyBooks
  <1> QED BY <1>1, <1>2, <1>4, IInvPartsNext, StoreAssumption DEF Bookkeeping, StoreAssumption

LEMMA IInvInitially == ~DurableBackend /\ Init => IInv
  <1> SUFFICES ASSUME Init PROVE IInv
    OBVIOUS
  <1>1. Volatile
    BY DEF Init, Volatile
  <1>2. \A k \in Keys : rows[k] = NIL
    BY DEF Init
  <1>3. Covers(rows, heap) /\ Cardinality(heap) = 0 /\ Cardinality(LiveIn(rows)) = 0
    BY <1>2, EmptyBooks DEF Init
  <1>4. Bookkeeping(rows, heap, stale, lock # NIL)
    BY <1>3, StoreAssumption DEF Bookkeeping, Init, StoreAssumption
  <1> QED BY <1>1, <1>4, TypeInitially, IInvParts

LEMMA IInvStep == ~DurableBackend /\ IInv /\ [Next]_vars => IInv'
  <1> SUFFICES ASSUME ~DurableBackend, IInv, [Next]_vars PROVE IInv'
    OBVIOUS
  <1>1. TypeOK'
    BY TypeStep DEF IInv
  <1>2. CASE Tick
    BY <1>1, <1>2, SameBooks DEF Tick, tiers, threads, IInv, Volatile
  <1>3. CASE UNCHANGED vars
    BY <1>1, <1>3, SameBooks DEF vars, IInv, Volatile
  <1>4. ~Restart
    BY DEF Restart
  <1> QED
    BY <1>1, <1>2, <1>3, <1>4, StoreStepKeeps, KeyStepKeeps, ClearKeeps DEF Next

LEMMA AlwaysIInv == ASSUME ~DurableBackend PROVE Spec => []IInv
  BY IInvInitially, IInvStep, PTL DEF Spec

\* _evict_if_needed of compression_store.py: over the in-memory backend the store
\* never exceeds its capacity.
THEOREM VolatileWithinCapacity ==
  ASSUME ~DurableBackend
  PROVE  Spec => []CapacityBound
  <1>1. IInv => CapacityBound
    BY DEF IInv
  <1> QED BY <1>1, AlwaysIInv, PTL

\* The bookkeeping of its heap: every live entry has its tuple, the stale ones are
\* counted exactly, and churn keeps the heap below twice the capacity.
THEOREM VolatileHeapIsSound ==
  ASSUME ~DurableBackend
  PROVE  Spec => []HeapSound
  <1>1. IInv => HeapSound
    BY DEF IInv, HeapSound
  <1> QED BY <1>1, AlwaysIInv, PTL

-----------------------------------------------------------------------------
(* Eviction order.                                                         *)

\* The key an eviction removes had the oldest of the live timestamps: the popped
\* tuple is a minimum, and every live entry has a tuple to compare it with.
LEMMA EvictionIsOldest ==
  ASSUME IInv, ~DurableBackend, NEW t \in Threads, EvictPop(t),
         NEW k \in Live \ Live', NEW j \in Live
  PROVE  Get(k).created <= Get(j).created
  <1>1. PICK h \in heap :
          /\ \A g \in heap : h[1] <= g[1]
          /\ IF Get(h[2]) # NIL /\ Get(h[2]).created = h[1]
               THEN BackendDelete({h[2]}, TRUE)
               ELSE UNCHANGED tiers
    BY WritesLand DEF EvictPop, Oldest
  <1>2. k \in Keys /\ j \in Keys /\ Get(k) # NIL /\ Get(k)' = NIL
    BY DEF Live
  <1>3. k = h[2] /\ Get(k).created = h[1]
    BY <1>1, <1>2 DEF BackendDelete, Without, Get, tiers
  <1>4. \E g \in heap : g[1] = Get(j).created
    BY DEF IInv, HeapCovers
  <1> QED BY <1>1, <1>3, <1>4

\* Capacity evicts oldest-created-first.
THEOREM VolatileEvictsOldest ==
  ASSUME ~DurableBackend
  PROVE  Spec => EvictsOldest
  <1>1. IInv /\ [Next]_vars
          => [\A t \in Threads : EvictPop(t) =>
                \A k \in Live \ Live', j \in Live' : Get(k).created <= Get(j).created]_vars
    <2> SUFFICES ASSUME IInv, NEW t \in Threads, EvictPop(t),
                        NEW k \in Live \ Live', NEW j \in Live'
                 PROVE  Get(k).created <= Get(j).created
      OBVIOUS
    <2>1. j \in Keys /\ Get(j)' # NIL
      BY DEF Live
    <2>2. Get(j) # NIL
      BY <2>1, WritesLand DEF EvictPop, BackendDelete, Without, Get, tiers
    <2> QED BY <2>1, <2>2, EvictionIsOldest DEF Live
  <1> QED BY <1>1, IInvInitially, IInvStep, PTL DEF Spec, EvictsOldest

-----------------------------------------------------------------------------
(* Refinement: without a spill tier the store implements MarkerContract.   *)

\* What a dict shows for a key at a time.
Shown(tier, time, k) ==
  IF tier[k] = NIL \/ time - tier[k].created > tier[k].ttl THEN NIL ELSE tier[k].content

LEMMA DictView ==
  ASSUME ~Spill, fallback = [k \in Keys |-> NIL], NEW k \in Keys
  PROVE  View(k) = Shown(rows, now, k)
  BY DEF View, RetrieveResult, RecoverFromSpill, IsExpired, Get, Shown

LEMMA DictViewNext ==
  ASSUME ~Spill, fallback' = [k \in Keys |-> NIL], NEW k \in Keys
  PROVE  View(k)' = Shown(rows', now', k)
  BY DEF View, RetrieveResult, RecoverFromSpill, IsExpired, Get, Shown

\* Keys that only stop resolving are a miss of the contract.
LEMMA FadingIsAMiss ==
  ASSUME \A k \in Keys : View(k)' \in {View(k), NIL}
  PROVE  Contract!Miss
  <1> DEFINE lost == {k \in Keys : View(k)' = NIL}
  <1>1. \A k \in Keys : View(k)' = IF k \in lost THEN NIL ELSE View(k)
    OBVIOUS
  <1>2. lost \in SUBSET Keys
    OBVIOUS
  <1> QED BY <1>1, <1>2 DEF Contract!Miss

\* Every step but a bind only removes entries or lets time pass.
LEMMA OtherStepsFade ==
  ASSUME IInv, ~DurableBackend, [Next]_vars, \A t \in Threads : ~Bind(t), NEW k \in Keys
  PROVE  /\ rows'[k] \in {rows[k], NIL}
         /\ now' \in {now, now + 1}
  <1>1. fallback = [j \in Keys |-> NIL] /\ TypeOK
    BY DEF IInv, Volatile
  <1>2. ASSUME NEW t \in Threads, StoreStep(t) PROVE rows'[k] \in {rows[k], NIL} /\ now' = now
    BY <1>2, WritesLand, NoRetry
       DEF StoreStep, LockedStep, StoreCall, StoreLock, EvictPop, EvictRebuild, CollisionDrop,
           BackendDelete, Without, tiers
  <1>3. ASSUME NEW j \in Keys, KeyStep(j) PROVE rows'[k] \in {rows[k], NIL} /\ now' = now
    <2>1. CASE WriteBack(j)
      <3>1. BackendSet(j, Get(j), TRUE) /\ now' = now
        BY <2>1, WritesLand DEF WriteBack
      <3>2. Get(j) = rows[j]
        BY <1>1 DEF Get
      <3> QED BY <1>1, <3>1, <3>2 DEF BackendSet, TypeOK
    <2>2. CASE ReapExpired(j) \/ ReapSpill(j) \/ Delete(j)
      BY <2>2, WritesLand DEF ReapExpired, ReapSpill, Delete, BackendDelete, Without
    <2> QED
      BY <1>3, <2>1, <2>2
         DEF KeyStep, Retrieve, GetMetadata, GetEntryForSearch, RecordSearchAccess
  <1>4. CASE Clear
    BY <1>4, WritesLand DEF Clear, BackendDelete, Without
  <1>5. CASE Tick
    BY <1>5 DEF Tick, tiers
  <1>6. CASE UNCHANGED vars
    BY <1>6 DEF vars
  <1>7. ~Restart
    BY DEF Restart
  <1> QED BY <1>2, <1>3, <1>4, <1>5, <1>6, <1>7 DEF Next

\* A bind resolves a key that did not, or keeps its original.
LEMMA BindResolves ==
  ASSUME IInv, IInv', ~DurableBackend, ~Spill, NEW t \in Threads, Bind(t)
  PROVE  Contract!Miss \/ \E k \in Keys : Contract!Resolve(k)
  <1>1. BindKey(t, TRUE)
    BY WritesLand DEF Bind
  <1>2. /\ fallback = [j \in Keys |-> NIL] /\ fallback' = [j \in Keys |-> NIL]
        /\ TypeOK /\ rows \in [Keys -> OptEntry]
    BY DEF IInv, Volatile, TypeOK
  <1>3. PICK k \in Keys, e \in Entry : k = call[t].key /\ e = call[t].entry
    BY <1>1, <1>2, CallType DEF BindKey, Evicting
  <1>4. e # NIL /\ e.content \in Contents
    BY NILAssumption DEF Entry
  <1>5. /\ rows' = [rows EXCEPT ![k] = e] /\ now' = now
        /\ rows[k] = NIL \/ rows[k].content = e.content
    BY <1>1, <1>2, <1>3, DictGet DEF BindKey, BackendSet, Collides
  <1>6. ASSUME NEW j \in Keys, j # k PROVE View(j)' = View(j)
    <2>1. rows'[j] = rows[j]
      BY <1>5, <1>6
    <2> QED BY <1>2, <1>5, <2>1, DictView, DictViewNext DEF Shown
  <1>7. View(k) \in {NIL, e.content}
    BY <1>2, <1>5, DictView DEF Shown
  <1>8. View(k)' \in {NIL, e.content}
    <2>1. rows'[k] = e
      BY <1>2, <1>5
    <2> QED BY <1>2, <2>1, DictViewNext DEF Shown
  <1>9. CASE View(k) = NIL /\ View(k)' = e.content
    <2>1. \A j \in Keys : View(j)' = IF j = k THEN e.content ELSE View(j)
      BY <1>6, <1>9
    <2>2. Contract!Resolve(k)
      BY <1>4, <1>9, <2>1 DEF Contract!Resolve
    <2> QED BY <2>2
  <1>10. CASE ~(View(k) = NIL /\ View(k)' = e.content)
    <2>1. \A j \in Keys : View(j)' \in {View(j), NIL}
      BY <1>6, <1>7, <1>8, <1>10
    <2> QED BY <2>1, FadingIsAMiss
  <1> QED BY <1>9, <1>10

\* A resolved marker keeps answering with one original until it misses.
THEOREM VolatileStoreImplementsContract ==
  ASSUME ~DurableBackend, ~Spill
  PROVE  Spec => ImplementsMarkerContract
  <1>1. Init => Contract!Init
    <2> SUFFICES ASSUME Init, NEW k \in Keys PROVE View(k) = NIL
      BY DEF Contract!Init
    <2> QED BY DEF Init, View, RetrieveResult, RecoverFromSpill, Get
  <1>2. IInv /\ [Next]_vars => Contract!Next
    <2> SUFFICES ASSUME IInv, [Next]_vars PROVE Contract!Next
      OBVIOUS
    <2>1. IInv'
      BY IInvStep
    <2>2. CASE \E t \in Threads : Bind(t)
      BY <2>1, <2>2, BindResolves DEF Contract!Next
    <2>3. CASE \A t \in Threads : ~Bind(t)
      <3>1. ASSUME NEW k \in Keys PROVE View(k)' \in {View(k), NIL}
        <4>1. rows'[k] \in {rows[k], NIL} /\ now' \in {now, now + 1}
          BY <2>3, OtherStepsFade
        <4>2. View(k) = Shown(rows, now, k) /\ View(k)' = Shown(rows', now', k)
          BY <2>1, DictView, DictViewNext DEF IInv, Volatile
        <4>3. rows[k] # NIL => rows[k].created \in Nat /\ rows[k].ttl \in Nat
          <5>1. rows[k] # NIL => rows[k] \in [content : Contents, created : 0..MaxTime, ttl : TTLs]
            BY DEF IInv, TypeOK, OptEntry, Entry
          <5>2. rows[k] # NIL => rows[k].created \in 0..MaxTime /\ rows[k].ttl \in TTLs
            BY <5>1
          <5>3. 0..MaxTime \subseteq Nat /\ TTLs \subseteq Nat
            BY StoreAssumption DEF StoreAssumption
          <5> QED BY <5>2, <5>3
        <4>4. now \in Nat
          BY StoreAssumption DEF IInv, TypeOK, StoreAssumption
        <4> QED BY <4>1, <4>2, <4>3, <4>4 DEF Shown
      <3> QED BY <3>1, FadingIsAMiss DEF Contract!Next
    <2> QED BY <2>2, <2>3
  <1> QED BY <1>1, <1>2, IInvInitially, IInvStep, PTL DEF Spec, ImplementsMarkerContract, Contract!Spec
=============================================================================
