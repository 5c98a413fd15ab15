------------------------- MODULE SqliteBackendProofs -------------------------
(***************************************************************************)
(* One database file shared by any number of processes, for any keys, ttls,  *)
(* caps and resync cadences: what a process itself writes never puts its own *)
(* row count off, a put that reports durability is in the file unless one of *)
(* the named things took it, and the file stays near its cap although no     *)
(* process sees what the others write.                                       *)
(*                                                                         *)
(* All rest on how the number of rows changes with a put and with a removal, *)
(* which the first lemmas give, and on the types.  The bound on the file     *)
(* also needs an account of whose count is how old: see AccountInv.          *)
(***************************************************************************)
EXTENDS SqliteBackend, FiniteSetTheorems, NaturalsInduction, WellFoundedInduction, TLAPS

Table == [Keys -> OptEntry]

-----------------------------------------------------------------------------
\* The number of rows.
LEMMA SizeIsNat ==
  ASSUME NEW table \in Table
  PROVE  /\ IsFiniteSet(Live(table)) /\ Live(table) \subseteq Keys
         /\ Size(table) = Cardinality(Live(table)) /\ Size(table) \in Nat
<1>1. Live(table) \in SUBSET Keys
  BY DEF Live
<1>2. IsFiniteSet(Live(table))
  BY <1>1, BackendAssumption, FS_Subset
<1> QED
  BY <1>1, <1>2, FS_CardinalityType DEF Size

\* A removal takes as many rows as it finds.
LEMMA WithoutSize ==
  ASSUME NEW table \in Table, NEW K
  PROVE  /\ Without(table, K) \in Table
         /\ Cardinality(Live(table) \cap K) \in Nat
         /\ Size(Without(table, K)) = Size(table) - Cardinality(Live(table) \cap K)
<1>1. Without(table, K) \in Table
  BY DEF Without, Table, OptEntry
<1>2. Live(Without(table, K)) = Live(table) \ K
  BY DEF Live, Without
<1>3. IsFiniteSet(Live(table))
  BY SizeIsNat
<1>4. /\ IsFiniteSet(Live(table) \cap K)
      /\ Cardinality(Live(table) \ K) = Cardinality(Live(table)) - Cardinality(Live(table) \cap K)
  BY <1>3, FS_Difference, FS_Intersection
<1>5. Cardinality(Live(table) \cap K) \in Nat
  BY <1>4, FS_CardinalityType
<1> QED
  BY <1>1, <1>2, <1>4, <1>5 DEF Size

\* A put adds a row for a key that had none.
Upsert(table, k, e) == [table EXCEPT ![k] = e]

LEMMA UpsertSize ==
  ASSUME NEW table \in Table, NEW k \in Keys, NEW e \in Entry
  PROVE  /\ Upsert(table, k, e) \in Table
         /\ Upsert(table, k, e)[k] = e
         /\ Size(Upsert(table, k, e)) = IF table[k] = NIL THEN Size(table) + 1 ELSE Size(table)
<1>1. Upsert(table, k, e) \in Table /\ Upsert(table, k, e)[k] = e
  BY DEF Upsert, Table, OptEntry
<1>2. Live(Upsert(table, k, e)) = Live(table) \cup {k}
  BY NILAssumption DEF Live, Upsert, Table
<1>3. IsFiniteSet(Live(table))
  BY SizeIsNat
<1>4. Cardinality(Live(table) \cup {k}) =
        IF k \in Live(table) THEN Cardinality(Live(table)) ELSE Cardinality(Live(table)) + 1
  BY <1>3, FS_AddElement
<1>5. k \in Live(table) <=> table[k] # NIL
  BY DEF Live
<1> QED
  BY <1>1, <1>2, <1>4, <1>5 DEF Size

-----------------------------------------------------------------------------
\* The types of what a put computes on its way.
LEMMA CommitTypes ==
  ASSUME TypeOK, NEW p \in Procs, op[p] # NIL
  PROVE  /\ op[p] \in Put /\ op[p].key \in Keys /\ op[p].entry \in Entry
         /\ Upserted(p) = Upsert(rows, op[p].key, op[p].entry)
         /\ Upserted(p) \in Table /\ BeforeCap(p) \in Table
         /\ Counted(p) \in Int
         /\ (put_count[p] + 1) % PurgeEvery \in 0..(PurgeEvery - 1)
<1>1. op[p] \in Put /\ op[p].key \in Keys /\ op[p].entry \in Entry
  BY DEF TypeOK, Put
<1>2. Upserted(p) = Upsert(rows, op[p].key, op[p].entry)
  BY DEF Upserted, Upsert
<1>3. rows \in Table
  BY DEF TypeOK, Table
<1>4. Upserted(p) \in Table
  BY <1>1, <1>2, <1>3, UpsertSize
<1>5. BeforeCap(p) \in Table
  BY <1>4, WithoutSize DEF BeforeCap
<1>6. Counted(p) \in Int
  BY <1>5, SizeIsNat DEF Counted, TypeOK
<1>7. (put_count[p] + 1) % PurgeEvery \in 0..(PurgeEvery - 1)
  <2>1. put_count[p] \in Nat /\ PurgeEvery \in Nat /\ PurgeEvery > 0
    BY BackendAssumption DEF TypeOK
  <2> QED
    BY <2>1
<1> QED
  BY <1>1, <1>2, <1>4, <1>5, <1>6, <1>7

\* The rows the cap takes are rows of the table.
LEMMA VictimsSize ==
  ASSUME NEW table \in Table, NEW over \in Int, NEW V \in CapVictims(table, over)
  PROVE  /\ V \subseteq Live(table) /\ Cardinality(V) \in Nat
         /\ Without(table, V) \in Table
         /\ Size(Without(table, V)) = Size(table) - Cardinality(V)
         /\ over <= 0 => V = {}
<1>1. V \subseteq Live(table) /\ (over <= 0 => Cardinality(V) = 0)
  BY DEF CapVictims
<1>2. IsFiniteSet(V)
  BY <1>1, SizeIsNat, FS_Subset
<1>3. Cardinality(V) \in Nat /\ (Cardinality(V) = 0 => V = {})
  BY <1>2, FS_CardinalityType, FS_EmptySet
<1>4. Live(table) \cap V = V
  BY <1>1
<1> QED
  BY <1>1, <1>3, <1>4, WithoutSize

-----------------------------------------------------------------------------
LEMMA InitTypes == Init => TypeOK
<1> SUFFICES ASSUME Init PROVE TypeOK
  OBVIOUS
<1>1. Empty \in [Keys -> OptEntry]
  BY DEF Empty, OptEntry
<1>2. 0 \in 0..(PurgeEvery - 1) /\ 0 \in 0..MaxTime
  BY BackendAssumption
<1> QED
  BY <1>1, <1>2 DEF Init, TypeOK

LEMMA StepTypes ==
  ASSUME TypeOK, NEW p \in Procs, ProcStep(p)
  PROVE  TypeOK'
<1>1. /\ rows \in Table /\ Empty \in [Keys -> OptEntry]
      /\ 0 \in 0..(PurgeEvery - 1) /\ MaxTime \in Nat
  BY BackendAssumption DEF Table, Empty, OptEntry, TypeOK
<1>2. CASE Open(p)
  <2>1. Without(rows, Expired(rows)) \in Table
    BY <1>1, WithoutSize
  <2>2. Size(Without(rows, Expired(rows))) \in Nat
    BY <2>1, SizeIsNat
  <2>3. rows' \in Table /\ row_count' \in [Procs -> Int] /\ degraded' \in [Procs -> BOOLEAN]
    <3>1. CASE /\ rows' = Without(rows, Expired(rows))
               /\ row_count' = [row_count EXCEPT ![p] = Size(rows')]
               /\ degraded' = [degraded EXCEPT ![p] = FALSE]
      <4>1. Size(rows') \in Int
        BY <2>2, <3>1
      <4> QED
        BY <2>1, <3>1, <4>1 DEF TypeOK
    <3>2. CASE /\ row_count' = [row_count EXCEPT ![p] = 0]
               /\ degraded' = [degraded EXCEPT ![p] = TRUE]
               /\ UNCHANGED rows
      BY <1>1, <3>2 DEF TypeOK
    <3> QED
      BY <1>2, <3>1, <3>2 DEF Open
  <2>4. put_count' \in [Procs -> 0..(PurgeEvery - 1)]
    BY <1>1, <1>2 DEF Open, TypeOK
  <2>5. memory' \in [Procs -> [Keys -> OptEntry]] /\ up' \subseteq Procs
    BY <1>1, <1>2 DEF Open, TypeOK
  <2> QED
    BY <1>2, <2>3, <2>4, <2>5 DEF Open, Table, TypeOK
<1>3. CASE SetCheck(p)
  <2>1. PICK k \in Keys, ttl \in TTLs :
          op' = [op EXCEPT ![p] =
                   [key |-> k, entry |-> [created |-> now, ttl |-> ttl],
                    phase |-> "checked", existed |-> rows[k] # NIL, access |-> FALSE]]
    BY <1>3 DEF SetCheck, TypeOK
  <2>2. [key |-> k, entry |-> [created |-> now, ttl |-> ttl], phase |-> "checked",
         existed |-> rows[k] # NIL, access |-> FALSE] \in Put
    BY DEF Put, Entry, TypeOK
  <2>3. op' \in [Procs -> Put \cup {NIL}]
    BY <2>1, <2>2 DEF TypeOK
  <2> QED
    BY <1>3, <2>3 DEF SetCheck, TypeOK
<1>4. CASE ReadForAccess(p)
  <2>1. PICK k \in Keys :
          /\ Get(p, k) # NIL
          /\ op' = [op EXCEPT ![p] =
                      [key |-> k, entry |-> Get(p, k),
                       phase |-> "read", existed |-> FALSE, access |-> TRUE]]
    BY <1>4 DEF ReadForAccess, TypeOK
  <2>2. Get(p, k) \in Entry
    BY <2>1 DEF Get, OptEntry, TypeOK
  <2>3. [key |-> k, entry |-> Get(p, k),
         phase |-> "read", existed |-> FALSE, access |-> TRUE] \in Put
    BY <2>2 DEF Put, TypeOK
  <2>4. op' \in [Procs -> Put \cup {NIL}]
    BY <2>1, <2>3 DEF TypeOK
  <2> QED
    BY <1>4, <2>4 DEF ReadForAccess, TypeOK
<1>5. CASE SetRecheck(p)
  <2>1. op' = [op EXCEPT ![p].phase = "checked", ![p].existed = (rows[op[p].key] # NIL)]
        /\ op[p] \in Put
    BY <1>5 DEF SetRecheck, TypeOK
  <2>2. [op[p] EXCEPT !.phase = "checked", !.existed = (rows[op[p].key] # NIL)] \in Put
    BY <2>1 DEF Put, TypeOK
  <2>3. op' \in [Procs -> Put \cup {NIL}]
    BY <2>1, <2>2 DEF TypeOK
  <2> QED
    BY <1>5, <2>3 DEF SetRecheck, TypeOK
<1>6. CASE SetCommit(p)
  <2>1. op[p] # NIL
    BY <1>6 DEF SetCommit, Checked, TypeOK
  <2>2. PICK V \in CapVictims(BeforeCap(p), Counted(p) - MaxRows) :
          /\ rows' = Without(BeforeCap(p), V)
          /\ row_count' = [row_count EXCEPT ![p] = Counted(p) - Cardinality(V)]
    BY <1>6 DEF SetCommit, TypeOK
  <2>3. Counted(p) \in Int /\ BeforeCap(p) \in Table /\ Counted(p) - MaxRows \in Int
    BY <2>1, CommitTypes, BackendAssumption
  <2>4. rows' \in Table /\ Cardinality(V) \in Nat
    BY <2>2, <2>3, VictimsSize
  <2>5. row_count' \in [Procs -> Int]
    BY <2>2, <2>3, <2>4 DEF TypeOK
  <2>6. put_count' \in [Procs -> 0..(PurgeEvery - 1)]
    BY <1>6, <2>1, CommitTypes DEF SetCommit, TypeOK
  <2>7. memory' \in [Procs -> [Keys -> OptEntry]]
    BY <1>6 DEF SetCommit, OptEntry, TypeOK
  <2> QED
    BY <1>6, <2>4, <2>5, <2>6, <2>7 DEF SetCommit, Table, TypeOK
<1>7. CASE SetLost(p)
  <2>1. op[p].entry \in Entry
    BY <1>7, CommitTypes DEF SetLost, Checked, TypeOK
  <2>2. memory' \in [Procs -> [Keys -> OptEntry]]
    BY <1>7, <2>1 DEF SetLost, OptEntry, TypeOK
  <2> QED
    BY <1>7, <2>2 DEF SetLost, FailOpen, TypeOK
<1>8. CASE SetDegraded(p)
  <2>1. PICK k \in Keys, ttl \in TTLs :
          memory' = [memory EXCEPT ![p][k] = [created |-> now, ttl |-> ttl]]
    BY <1>8 DEF SetDegraded, TypeOK
  <2>2. [created |-> now, ttl |-> ttl] \in OptEntry
    BY DEF Entry, OptEntry, TypeOK
  <2>3. memory' \in [Procs -> [Keys -> OptEntry]]
    BY <2>1, <2>2 DEF TypeOK
  <2> QED
    BY <1>8, <2>3 DEF SetDegraded, TypeOK
<1>9. ASSUME NEW K, NEW memK, NEW counted \in Int, Remove(p, K, memK, counted)
      PROVE  TypeOK'
  <2>1. Without(rows, K) \in Table
    BY <1>1, WithoutSize
  <2>2. memory' \in [Procs -> [Keys -> OptEntry]]
    <3>1. Without(memory[p], memK) \in Table
      BY WithoutSize DEF Table, TypeOK
    <3> QED
      BY <1>9, <3>1 DEF Remove, Table, TypeOK
  <2>3. op' \in [Procs -> Put \cup {NIL}] /\ now' \in 0..MaxTime
        /\ up' \subseteq Procs /\ put_count' \in [Procs -> 0..(PurgeEvery - 1)]
    BY <1>9 DEF Remove, TypeOK
  <2>4. /\ rows' \in Table /\ row_count' \in [Procs -> Int]
        /\ degraded' \in [Procs -> BOOLEAN]
    BY <1>1, <1>9, <2>1 DEF Remove, FailOpen, TypeOK
  <2> QED
    BY <2>2, <2>3, <2>4 DEF Table, TypeOK
<1>10. CASE \E k \in Keys : Delete(p, k)
  <2>1. PICK k \in Keys : Delete(p, k)
    BY <1>10
  <2>2. Cardinality(Live(rows) \cap {k}) \in Nat /\ row_count[p] \in Int
    BY <1>1, WithoutSize DEF TypeOK
  <2>3. row_count[p] - Cardinality(Live(rows) \cap {k}) \in Int
    BY <2>2
  <2> QED
    BY <2>1, <2>3, <1>9 DEF Delete
<1>11. CASE PurgeExpired(p)
  <2>1. Cardinality(Live(rows) \cap Expired(rows)) \in Nat
    BY <1>1, WithoutSize
  <2>2. Live(rows) \cap Expired(rows) = Expired(rows)
    BY DEF Expired
  <2>3. Cardinality(Expired(rows)) \in Nat /\ row_count[p] \in Int
    BY <2>1, <2>2 DEF TypeOK
  <2>4. row_count[p] - Cardinality(Expired(rows)) \in Int
    BY <2>3
  <2> QED
    BY <2>4, <1>9, <1>11 DEF PurgeExpired
<1>12. CASE Clear(p)
  BY <1>9, <1>12 DEF Clear, TypeOK
<1>13. CASE Exit(p)
  BY <1>1, <1>13 DEF Exit, TypeOK
<1> QED
  BY <1>2, <1>3, <1>4, <1>5, <1>6, <1>7, <1>8, <1>10, <1>11, <1>12, <1>13 DEF ProcStep

LEMMA NextTypes == TypeOK /\ [Next]_vars => TypeOK'
<1> SUFFICES ASSUME TypeOK, [Next]_vars PROVE TypeOK'
  OBVIOUS
<1>1. CASE Tick
  <2>1. now' \in 0..MaxTime
    BY <1>1, BackendAssumption DEF Tick, TypeOK
  <2> QED
    BY <1>1, <2>1 DEF Tick, TypeOK
<1>2. CASE \E p \in Procs : ProcStep(p)
  BY <1>2, StepTypes
<1>3. CASE UNCHANGED vars
  BY <1>3 DEF vars, TypeOK
<1> QED
  BY <1>1, <1>2, <1>3 DEF Next

\* The state keeps its types for any processes, keys, ttls and cadences.
THEOREM FileTypeCorrect == Spec => []TypeOK
BY InitTypes, NextTypes, PTL DEF Spec

-----------------------------------------------------------------------------
\* A put in the middle leaves the count off by no more than it was, unless another
\* process has overtaken its SELECT; a resync makes the count exact.
LEMMA CommitCounts ==
  ASSUME TypeOK, NEW p \in Procs, SetCommit(p), ~Overtaken(p)
  PROVE  Drift(p)' \in {Drift(p), 0}
<1>1. op[p] # NIL
  BY DEF SetCommit, Checked
<1>2. PICK V \in CapVictims(BeforeCap(p), Counted(p) - MaxRows) :
        /\ rows' = Without(BeforeCap(p), V)
        /\ row_count' = [row_count EXCEPT ![p] = Counted(p) - Cardinality(V)]
  BY DEF SetCommit
<1>3. /\ BeforeCap(p) \in Table /\ Counted(p) \in Int
      /\ op[p].key \in Keys /\ op[p].entry \in Entry
      /\ Upserted(p) = Upsert(rows, op[p].key, op[p].entry)
  BY <1>1, CommitTypes
<1>4. Counted(p) - MaxRows \in Int
  BY <1>3, BackendAssumption
<1>5. /\ Cardinality(V) \in Nat
      /\ Size(rows') = Size(BeforeCap(p)) - Cardinality(V)
  BY <1>2, <1>3, <1>4, VictimsSize
<1>6. Size(BeforeCap(p)) \in Nat
  BY <1>3, SizeIsNat
<1>7. row_count'[p] = Counted(p) - Cardinality(V)
  BY <1>2 DEF TypeOK
<1>8. Drift(p)' = Counted(p) - Size(BeforeCap(p))
  BY <1>3, <1>5, <1>6, <1>7 DEF Drift
<1>9. CASE PurgeNow(p)
  <2>1. Counted(p) = Size(BeforeCap(p))
    BY <1>9 DEF Counted
  <2> QED
    BY <1>6, <1>8, <2>1
<1>10. CASE ~PurgeNow(p)
  <2>1. BeforeCap(p) = Upsert(rows, op[p].key, op[p].entry)
    BY <1>3, <1>10 DEF BeforeCap
  <2>2. rows \in Table
    BY DEF TypeOK, Table
  <2>3. Size(BeforeCap(p)) = IF rows[op[p].key] = NIL THEN Size(rows) + 1 ELSE Size(rows)
    BY <1>3, <2>1, <2>2, UpsertSize
  <2>4. op[p].existed <=> rows[op[p].key] # NIL
    BY <1>1, CommitTypes DEF Overtaken, Put
  <2>5. Counted(p) = IF rows[op[p].key] = NIL THEN row_count[p] + 1 ELSE row_count[p]
    BY <1>10, <2>4 DEF Counted
  <2>6. row_count[p] \in Int /\ Size(rows) \in Nat
    BY <2>2, SizeIsNat DEF TypeOK
  <2>7. Drift(p)' = row_count[p] - Size(rows)
    BY <1>8, <2>3, <2>5, <2>6
  <2> QED
    BY <2>7 DEF Drift
<1> QED
  BY <1>9, <1>10

\* So does every removal, of the rows it finds.
LEMMA RemoveCounts ==
  ASSUME TypeOK, NEW p \in Procs, NEW K, NEW memK, NEW counted \in Int,
         Remove(p, K, memK, counted),
         counted - (Size(rows) - Cardinality(Live(rows) \cap K)) \in {Drift(p), 0}
  PROVE  Drift(p)' \in {Drift(p), 0}
<1>1. CASE rows' = Without(rows, K) /\ row_count' = [row_count EXCEPT ![p] = counted]
  <2>1. rows \in Table
    BY DEF TypeOK, Table
  <2>2. Size(rows') = Size(rows) - Cardinality(Live(rows) \cap K)
    BY <1>1, <2>1, WithoutSize
  <2>3. row_count'[p] = counted
    BY <1>1 DEF TypeOK
  <2> QED
    BY <2>2, <2>3 DEF Drift
<1>2. CASE UNCHANGED <<rows, row_count>>
  BY <1>2 DEF Drift, Size, Live
<1> QED
  BY <1>1, <1>2 DEF Remove

LEMMA StepCounts ==
  ASSUME TypeOK, NEW p \in Procs, ProcStep(p), ~degraded'[p], p \in up'
  PROVE  \/ Drift(p)' \in {Drift(p), 0}
         \/ SetCommit(p) /\ Overtaken(p)
<1>1. rows \in Table /\ row_count[p] \in Int
  BY DEF TypeOK, Table
<1>2. Size(rows) \in Nat
  BY <1>1, SizeIsNat
<1>3. ASSUME UNCHANGED <<rows, row_count>>
      PROVE  Drift(p)' = Drift(p)
  BY <1>3 DEF Drift, Size, Live
<1>4. CASE Open(p)
  <2>1. degraded' # [degraded EXCEPT ![p] = TRUE]
    BY DEF TypeOK
  <2>2. row_count' = [row_count EXCEPT ![p] = Size(rows')] /\ rows' = Without(rows, Expired(rows))
    BY <1>4, <2>1 DEF Open
  <2>3. Size(rows') \in Nat
    <3>1. rows' \in Table
      BY <1>1, <2>2, WithoutSize
    <3> QED
      BY <3>1, SizeIsNat
  <2>4. row_count'[p] = Size(rows')
    BY <2>2 DEF TypeOK
  <2>5. Drift(p)' = row_count'[p] - Size(rows')
    BY DEF Drift, Size, Live
  <2>6. Drift(p)' = 0
    BY <2>3, <2>4, <2>5
  <2> QED
    BY <2>6
<1>5. CASE SetCheck(p) \/ ReadForAccess(p) \/ SetRecheck(p) \/ SetLost(p) \/ SetDegraded(p)
  BY <1>3, <1>5 DEF SetCheck, ReadForAccess, SetRecheck, SetLost, SetDegraded
<1>6. CASE SetCommit(p)
  BY <1>6, CommitCounts
<1>7. CASE \E k \in Keys : Delete(p, k)
  <2>1. PICK k \in Keys : Delete(p, k)
    BY <1>7
  <2> DEFINE gone == Cardinality(Live(rows) \cap {k})
  <2>2. gone \in Nat
    BY <1>1, WithoutSize
  <2>3. Remove(p, {k}, {k}, row_count[p] - gone)
    BY <2>1 DEF Delete
  <2> HIDE DEF gone
  <2>4. (row_count[p] - gone) - (Size(rows) - gone) = Drift(p)
    BY <1>1, <1>2, <2>2 DEF Drift
  <2>5. row_count[p] - gone \in Int
    BY <1>1, <2>2
  <2> QED
    BY <2>3, <2>4, <2>5, RemoveCounts DEF gone
<1>8. CASE PurgeExpired(p)
  <2> DEFINE gone == Cardinality(Live(rows) \cap Expired(rows))
  <2>1. Live(rows) \cap Expired(rows) = Expired(rows)
    BY DEF Expired
  <2>2. gone \in Nat
    BY <1>1, WithoutSize
  <2>3. Remove(p, Expired(rows), Expired(memory[p]), row_count[p] - gone)
    BY <1>8, <2>1 DEF PurgeExpired
  <2> HIDE DEF gone
  <2>4. (row_count[p] - gone) - (Size(rows) - gone) = Drift(p)
    BY <1>1, <1>2, <2>2 DEF Drift
  <2>5. row_count[p] - gone \in Int
    BY <1>1, <2>2
  <2> QED
    BY <2>3, <2>4, <2>5, RemoveCounts DEF gone
<1>9. CASE Clear(p)
  <2>1. Live(rows) \cap Keys = Live(rows)
    BY DEF Live
  <2>2. 0 - (Size(rows) - Cardinality(Live(rows) \cap Keys)) = 0
    BY <1>2, <2>1 DEF Size
  <2> QED
    BY <1>9, <2>2, RemoveCounts DEF Clear
<1>10. CASE Exit(p)
  BY <1>10 DEF Exit
<1> QED
  BY <1>4, <1>5, <1>6, <1>7, <1>8, <1>9, <1>10 DEF ProcStep

\* The count a process keeps by hand is never put off by its own writes, for any
\* number of processes: all of the error is what others wrote since its last resync.
THEOREM OwnWritesAreCounted == Spec => OwnWritesCounted
<1>1. TypeOK /\ [Next]_vars =>
        [\A p \in Procs :
           (p \in up /\ p \in up' /\ ~degraded'[p]) =>
             \/ Drift(p)' \in {Drift(p), 0}
             \/ SetCommit(p) /\ Overtaken(p)
             \/ ~ProcStep(p)]_vars
  BY StepCounts
<1> QED
  BY <1>1, FileTypeCorrect, PTL DEF Spec, OwnWritesCounted

-----------------------------------------------------------------------------
\* A count that is not above the truth evicts nothing from a file within its cap.
LEMMA CommitLands ==
  ASSUME TypeOK, NEW p \in Procs, SetCommit(p)
  PROVE  \/ rows'[op[p].key] = op[p].entry
         \/ Size(Upserted(p)) > MaxRows
         \/ PurgeNow(p) /\ IsExpired(op[p].entry)
         \/ Drift(p) > 0 \/ Overtaken(p)
<1> SUFFICES ASSUME ~(Size(Upserted(p)) > MaxRows),
                    ~(PurgeNow(p) /\ IsExpired(op[p].entry)),
                    ~(Drift(p) > 0), ~Overtaken(p)
             PROVE  rows'[op[p].key] = op[p].entry
  OBVIOUS
<1>1. op[p] # NIL
  BY DEF SetCommit, Checked
<1>2. PICK V \in CapVictims(BeforeCap(p), Counted(p) - MaxRows) :
        rows' = Without(BeforeCap(p), V)
  BY DEF SetCommit
<1>3. /\ BeforeCap(p) \in Table /\ Upserted(p) \in Table /\ Counted(p) \in Int
      /\ op[p].key \in Keys /\ op[p].entry \in Entry
      /\ Upserted(p) = Upsert(rows, op[p].key, op[p].entry)
  BY <1>1, CommitTypes
<1>4. /\ rows \in Table /\ row_count[p] \in Int /\ MaxRows \in Nat
  BY BackendAssumption DEF TypeOK, Table
<1>5. Size(rows) \in Nat /\ Size(Upserted(p)) \in Nat /\ Size(BeforeCap(p)) \in Nat
  BY <1>3, <1>4, SizeIsNat
<1>6. Counted(p) <= Size(Upserted(p))
  <2>1. CASE PurgeNow(p)
    <3>1. BeforeCap(p) = Without(Upserted(p), Expired(Upserted(p)))
      BY <2>1 DEF BeforeCap
    <3>2. Size(BeforeCap(p)) <= Size(Upserted(p))
      <4> DEFINE gone == Cardinality(Live(Upserted(p)) \cap Expired(Upserted(p)))
      <4>1. gone \in Nat /\ Size(BeforeCap(p)) = Size(Upserted(p)) - gone
        BY <1>3, <3>1, WithoutSize
      <4> HIDE DEF gone
      <4> QED
        BY <4>1, <1>5
    <3> QED
      BY <2>1, <3>2 DEF Counted
  <2>2. CASE ~PurgeNow(p)
    <3>1. Size(Upserted(p)) = IF rows[op[p].key] = NIL THEN Size(rows) + 1 ELSE Size(rows)
      BY <1>3, <1>4, UpsertSize
    <3>2. op[p].existed <=> rows[op[p].key] # NIL
      BY <1>1, CommitTypes DEF Overtaken, Put
    <3>3. Counted(p) = IF rows[op[p].key] = NIL THEN row_count[p] + 1 ELSE row_count[p]
      BY <2>2, <3>2 DEF Counted
    <3>4. row_count[p] <= Size(rows)
      BY <1>4, <1>5 DEF Drift
    <3> QED
      BY <1>4, <1>5, <3>1, <3>3, <3>4
  <2> QED
    BY <2>1, <2>2
<1>7. Counted(p) - MaxRows \in Int /\ Counted(p) - MaxRows <= 0
  BY <1>3, <1>4, <1>5, <1>6
<1>8. V = {}
  BY <1>3, <1>7, VictimsSize
<1>9. rows'[op[p].key] = BeforeCap(p)[op[p].key]
  BY <1>2, <1>3, <1>8 DEF Without
<1>10. Upserted(p)[op[p].key] = op[p].entry
  BY <1>3, <1>4, UpsertSize
<1>11. PurgeNow(p) => op[p].key \notin Expired(Upserted(p))
  BY <1>10 DEF Expired
<1>12. BeforeCap(p)[op[p].key] = Upserted(p)[op[p].key]
  BY <1>3, <1>11 DEF BeforeCap, Without
<1> QED
  BY <1>9, <1>10, <1>12

\* A put that reports durability is in the file, or one of the four reasons the
\* property names holds: for any cap and any number of processes.
THEOREM DurablePutsLand == Spec => DurablePutLanded
<1>1. TypeOK /\ [Next]_vars =>
        [\A p \in Procs : SetCommit(p) =>
           \/ rows'[op[p].key] = op[p].entry
           \/ Size(Upserted(p)) > MaxRows
           \/ PurgeNow(p) /\ IsExpired(op[p].entry)
           \/ Drift(p) > 0 \/ Overtaken(p)]_vars
  BY CommitLands
<1> QED
  BY <1>1, FileTypeCorrect, PTL DEF Spec, DurablePutLanded

-----------------------------------------------------------------------------
(***************************************************************************)
(* The file near its cap.  Each process that has the file open is stamped    *)
(* with the moment its count was last exact: its opening or its last resync. *)
(* What the file can hold beyond a process's count was written after that    *)
(* moment, by processes whose own resync is older, each of which has its     *)
(* puts up to its next resync to spend.  A process that resynced later and   *)
(* still counts no more than the cap bounds the file itself; one that        *)
(* counts more than the cap evicts with its next put.                        *)
(*                                                                         *)
(* N is the number of rows, held[p] the rows there once the key that the put *)
(* of p in progress found is back, rc and pc the processes' counters, A the  *)
(* processes with the file open, sigma the stamps, and s0 the stamp of the   *)
(* process whose count bounded the file when it left.                        *)
(***************************************************************************)
Tickets == 1..(PurgeEvery - 1)
Spare == (Cardinality(Procs) - 1) * (PurgeEvery - 1)

\* The puts the processes of E have left before their next resync.
Unspent(pc, E) == {t \in E \X Tickets : t[2] > pc[t[1]]}
Left(pc, E) == Cardinality(Unspent(pc, E))

UpTo(A, sigma, s) == {q \in A : sigma[q] <= s}
LaterInert(A, rc, sigma, s) == \A q \in A : sigma[q] > s => rc[q] > MaxRows

GhostBound(A, N, rc, pc, sigma, s0) ==
  LaterInert(A, rc, sigma, s0) => N + Left(pc, UpTo(A, sigma, s0)) <= MaxRows + Spare

CountBound(A, held, rc, pc, sigma, w) ==
  LaterInert(A, rc, sigma, sigma[w]) =>
    held[w] - rc[w] + Left(pc, UpTo(A, sigma, sigma[w]) \ {w}) <= Spare

Stamps(sigma, s0, t) ==
  /\ sigma \in [Procs -> Nat] /\ s0 \in Nat /\ t \in Nat
  /\ s0 <= t /\ \A q \in Procs : sigma[q] <= t

Accounted(A, N, held, rc, pc, sigma, s0) ==
  /\ GhostBound(A, N, rc, pc, sigma, s0)
  /\ \A w \in A : sigma[w] > s0 => CountBound(A, held, rc, pc, sigma, w)

Counters(A, N, held, rc, pc) ==
  /\ A \subseteq Procs /\ N \in Nat
  /\ held \in [Procs -> Nat] /\ (\A p \in Procs : N <= held[p])
  /\ rc \in [Procs -> Int] /\ pc \in [Procs -> 0..(PurgeEvery - 1)]

-----------------------------------------------------------------------------
LEMMA SpareIsNat == PurgeEvery - 1 \in Nat /\ Cardinality(Procs) - 1 \in Nat /\ Spare \in Nat
<1>1. PurgeEvery - 1 \in Nat
  BY BackendAssumption
<1>2. Cardinality(Procs) \in Nat /\ Cardinality(Procs) # 0
  BY BackendAssumption, FS_CardinalityType, FS_EmptySet
<1> DEFINE n == Cardinality(Procs) - 1
           m == PurgeEvery - 1
<1>3. n \in Nat /\ m \in Nat
  BY <1>1, <1>2
<1> HIDE DEF n, m
<1>4. n * m \in Nat
  BY <1>3
<1> QED
  BY <1>3, <1>4 DEF Spare, n, m

\* The unspent puts are finitely many, and fewer processes have fewer.
LEMMA UnspentFinite ==
  ASSUME NEW pc, NEW E \in SUBSET Procs
  PROVE  IsFiniteSet(Unspent(pc, E)) /\ Left(pc, E) \in Nat
<1>1. IsFiniteSet(E)
  BY BackendAssumption, FS_Subset
<1>2. PurgeEvery - 1 \in Int
  BY SpareIsNat
<1>3. IsFiniteSet(Tickets)
  BY <1>2, FS_Interval DEF Tickets
<1>4. IsFiniteSet(E \X Tickets)
  BY <1>1, <1>3, FS_Product
<1>5. Unspent(pc, E) \subseteq E \X Tickets
  BY DEF Unspent
<1>6. IsFiniteSet(Unspent(pc, E))
  BY <1>4, <1>5, FS_Subset
<1> QED
  BY <1>6, FS_CardinalityType DEF Left

LEMMA UnspentMonotone ==
  ASSUME NEW pc, NEW pd, NEW E \in SUBSET Procs, NEW F \in SUBSET E, \A q \in F : pd[q] = pc[q]
  PROVE  Left(pd, F) <= Left(pc, E) /\ Left(pd, F) \in Nat /\ Left(pc, E) \in Nat
<1>1. Unspent(pd, F) \subseteq Unspent(pc, E)
  BY DEF Unspent
<1>2. F \in SUBSET Procs
  OBVIOUS
<1> QED
  BY <1>1, <1>2, UnspentFinite, FS_Subset DEF Left

\* All the others together have no more than Spare.
LEMMA UnspentOfOthers ==
  ASSUME NEW pc, NEW w \in Procs, NEW E \in SUBSET (Procs \ {w})
  PROVE  Left(pc, E) <= Spare /\ Left(pc, E) \in Nat
<1>1. IsFiniteSet(Procs \ {w}) /\ Cardinality(Procs \ {w}) = Cardinality(Procs) - 1
  BY BackendAssumption, FS_RemoveElement
<1>2. PurgeEvery - 1 \in Nat
  BY SpareIsNat
<1>3. IsFiniteSet(Tickets) /\ Cardinality(Tickets) = PurgeEvery - 1
  <2>1. IsFiniteSet(1..(PurgeEvery - 1))
        /\ Cardinality(1..(PurgeEvery - 1)) =
             IF 1 > PurgeEvery - 1 THEN 0 ELSE (PurgeEvery - 1) - 1 + 1
    BY <1>2, FS_Interval
  <2> QED
    BY <1>2, <2>1 DEF Tickets
<1> DEFINE R == Procs \ {w}
<1>4. IsFiniteSet(R \X Tickets) /\ Cardinality(R \X Tickets) = Cardinality(R) * Cardinality(Tickets)
  BY <1>1, <1>3, FS_Product
<1>5. Cardinality(R \X Tickets) = Spare
  BY <1>1, <1>3, <1>4 DEF Spare
<1>6. Unspent(pc, E) \subseteq R \X Tickets
  BY DEF Unspent
<1>7. Left(pc, E) <= Cardinality(R \X Tickets)
  BY <1>4, <1>6, FS_Subset DEF Left
<1> QED
  BY <1>5, <1>7, UnspentFinite

\* A put that is no resync spends one.
LEMMA PutSpends ==
  ASSUME NEW pc \in [Procs -> 0..(PurgeEvery - 1)], NEW p \in Procs, pc[p] + 1 < PurgeEvery,
         NEW E \in SUBSET Procs, p \in E
  PROVE  Left([pc EXCEPT ![p] = pc[p] + 1], E) = Left(pc, E) - 1
<1> DEFINE pd == [pc EXCEPT ![p] = pc[p] + 1]
           t == <<p, pc[p] + 1>>
<1>1. PurgeEvery \in Nat /\ pc[p] \in Nat /\ pc[p] + 1 \in Tickets
  BY BackendAssumption DEF Tickets
<1>2. t \in Unspent(pc, E)
  BY <1>1 DEF Unspent
<1>3. Unspent(pd, E) = Unspent(pc, E) \ {t}
  <2>1. ASSUME NEW u \in E \X Tickets
        PROVE  u \in Unspent(pd, E) <=> u \in Unspent(pc, E) /\ u # t
    <3>1. PICK q \in E, i \in Tickets : u = <<q, i>>
      BY <2>1
    <3>2. i \in Int /\ pc[q] \in Int
      BY <1>1 DEF Tickets
    <3>3. CASE q = p
      <4>1. pd[q] = pc[p] + 1
        BY <3>3
      <4>2. u \in Unspent(pd, E) <=> i > pc[p] + 1
        BY <3>1, <4>1 DEF Unspent
      <4>3. u \in Unspent(pc, E) <=> i > pc[p]
        BY <3>1, <3>3 DEF Unspent
      <4>4. u # t <=> i # pc[p] + 1
        BY <3>1, <3>3
      <4> QED
        BY <1>1, <3>2, <4>2, <4>3, <4>4
    <3>4. CASE q # p
      <4>1. pd[q] = pc[q] /\ u # t
        BY <3>1, <3>4
      <4> QED
        BY <3>1, <4>1 DEF Unspent
    <3> QED
      BY <3>3, <3>4
  <2>2. Unspent(pd, E) \subseteq E \X Tickets /\ Unspent(pc, E) \subseteq E \X Tickets
    BY DEF Unspent
  <2> HIDE DEF t, pd
  <2> QED
    BY <2>1, <2>2
<1>4. IsFiniteSet(Unspent(pc, E))
  BY UnspentFinite
<1> HIDE DEF t, pd
<1>5. Cardinality(Unspent(pc, E) \ {t}) = Cardinality(Unspent(pc, E)) - 1
  BY <1>2, <1>4, FS_RemoveElement
<1> QED
  BY <1>3, <1>5 DEF Left, pd

-----------------------------------------------------------------------------
\* Nothing is added to the file and no process comes or goes: deletions, expiry,
\* the answer of a SELECT, a put that fails.
LEMMA CalmStep ==
  ASSUME NEW A, NEW N, NEW held, NEW rc, NEW pc, Counters(A, N, held, rc, pc),
         NEW N2, NEW held2, NEW rc2, Counters(A, N2, held2, rc2, pc),
         NEW sigma \in [Procs -> Nat], NEW s0 \in Nat,
         Accounted(A, N, held, rc, pc, sigma, s0),
         N2 <= N,
         \A q \in A : rc2[q] > MaxRows => rc[q] > MaxRows,
         \A q \in A : held2[q] - rc2[q] <= held[q] - rc[q] \/ held2[q] <= rc2[q]
  PROVE  Accounted(A, N2, held2, rc2, pc, sigma, s0)
<1> USE DEF Counters
<1>1. ASSUME NEW s, LaterInert(A, rc2, sigma, s)
      PROVE  LaterInert(A, rc, sigma, s)
  BY <1>1 DEF LaterInert
<1>2. \A s : UpTo(A, sigma, s) \in SUBSET Procs
  BY DEF UpTo
<1>3. MaxRows \in Nat /\ Spare \in Nat
  BY BackendAssumption, SpareIsNat
<1>4. GhostBound(A, N2, rc2, pc, sigma, s0)
  <2>1. Left(pc, UpTo(A, sigma, s0)) \in Nat
    BY <1>2, UnspentFinite
  <2> SUFFICES ASSUME LaterInert(A, rc2, sigma, s0)
               PROVE  N2 + Left(pc, UpTo(A, sigma, s0)) <= MaxRows + Spare
    BY DEF GhostBound
  <2>2. N + Left(pc, UpTo(A, sigma, s0)) <= MaxRows + Spare
    BY <1>1 DEF GhostBound, Accounted
  <2> QED
    BY <1>3, <2>1, <2>2
<1>5. ASSUME NEW w \in A, sigma[w] > s0
      PROVE  CountBound(A, held2, rc2, pc, sigma, w)
  <2> DEFINE U == UpTo(A, sigma, sigma[w]) \ {w}
  <2> SUFFICES ASSUME LaterInert(A, rc2, sigma, sigma[w])
               PROVE  held2[w] - rc2[w] + Left(pc, U) <= Spare
    BY DEF CountBound
  <2>1. w \in Procs /\ U \in SUBSET (Procs \ {w})
    BY <1>2
  <2>2. Left(pc, U) <= Spare /\ Left(pc, U) \in Nat
    BY <2>1, UnspentOfOthers
  <2>3. held[w] - rc[w] + Left(pc, U) <= Spare
    BY <1>1, <1>5 DEF CountBound, Accounted
  <2>4. held2[w] \in Int /\ rc2[w] \in Int /\ held[w] \in Int /\ rc[w] \in Int
    BY <2>1
  <2>5. held2[w] - rc2[w] <= held[w] - rc[w] \/ held2[w] <= rc2[w]
    OBVIOUS
  <2> HIDE DEF U
  <2> QED
    BY <1>3, <2>2, <2>3, <2>4, <2>5
<1> QED
  BY <1>4, <1>5 DEF Accounted

\* A process joins with the count it has just made: it is the last to have resynced.
LEMMA JoinStep ==
  ASSUME NEW A, NEW N, NEW held, NEW rc, NEW pc, Counters(A, N, held, rc, pc),
         NEW p \in Procs \ A,
         NEW N2, NEW held2, NEW rc2, NEW pc2, Counters(A \cup {p}, N2, held2, rc2, pc2),
         NEW sigma, NEW s0, NEW t, Stamps(sigma, s0, t),
         Accounted(A, N, held, rc, pc, sigma, s0),
         N2 <= N,
         \A q \in A : rc2[q] = rc[q] /\ pc2[q] = pc[q] /\ held2[q] <= held[q],
         held2[p] = rc2[p]
  PROVE  /\ Stamps([sigma EXCEPT ![p] = t + 1], s0, t + 1)
         /\ Accounted(A \cup {p}, N2, held2, rc2, pc2, [sigma EXCEPT ![p] = t + 1], s0)
<1> USE DEF Counters
<1>s. sigma \in [Procs -> Nat] /\ s0 \in Nat /\ t \in Nat /\ s0 <= t /\ \A q \in Procs : sigma[q] <= t
  BY DEF Stamps
<1> DEFINE tau == [sigma EXCEPT ![p] = t + 1]
           B == A \cup {p}
<1>1. Stamps(tau, s0, t + 1)
  BY <1>s DEF Stamps
<1>2. /\ tau \in [Procs -> Nat] /\ tau[p] = t + 1 /\ \A q \in A : tau[q] = sigma[q]
      /\ A \subseteq Procs /\ B \subseteq Procs
  BY <1>s
<1> HIDE DEF tau
<1>3. ASSUME NEW s \in Nat, s <= t
      PROVE  /\ UpTo(B, tau, s) = UpTo(A, sigma, s) /\ UpTo(A, sigma, s) \in SUBSET Procs
             /\ LaterInert(B, rc2, tau, s) => LaterInert(A, rc, sigma, s)
  <2>1. UpTo(B, tau, s) = UpTo(A, sigma, s)
    BY <1>s, <1>2, <1>3 DEF UpTo
  <2>2. LaterInert(B, rc2, tau, s) => LaterInert(A, rc, sigma, s)
    BY <1>2 DEF LaterInert
  <2> QED
    BY <1>2, <2>1, <2>2 DEF UpTo
<1>4. MaxRows \in Nat /\ Spare \in Nat
  BY BackendAssumption, SpareIsNat
<1>5. \A F \in SUBSET A : Left(pc2, F) <= Left(pc, F) /\ Left(pc2, F) \in Nat /\ Left(pc, F) \in Nat
  <2> SUFFICES ASSUME NEW F \in SUBSET A
               PROVE  Left(pc2, F) <= Left(pc, F) /\ Left(pc2, F) \in Nat /\ Left(pc, F) \in Nat
    OBVIOUS
  <2>1. F \in SUBSET Procs /\ F \in SUBSET F /\ \A q \in F : pc2[q] = pc[q]
    BY <1>2
  <2> QED
    BY <2>1, UnspentMonotone
<1>6. GhostBound(B, N2, rc2, pc2, tau, s0)
  <2> DEFINE F == UpTo(A, sigma, s0)
  <2> SUFFICES ASSUME LaterInert(B, rc2, tau, s0)
               PROVE  N2 + Left(pc2, UpTo(B, tau, s0)) <= MaxRows + Spare
    BY DEF GhostBound
  <2>1. UpTo(B, tau, s0) = F /\ F \in SUBSET A
    BY <1>s, <1>3 DEF UpTo
  <2>2. N + Left(pc, F) <= MaxRows + Spare
    BY <1>s, <1>3 DEF GhostBound, Accounted
  <2>3. Left(pc2, F) <= Left(pc, F) /\ Left(pc2, F) \in Nat /\ Left(pc, F) \in Nat
    BY <1>5, <2>1
  <2> HIDE DEF F
  <2> QED
    BY <1>4, <2>1, <2>2, <2>3
<1>7. ASSUME NEW w \in B, tau[w] > s0
      PROVE  CountBound(B, held2, rc2, pc2, tau, w)
  <2> DEFINE U == UpTo(B, tau, tau[w]) \ {w}
  <2> SUFFICES ASSUME LaterInert(B, rc2, tau, tau[w])
               PROVE  held2[w] - rc2[w] + Left(pc2, U) <= Spare
    BY DEF CountBound
  <2>1. CASE w = p
    <3>1. U \in SUBSET (Procs \ {w}) /\ w \in Procs
      BY <1>2, <2>1 DEF UpTo
    <3>2. Left(pc2, U) <= Spare /\ Left(pc2, U) \in Nat
      BY <3>1, UnspentOfOthers
    <3>3. held2[w] = rc2[w] /\ rc2[w] \in Int
      BY <2>1, <3>1
    <3> HIDE DEF U
    <3> QED
      BY <1>4, <3>2, <3>3
  <2>2. CASE w # p
    <3>1. w \in A /\ w \in Procs /\ tau[w] = sigma[w] /\ sigma[w] \in Nat /\ sigma[w] <= t /\ sigma[w] > s0
      BY <1>s, <1>2, <1>7, <2>2
    <3>2. U = UpTo(A, sigma, sigma[w]) \ {w} /\ U \in SUBSET A
      BY <1>3, <3>1 DEF UpTo
    <3>3. LaterInert(A, rc, sigma, sigma[w])
      BY <1>3, <3>1
    <3>4. held[w] - rc[w] + Left(pc, U) <= Spare
      BY <3>1, <3>2, <3>3 DEF CountBound, Accounted
    <3>5. Left(pc2, U) <= Left(pc, U) /\ Left(pc2, U) \in Nat /\ Left(pc, U) \in Nat
      BY <1>5, <3>2
    <3>6. rc2[w] = rc[w] /\ rc[w] \in Int /\ held2[w] <= held[w] /\ held[w] \in Nat /\ held2[w] \in Nat
      BY <3>1
    <3> HIDE DEF U
    <3> QED
      BY <1>4, <3>4, <3>5, <3>6
  <2> QED
    BY <2>1, <2>2
<1> QED
  BY <1>1, <1>6, <1>7 DEF Accounted, tau

\* A process that leaves, degrades or ends.  When its count was the one that bounded
\* the file, it goes on bounding the file from its stamp.
LEMMA LeaveStep ==
  ASSUME NEW A, NEW N, NEW held, NEW rc, NEW pc, Counters(A, N, held, rc, pc),
         NEW p \in Procs,
         NEW held2, NEW rc2, NEW pc2, Counters(A \ {p}, N, held2, rc2, pc2),
         NEW sigma \in [Procs -> Nat], NEW s0 \in Nat,
         Accounted(A, N, held, rc, pc, sigma, s0),
         \A q \in A \ {p} : rc2[q] = rc[q] /\ pc2[q] = pc[q] /\ held2[q] <= held[q]
  PROVE  \/ Accounted(A \ {p}, N, held2, rc2, pc2, sigma, s0)
         \/ Accounted(A \ {p}, N, held2, rc2, pc2, sigma, sigma[p])
<1> USE DEF Counters
<1> DEFINE B == A \ {p}
<1>1. A \subseteq Procs /\ B \subseteq A
  OBVIOUS
<1>2. MaxRows \in Nat /\ Spare \in Nat
  BY BackendAssumption, SpareIsNat
<1>3. ASSUME NEW F \in SUBSET A, NEW G \in SUBSET (F \cap B)
      PROVE  Left(pc2, G) <= Left(pc, F) /\ Left(pc2, G) \in Nat /\ Left(pc, F) \in Nat
  <2>1. F \in SUBSET Procs /\ G \in SUBSET F /\ \A q \in G : pc2[q] = pc[q]
    BY <1>1
  <2> QED
    BY <2>1, UnspentMonotone
\* p was what stood between an older count and the file
<1> DEFINE bounding == p \in A /\ rc[p] <= MaxRows /\ sigma[p] > s0 /\ LaterInert(A, rc, sigma, sigma[p])
           s1 == IF bounding THEN sigma[p] ELSE s0
<1>4. s1 \in Nat /\ s1 >= s0
  OBVIOUS
<1>5. ASSUME NEW s \in Nat, s >= s1, LaterInert(B, rc2, sigma, s), ~(bounding /\ s = s1)
      PROVE  LaterInert(A, rc, sigma, s)
  <2>1. \A q \in B : sigma[q] > s => rc[q] > MaxRows
    BY <1>5 DEF LaterInert
  <2>2. CASE p \in A /\ sigma[p] > s /\ rc[p] <= MaxRows
    <3>1. LaterInert(A, rc, sigma, sigma[p])
      <4> SUFFICES ASSUME NEW q \in A, sigma[q] > sigma[p]
                   PROVE  rc[q] > MaxRows
        BY DEF LaterInert
      <4>1. q \in B /\ sigma[q] > s
        BY <1>1, <1>5, <2>2
      <4> QED
        BY <2>1, <4>1
    <3>2. bounding
      BY <1>4, <1>5, <2>2, <3>1
    <3>3. s >= sigma[p]
      BY <1>5, <3>2
    <3> QED
      BY <1>5, <2>2, <3>3
  <2>3. CASE ~(p \in A /\ sigma[p] > s /\ rc[p] <= MaxRows)
    <3>1. p \in A /\ sigma[p] > s => rc[p] > MaxRows
      BY <1>1, <1>2, <2>3
    <3> QED
      BY <2>1, <3>1 DEF LaterInert
  <2> QED
    BY <2>2, <2>3
<1>6. GhostBound(B, N, rc2, pc2, sigma, s1)
  <2> DEFINE G == UpTo(B, sigma, s1)
  <2> SUFFICES ASSUME LaterInert(B, rc2, sigma, s1)
               PROVE  N + Left(pc2, G) <= MaxRows + Spare
    BY DEF GhostBound
  <2>1. CASE bounding
    <3> DEFINE U == UpTo(A, sigma, sigma[p]) \ {p}
    <3>1. held[p] - rc[p] + Left(pc, U) <= Spare
      BY <2>1 DEF Accounted, CountBound
    <3>2. U \in SUBSET A /\ G \in SUBSET (U \cap B)
      BY <2>1 DEF UpTo
    <3>3. Left(pc2, G) <= Left(pc, U) /\ Left(pc2, G) \in Nat /\ Left(pc, U) \in Nat
      BY <1>3, <3>2
    <3>4. N <= held[p] /\ N \in Nat /\ held[p] \in Nat /\ rc[p] \in Int /\ rc[p] <= MaxRows
      BY <1>1, <2>1
    <3> HIDE DEF U, G
    <3> QED
      BY <1>2, <3>1, <3>3, <3>4
  <2>2. CASE ~bounding
    <3> DEFINE F == UpTo(A, sigma, s0)
    <3>1. s1 = s0
      BY <2>2
    <3>2. LaterInert(A, rc, sigma, s0)
      BY <1>5, <2>2, <3>1
    <3>3. N + Left(pc, F) <= MaxRows + Spare
      BY <3>2 DEF Accounted, GhostBound
    <3>4. F \in SUBSET A /\ G \in SUBSET (F \cap B)
      BY <3>1 DEF UpTo
    <3>5. Left(pc2, G) <= Left(pc, F) /\ Left(pc2, G) \in Nat /\ Left(pc, F) \in Nat
      BY <1>3, <3>4
    <3> HIDE DEF F, G
    <3> QED
      BY <1>2, <3>3, <3>5
  <2> QED
    BY <2>1, <2>2
<1>7. ASSUME NEW w \in B, sigma[w] > s1
      PROVE  CountBound(B, held2, rc2, pc2, sigma, w)
  <2> DEFINE F == UpTo(A, sigma, sigma[w]) \ {w}
             G == UpTo(B, sigma, sigma[w]) \ {w}
  <2> SUFFICES ASSUME LaterInert(B, rc2, sigma, sigma[w])
               PROVE  held2[w] - rc2[w] + Left(pc2, G) <= Spare
    BY DEF CountBound
  <2>1. w \in A /\ w \in Procs /\ sigma[w] \in Nat /\ sigma[w] > s0
    BY <1>1, <1>4, <1>7
  <2>2. LaterInert(A, rc, sigma, sigma[w])
    <3>1. sigma[w] >= s1 /\ sigma[w] # s1
      BY <1>4, <1>7, <2>1
    <3> QED
      BY <1>5, <2>1, <3>1
  <2>3. held[w] - rc[w] + Left(pc, F) <= Spare
    BY <2>1, <2>2 DEF Accounted, CountBound
  <2>4. F \in SUBSET A /\ G \in SUBSET (F \cap B)
    BY DEF UpTo
  <2>5. Left(pc2, G) <= Left(pc, F) /\ Left(pc2, G) \in Nat /\ Left(pc, F) \in Nat
    BY <1>3, <2>4
  <2>6. rc2[w] = rc[w] /\ rc[w] \in Int /\ held2[w] <= held[w] /\ held[w] \in Nat /\ held2[w] \in Nat
    BY <2>1
  <2> HIDE DEF F, G
  <2> QED
    BY <1>2, <2>3, <2>5, <2>6
<1> QED
  BY <1>6, <1>7 DEF Accounted

\* A resync makes a process the last one to have an exact count, and the file is
\* within the cap.
LEMMA ResyncStep ==
  ASSUME NEW A, NEW p \in A, NEW N2, NEW held2, NEW rc2, NEW pc2,
         Counters(A, N2, held2, rc2, pc2),
         NEW sigma, NEW s0, NEW t, Stamps(sigma, s0, t),
         rc2[p] <= MaxRows, held2[p] = rc2[p]
  PROVE  /\ Stamps([sigma EXCEPT ![p] = t + 1], s0, t + 1)
         /\ Accounted(A, N2, held2, rc2, pc2, [sigma EXCEPT ![p] = t + 1], s0)
<1> USE DEF Counters
<1>s. sigma \in [Procs -> Nat] /\ s0 \in Nat /\ t \in Nat /\ s0 <= t /\ \A q \in Procs : sigma[q] <= t
  BY DEF Stamps
<1> DEFINE tau == [sigma EXCEPT ![p] = t + 1]
<1>1. Stamps(tau, s0, t + 1)
  BY <1>s DEF Stamps
<1>2. /\ p \in Procs /\ tau[p] = t + 1 /\ \A q \in A : q # p => tau[q] = sigma[q] /\ tau[q] <= t
      /\ rc2[p] \in Int
  BY <1>s
<1> HIDE DEF tau
<1>3. MaxRows \in Nat /\ Spare \in Nat
  BY BackendAssumption, SpareIsNat
<1>4. ASSUME NEW s \in Nat, s <= t
      PROVE  ~LaterInert(A, rc2, tau, s)
  BY <1>s, <1>2, <1>3, <1>4 DEF LaterInert
<1>5. ASSUME NEW w \in A, tau[w] > s0
      PROVE  CountBound(A, held2, rc2, pc2, tau, w)
  <2>1. CASE w = p
    <3> DEFINE U == UpTo(A, tau, tau[w]) \ {w}
    <3>1. U \in SUBSET (Procs \ {w}) /\ w \in Procs
      BY DEF UpTo
    <3>2. Left(pc2, U) <= Spare /\ Left(pc2, U) \in Nat
      BY <3>1, UnspentOfOthers
    <3>3. held2[w] = rc2[w] /\ rc2[w] \in Int
      BY <1>2, <2>1
    <3> HIDE DEF U
    <3>4. held2[w] - rc2[w] + Left(pc2, U) <= Spare
      BY <1>3, <3>2, <3>3
    <3> QED
      BY <3>4 DEF CountBound, U
  <2>2. CASE w # p
    <3>1. tau[w] \in Nat /\ tau[w] <= t
      BY <1>s, <1>2, <2>2
    <3> QED
      BY <1>4, <3>1 DEF CountBound
  <2> QED
    BY <2>1, <2>2
<1>6. GhostBound(A, N2, rc2, pc2, tau, s0)
  BY <1>s, <1>4 DEF GhostBound
<1> QED
  BY <1>1, <1>5, <1>6 DEF Accounted, tau

\* A put between two resyncs spends one of the writer's puts.  A count within the
\* cap stays within it; one above the cap is still above it only when the put has
\* emptied the file.
LEMMA PutStep ==
  ASSUME NEW A, NEW N, NEW held, NEW rc, NEW pc, Counters(A, N, held, rc, pc),
         NEW p \in A, pc[p] + 1 < PurgeEvery,
         NEW N2, NEW held2, NEW rc2,
         Counters(A, N2, held2, rc2, [pc EXCEPT ![p] = pc[p] + 1]),
         NEW sigma \in [Procs -> Nat], NEW s0 \in Nat,
         Accounted(A, N, held, rc, pc, sigma, s0),
         N2 <= N + 1,
         held2[p] - rc2[p] <= held[p] - rc[p],
         \A q \in A \ {p} : rc2[q] = rc[q] /\ held2[q] <= held[q] + 1,
         rc2[p] > MaxRows =>
           rc[p] > MaxRows /\ N2 <= N /\ \A q \in A \ {p} : held2[q] <= held[q]
  PROVE  Accounted(A, N2, held2, rc2, [pc EXCEPT ![p] = pc[p] + 1], sigma, s0)
<1> USE DEF Counters
<1> DEFINE pd == [pc EXCEPT ![p] = pc[p] + 1]
<1>1. MaxRows \in Nat /\ Spare \in Nat /\ A \subseteq Procs /\ p \in Procs
  BY BackendAssumption, SpareIsNat
<1>2. ASSUME NEW s, LaterInert(A, rc2, sigma, s)
      PROVE  LaterInert(A, rc, sigma, s)
  BY <1>1, <1>2 DEF LaterInert
<1>3. ASSUME NEW E \in SUBSET A
      PROVE  /\ Left(pd, E) \in Nat /\ Left(pc, E) \in Nat
             /\ p \in E => Left(pd, E) = Left(pc, E) - 1
             /\ p \notin E => Left(pd, E) <= Left(pc, E)
  <2>1. E \in SUBSET Procs
    BY <1>1
  <2>2. Left(pd, E) \in Nat /\ Left(pc, E) \in Nat
    BY <2>1, UnspentFinite
  <2>3. p \in E => Left(pd, E) = Left(pc, E) - 1
    BY <1>1, <2>1, PutSpends
  <2>4. ASSUME p \notin E
        PROVE  Left(pd, E) <= Left(pc, E)
    <3>1. \A q \in E : pd[q] = pc[q]
      BY <1>1, <2>1, <2>4
    <3>2. E \in SUBSET E
      OBVIOUS
    <3> HIDE DEF pd
    <3> QED
      BY <2>1, <3>1, <3>2, UnspentMonotone
  <2> QED
    BY <2>2, <2>3, <2>4
<1> HIDE DEF pd
<1>4. GhostBound(A, N2, rc2, pd, sigma, s0)
  <2> DEFINE F == UpTo(A, sigma, s0)
  <2> SUFFICES ASSUME LaterInert(A, rc2, sigma, s0)
               PROVE  N2 + Left(pd, F) <= MaxRows + Spare
    BY DEF GhostBound
  <2>1. N + Left(pc, F) <= MaxRows + Spare
    BY <1>2 DEF GhostBound, Accounted
  <2>2. F \in SUBSET A
    BY DEF UpTo
  <2>3. p \notin F => N2 <= N
    <3>1. p \notin F => sigma[p] > s0
      BY <1>1 DEF UpTo
    <3> QED
      BY <3>1 DEF LaterInert
  <2>4. N \in Nat /\ N2 \in Nat
    OBVIOUS
  <2> HIDE DEF F
  <2>5. /\ Left(pd, F) \in Nat /\ Left(pc, F) \in Nat
        /\ p \in F => Left(pd, F) = Left(pc, F) - 1
        /\ p \notin F => Left(pd, F) <= Left(pc, F)
    BY <1>3, <2>2
  <2> QED
    BY <1>1, <2>1, <2>3, <2>4, <2>5
<1>5. ASSUME NEW w \in A, sigma[w] > s0
      PROVE  CountBound(A, held2, rc2, pd, sigma, w)
  <2> DEFINE U == UpTo(A, sigma, sigma[w]) \ {w}
  <2> SUFFICES ASSUME LaterInert(A, rc2, sigma, sigma[w])
               PROVE  held2[w] - rc2[w] + Left(pd, U) <= Spare
    BY DEF CountBound
  <2>1. held[w] - rc[w] + Left(pc, U) <= Spare
    BY <1>2, <1>5 DEF CountBound, Accounted
  <2>2. U \in SUBSET A
    BY DEF UpTo
  <2>3. p \notin U /\ p # w => held2[w] <= held[w]
    <3>1. p \notin U /\ p # w => sigma[p] > sigma[w]
      BY <1>1 DEF UpTo
    <3> QED
      BY <3>1 DEF LaterInert
  <2>4. held2[w] \in Nat /\ held[w] \in Nat /\ rc[w] \in Int /\ rc2[w] \in Int
    BY <1>1
  <2>5. w = p => p \notin U
    OBVIOUS
  <2> HIDE DEF U
  <2>6. /\ Left(pd, U) \in Nat /\ Left(pc, U) \in Nat
        /\ p \in U => Left(pd, U) = Left(pc, U) - 1
        /\ p \notin U => Left(pd, U) <= Left(pc, U)
    BY <1>3, <2>2
  <2>7. CASE w = p
    BY <1>1, <2>1, <2>4, <2>5, <2>6, <2>7
  <2>8. CASE w # p
    <3>1. rc2[w] = rc[w] /\ held2[w] <= held[w] + 1
      BY <2>8
    <3> QED
      BY <1>1, <2>1, <2>3, <2>4, <2>6, <2>8, <3>1
  <2> QED
    BY <2>7, <2>8
<1> QED
  BY <1>4, <1>5 DEF Accounted, pd

-----------------------------------------------------------------------------
\* A set of naturals that is not empty has a least element.
LEMMA LeastNatural ==
  ASSUME NEW S \in SUBSET Nat, S # {}
  PROVE  \E n \in S : \A m \in S : n <= m
<1>1. IsWellFoundedOn(OpToRel(<, Nat), Nat)
  BY NatLessThanWellFounded
<1>2. PICK n \in S : \A m \in S : ~(<<m, n>> \in OpToRel(<, Nat))
  BY <1>1, WFMin, Zenon
<1>3. \A m \in S : ~(m < n)
  BY <1>2 DEF OpToRel
<1> QED
  BY <1>3

\* What the accounts say of the file: the latest process that counts no more than
\* the cap bounds it, and where there is none the process that left does.
LEMMA AccountsBoundFile ==
  ASSUME NEW A, NEW N, NEW held, NEW rc, NEW pc, Counters(A, N, held, rc, pc),
         NEW sigma, NEW s0, NEW t, Stamps(sigma, s0, t),
         Accounted(A, N, held, rc, pc, sigma, s0)
  PROVE  N <= MaxRows + Spare
<1> USE DEF Counters
<1>s. sigma \in [Procs -> Nat] /\ s0 \in Nat /\ t \in Nat /\ \A q \in Procs : sigma[q] <= t
  BY DEF Stamps
<1>1. MaxRows \in Nat /\ Spare \in Nat
  BY BackendAssumption, SpareIsNat
<1> DEFINE W == {q \in A : sigma[q] > s0 /\ rc[q] <= MaxRows}
<1>2. CASE W = {}
  <2>1. LaterInert(A, rc, sigma, s0)
    BY <1>1, <1>2 DEF LaterInert
  <2>2. N + Left(pc, UpTo(A, sigma, s0)) <= MaxRows + Spare
    BY <2>1 DEF Accounted, GhostBound
  <2>3. UpTo(A, sigma, s0) \in SUBSET Procs
    BY DEF UpTo
  <2>4. Left(pc, UpTo(A, sigma, s0)) \in Nat
    BY <2>3, UnspentFinite
  <2> QED
    BY <1>1, <2>2, <2>4
<1>3. CASE W # {}
  <2> DEFINE S == {t - sigma[q] : q \in W}
  <2>1. S \in SUBSET Nat /\ S # {}
    <3>1. ASSUME NEW q \in W
          PROVE  t - sigma[q] \in Nat
      <4>1. q \in Procs /\ sigma[q] \in Nat /\ sigma[q] <= t
        BY <1>s
      <4> QED
        BY <1>s, <4>1
    <3> HIDE DEF W
    <3> QED
      BY <1>3, <3>1
  <2>2. PICK n \in S : \A m \in S : n <= m
    BY <2>1, LeastNatural
  <2>3. PICK w \in W : n = t - sigma[w]
    OBVIOUS
  <2>4. \A q \in W : sigma[q] <= sigma[w]
    <3> SUFFICES ASSUME NEW q \in W PROVE sigma[q] <= sigma[w]
      OBVIOUS
    <3>1. t - sigma[w] <= t - sigma[q]
      BY <2>2, <2>3
    <3> QED
      BY <1>s, <3>1
  <2>5. LaterInert(A, rc, sigma, sigma[w])
    <3> SUFFICES ASSUME NEW q \in A, sigma[q] > sigma[w] PROVE rc[q] > MaxRows
      BY DEF LaterInert
    <3>1. q \notin W
      BY <1>s, <2>4
    <3>2. sigma[q] > s0
      BY <1>s, <2>3
    <3> QED
      BY <1>1, <3>1, <3>2
  <2> DEFINE U == UpTo(A, sigma, sigma[w]) \ {w}
  <2>6. held[w] - rc[w] + Left(pc, U) <= Spare
    BY <2>3, <2>5 DEF Accounted, CountBound
  <2>7. U \in SUBSET Procs
    BY DEF UpTo
  <2>8. Left(pc, U) \in Nat
    BY <2>7, UnspentFinite
  <2>9. N <= held[w] /\ rc[w] <= MaxRows /\ held[w] \in Nat /\ rc[w] \in Int
    BY <2>3
  <2> HIDE DEF U
  <2> QED
    BY <1>1, <2>6, <2>8, <2>9
<1> QED
  BY <1>2, <1>3

-----------------------------------------------------------------------------
\* The accounts of a state: the processes whose file is open and usable, and the
\* rows once the key that the put in progress found is back.
ActsOf(u, dg) == {p \in u : ~dg[p]}
Claim(o) == {k \in Keys : o # NIL /\ o.existed /\ k = o.key}
HeldBy(table, ops) == [p \in Procs |-> Cardinality(Live(table) \cup Claim(ops[p]))]

AccountsHold ==
  \E sigma, s0, t :
    /\ Stamps(sigma, s0, t)
    /\ Accounted(ActsOf(up, degraded), Size(rows), HeldBy(rows, op),
                 row_count, put_count, sigma, s0)

\* Only a process with a usable file is in the middle of a put.
PutsOpen == \A p \in Procs : op[p] # NIL => p \in ActsOf(up, degraded)

AccountInv == TypeOK /\ PutsOpen /\ AccountsHold

Ops == [Procs -> Put \cup {NIL}]

LEMMA ClaimedFinite ==
  ASSUME NEW table \in Table, NEW o
  PROVE  /\ IsFiniteSet(Live(table) \cup Claim(o))
         /\ Cardinality(Live(table) \cup Claim(o)) \in Nat
         /\ Size(table) <= Cardinality(Live(table) \cup Claim(o))
<1> DEFINE S == Live(table) \cup Claim(o)
<1>1. S \in SUBSET Keys
  BY DEF Live, Claim
<1>2. IsFiniteSet(S)
  BY <1>1, BackendAssumption, FS_Subset
<1>3. Cardinality(S) \in Nat
  BY <1>2, FS_CardinalityType
<1>4. Cardinality(Live(table)) <= Cardinality(S)
  BY <1>2, FS_Subset
<1> QED
  BY <1>2, <1>3, <1>4 DEF Size

LEMMA CountersTyped ==
  ASSUME NEW table \in Table, NEW ops, NEW A \in SUBSET Procs,
         NEW rc \in [Procs -> Int], NEW pc \in [Procs -> 0..(PurgeEvery - 1)]
  PROVE  Counters(A, Size(table), HeldBy(table, ops), rc, pc)
<1>1. Size(table) \in Nat
  BY SizeIsNat
<1>2. ASSUME NEW p \in Procs
      PROVE  HeldBy(table, ops)[p] \in Nat /\ Size(table) <= HeldBy(table, ops)[p]
  BY <1>2, ClaimedFinite DEF HeldBy
<1>3. HeldBy(table, ops) \in [Procs -> Nat]
  BY <1>2 DEF HeldBy
<1> QED
  BY <1>1, <1>2, <1>3 DEF Counters

\* Fewer rows, and a claim of a row that is there, hold no more.
LEMMA HeldMonotone ==
  ASSUME NEW table \in Table, NEW table2, NEW ops, NEW ops2, NEW q \in Procs,
         Live(table2) \subseteq Live(table),
         Claim(ops2[q]) \subseteq Live(table) \cup Claim(ops[q])
  PROVE  HeldBy(table2, ops2)[q] <= HeldBy(table, ops)[q]
<1>1. Live(table2) \cup Claim(ops2[q]) \subseteq Live(table) \cup Claim(ops[q])
  OBVIOUS
<1>2. IsFiniteSet(Live(table) \cup Claim(ops[q]))
  BY ClaimedFinite
<1>3. Cardinality(Live(table2) \cup Claim(ops2[q])) <= Cardinality(Live(table) \cup Claim(ops[q]))
  BY <1>1, <1>2, FS_Subset
<1> QED
  BY <1>3 DEF HeldBy

\* With no put in progress there is nothing to claim.
LEMMA HeldIdle ==
  ASSUME NEW table, NEW ops, NEW q \in Procs, ops[q] = NIL
  PROVE  HeldBy(table, ops)[q] = Size(table)
<1>1. Live(table) \cup Claim(ops[q]) = Live(table)
  BY DEF Claim
<1> QED
  BY <1>1 DEF HeldBy, Size

LEMMA StateCounters ==
  ASSUME TypeOK
  PROVE  /\ rows \in Table /\ ActsOf(up, degraded) \in SUBSET Procs
         /\ Counters(ActsOf(up, degraded), Size(rows), HeldBy(rows, op), row_count, put_count)
<1>1. rows \in Table
  BY DEF TypeOK, Table
<1>2. ActsOf(up, degraded) \in SUBSET Procs
  BY DEF TypeOK, ActsOf
<1>3. row_count \in [Procs -> Int] /\ put_count \in [Procs -> 0..(PurgeEvery - 1)]
  BY DEF TypeOK
<1> QED
  BY <1>1, <1>2, <1>3, CountersTyped

-----------------------------------------------------------------------------
\* The four kinds of step, over the state.
LEMMA CalmAccounts ==
  ASSUME TypeOK, TypeOK', AccountsHold,
         ActsOf(up', degraded') = ActsOf(up, degraded), put_count' = put_count,
         Live(rows') \subseteq Live(rows),
         \A q \in ActsOf(up, degraded) :
           /\ row_count'[q] > MaxRows => row_count[q] > MaxRows
           /\ \/ HeldBy(rows', op')[q] - row_count'[q] <= HeldBy(rows, op)[q] - row_count[q]
              \/ HeldBy(rows', op')[q] <= row_count'[q]
  PROVE  AccountsHold'
<1> DEFINE A == ActsOf(up, degraded)
<1>1. PICK sigma, s0, t :
        /\ Stamps(sigma, s0, t)
        /\ Accounted(A, Size(rows), HeldBy(rows, op), row_count, put_count, sigma, s0)
  BY DEF AccountsHold
<1>2. /\ Counters(A, Size(rows), HeldBy(rows, op), row_count, put_count)
      /\ Counters(A, Size(rows'), HeldBy(rows', op'), row_count', put_count)
  <2>1. Counters(ActsOf(up', degraded'), Size(rows'), HeldBy(rows', op'), row_count', put_count')
    <3>1. /\ rows' \in Table /\ row_count' \in [Procs -> Int]
          /\ put_count' \in [Procs -> 0..(PurgeEvery - 1)]
          /\ ActsOf(up', degraded') \in SUBSET Procs
      BY DEF TypeOK, Table, ActsOf
    <3> QED
      BY <3>1, CountersTyped
  <2> QED
    BY <2>1, StateCounters
<1>3. Size(rows') <= Size(rows)
  BY StateCounters, SizeIsNat, FS_Subset DEF Size
<1>4. sigma \in [Procs -> Nat] /\ s0 \in Nat
  BY <1>1 DEF Stamps
<1> HIDE DEF A
<1>5. Accounted(A, Size(rows'), HeldBy(rows', op'), row_count', put_count, sigma, s0)
  BY <1>1, <1>2, <1>3, <1>4, CalmStep DEF A
<1> QED
  BY <1>1, <1>5 DEF AccountsHold, A

LEMMA LeaveAccounts ==
  ASSUME TypeOK, TypeOK', AccountsHold, NEW p \in Procs,
         ActsOf(up', degraded') = ActsOf(up, degraded) \ {p}, rows' = rows,
         \A q \in Procs \ {p} :
           row_count'[q] = row_count[q] /\ put_count'[q] = put_count[q] /\ op'[q] = op[q]
  PROVE  AccountsHold'
<1> DEFINE A == ActsOf(up, degraded)
<1>1. PICK sigma, s0, t :
        /\ Stamps(sigma, s0, t)
        /\ Accounted(A, Size(rows), HeldBy(rows, op), row_count, put_count, sigma, s0)
  BY DEF AccountsHold
<1>2. A \in SUBSET Procs /\ rows \in Table
  BY StateCounters
<1>3. /\ Counters(A, Size(rows), HeldBy(rows, op), row_count, put_count)
      /\ Counters(A \ {p}, Size(rows), HeldBy(rows, op'), row_count', put_count')
  <2>1. /\ row_count' \in [Procs -> Int] /\ put_count' \in [Procs -> 0..(PurgeEvery - 1)]
        /\ A \ {p} \in SUBSET Procs
    BY <1>2 DEF TypeOK
  <2> QED
    BY <1>2, <2>1, StateCounters, CountersTyped
<1>4. \A q \in A \ {p} : /\ row_count'[q] = row_count[q] /\ put_count'[q] = put_count[q]
                         /\ HeldBy(rows, op')[q] <= HeldBy(rows, op)[q]
  <2> SUFFICES ASSUME NEW q \in A \ {p}
               PROVE  /\ row_count'[q] = row_count[q] /\ put_count'[q] = put_count[q]
                      /\ HeldBy(rows, op')[q] <= HeldBy(rows, op)[q]
    OBVIOUS
  <2>1. q \in Procs \ {p} /\ op'[q] = op[q]
    BY <1>2
  <2>2. Claim(op'[q]) \subseteq Live(rows) \cup Claim(op[q])
    BY <2>1
  <2>3. HeldBy(rows, op')[q] <= HeldBy(rows, op)[q]
    BY <1>2, <2>1, <2>2, HeldMonotone
  <2> QED
    BY <2>1, <2>3
<1>5. sigma \in [Procs -> Nat] /\ s0 \in Nat /\ Stamps(sigma, sigma[p], t)
  BY <1>1 DEF Stamps
<1> HIDE DEF A
<1>6. \/ Accounted(A \ {p}, Size(rows), HeldBy(rows, op'), row_count', put_count', sigma, s0)
      \/ Accounted(A \ {p}, Size(rows), HeldBy(rows, op'), row_count', put_count', sigma, sigma[p])
  BY <1>1, <1>3, <1>4, <1>5, LeaveStep
<1>7. \E s : /\ Stamps(sigma, s, t)
             /\ Accounted(ActsOf(up', degraded'), Size(rows'), HeldBy(rows', op'),
                          row_count', put_count', sigma, s)
  BY <1>1, <1>5, <1>6 DEF A
<1> QED
  BY <1>7 DEF AccountsHold

LEMMA JoinAccounts ==
  ASSUME TypeOK, TypeOK', AccountsHold, NEW p \in Procs, p \notin up, op[p] = NIL, op' = op,
         up' = up \cup {p}, degraded' = [degraded EXCEPT ![p] = FALSE],
         rows' = Without(rows, Expired(rows)),
         row_count' = [row_count EXCEPT ![p] = Size(rows')],
         put_count' = [put_count EXCEPT ![p] = 0]
  PROVE  AccountsHold'
<1> DEFINE A == ActsOf(up, degraded)
<1>1. PICK sigma, s0, t :
        /\ Stamps(sigma, s0, t)
        /\ Accounted(A, Size(rows), HeldBy(rows, op), row_count, put_count, sigma, s0)
  BY DEF AccountsHold
<1>2. /\ A \in SUBSET Procs /\ rows \in Table /\ p \in Procs \ A
      /\ ActsOf(up', degraded') = A \cup {p}
  BY StateCounters DEF ActsOf, TypeOK
<1>3. rows' \in Table /\ Live(rows') \subseteq Live(rows)
  BY <1>2, WithoutSize DEF Live, Without
<1>4. Size(rows') <= Size(rows)
  BY <1>2, <1>3, SizeIsNat, FS_Subset DEF Size
<1>5. /\ Counters(A, Size(rows), HeldBy(rows, op), row_count, put_count)
      /\ Counters(A \cup {p}, Size(rows'), HeldBy(rows', op'), row_count', put_count')
  <2>1. /\ row_count' \in [Procs -> Int] /\ put_count' \in [Procs -> 0..(PurgeEvery - 1)]
        /\ A \cup {p} \in SUBSET Procs
    BY <1>2 DEF TypeOK
  <2> QED
    BY <1>3, <2>1, StateCounters, CountersTyped
<1>6. \A q \in A : /\ row_count'[q] = row_count[q] /\ put_count'[q] = put_count[q]
                   /\ HeldBy(rows', op')[q] <= HeldBy(rows, op)[q]
  <2> SUFFICES ASSUME NEW q \in A
               PROVE  /\ row_count'[q] = row_count[q] /\ put_count'[q] = put_count[q]
                      /\ HeldBy(rows', op')[q] <= HeldBy(rows, op)[q]
    OBVIOUS
  <2>1. q \in Procs /\ q # p
    BY <1>2
  <2>2. row_count'[q] = row_count[q] /\ put_count'[q] = put_count[q]
    BY <2>1 DEF TypeOK
  <2>3. Claim(op'[q]) \subseteq Live(rows) \cup Claim(op[q])
    OBVIOUS
  <2>4. HeldBy(rows', op')[q] <= HeldBy(rows, op)[q]
    BY <1>2, <1>3, <2>1, <2>3, HeldMonotone
  <2> QED
    BY <2>2, <2>4
<1>7. HeldBy(rows', op')[p] = row_count'[p]
  BY HeldIdle DEF TypeOK
<1> HIDE DEF A
<1>8. /\ Stamps([sigma EXCEPT ![p] = t + 1], s0, t + 1)
      /\ Accounted(A \cup {p}, Size(rows'), HeldBy(rows', op'), row_count', put_count',
                   [sigma EXCEPT ![p] = t + 1], s0)
  <2>1. PICK held, held2, rc2, pc2, N, N2 :
          /\ held = HeldBy(rows, op) /\ held2 = HeldBy(rows', op')
          /\ rc2 = row_count' /\ pc2 = put_count'
          /\ N = Size(rows) /\ N2 = Size(rows')
    OBVIOUS
  <2>2. /\ Counters(A, N, held, row_count, put_count)
        /\ Counters(A \cup {p}, N2, held2, rc2, pc2)
        /\ Accounted(A, N, held, row_count, put_count, sigma, s0) /\ Stamps(sigma, s0, t)
        /\ N2 <= N /\ held2[p] = rc2[p]
        /\ \A q \in A : rc2[q] = row_count[q] /\ pc2[q] = put_count[q] /\ held2[q] <= held[q]
    BY <1>1, <1>4, <1>5, <1>6, <1>7, <2>1
  <2>3. /\ Stamps([sigma EXCEPT ![p] = t + 1], s0, t + 1)
        /\ Accounted(A \cup {p}, N2, held2, rc2, pc2, [sigma EXCEPT ![p] = t + 1], s0)
    BY <1>2, <2>2, JoinStep, SMTT(30)
  <2> QED
    BY <2>1, <2>3
<1> QED
  BY <1>2, <1>8 DEF AccountsHold

-----------------------------------------------------------------------------
\* What one put does to the rows and the count of its writer, and to what the
\* others hold.
LEMMA PutNumbers ==
  ASSUME TypeOK, NEW p \in Procs, SetCommit(p)
  PROVE  /\ PurgeNow(p) => /\ row_count'[p] <= MaxRows
                           /\ row_count'[p] = Size(rows')
         /\ ~PurgeNow(p) =>
              /\ Size(rows') <= Size(rows) + 1
              /\ Size(rows') - row_count'[p] <= HeldBy(rows, op)[p] - row_count[p]
              /\ \A q \in Procs \ {p} : HeldBy(rows', op')[q] <= HeldBy(rows, op)[q] + 1
              /\ row_count'[p] > MaxRows =>
                   /\ row_count[p] > MaxRows
                   /\ \A q \in Procs \ {p} : HeldBy(rows', op')[q] <= HeldBy(rows, op)[q]
                   /\ Size(rows') <= Size(rows)
<1>1. op[p] # NIL
  BY DEF SetCommit, Checked
<1>2. PICK V \in CapVictims(BeforeCap(p), Counted(p) - MaxRows) :
        /\ rows' = Without(BeforeCap(p), V)
        /\ row_count' = [row_count EXCEPT ![p] = Counted(p) - Cardinality(V)]
  BY DEF SetCommit
<1>3. /\ BeforeCap(p) \in Table /\ Counted(p) \in Int
      /\ op[p] \in Put /\ op[p].key \in Keys /\ op[p].entry \in Entry
      /\ Upserted(p) = Upsert(rows, op[p].key, op[p].entry)
      /\ rows \in Table
  BY <1>1, CommitTypes, StateCounters
<1>4. MaxRows \in Nat /\ Counted(p) - MaxRows \in Int /\ row_count[p] \in Int
  BY <1>3, BackendAssumption DEF TypeOK
<1>5. /\ Cardinality(V) \in Nat /\ V \subseteq Live(BeforeCap(p)) /\ rows' \in Table
      /\ Size(rows') = Size(BeforeCap(p)) - Cardinality(V)
  BY <1>2, <1>3, <1>4, VictimsSize
<1>6. Size(BeforeCap(p)) \in Nat /\ Size(rows) \in Nat /\ Size(rows') \in Nat
  BY <1>3, <1>5, SizeIsNat
<1>7. row_count'[p] = Counted(p) - Cardinality(V)
  BY <1>2 DEF TypeOK
<1>8. Cardinality(V) = IF Counted(p) - MaxRows <= 0 THEN 0
                       ELSE IF Counted(p) - MaxRows > Size(BeforeCap(p)) THEN Size(BeforeCap(p))
                       ELSE Counted(p) - MaxRows
  BY DEF CapVictims
<1>9. CASE PurgeNow(p)
  <2>1. Counted(p) = Size(BeforeCap(p))
    BY <1>9 DEF Counted
  <2> QED
    BY <1>4, <1>5, <1>6, <1>7, <1>8, <1>9, <2>1
<1>10. CASE ~PurgeNow(p)
  <2>1. BeforeCap(p) = Upsert(rows, op[p].key, op[p].entry)
    BY <1>3, <1>10 DEF BeforeCap
  <2>2. Live(BeforeCap(p)) = Live(rows) \cup {op[p].key}
    BY <1>3, <2>1, NILAssumption DEF Live, Upsert, Table
  <2>3. Size(BeforeCap(p)) = IF rows[op[p].key] = NIL THEN Size(rows) + 1 ELSE Size(rows)
    BY <1>3, <2>1, UpsertSize
  <2>4. Counted(p) = IF op[p].existed THEN row_count[p] ELSE row_count[p] + 1
    BY <1>10 DEF Counted
  <2>5. Size(BeforeCap(p)) > 0
    <3>1. rows[op[p].key] # NIL => op[p].key \in Live(rows)
      BY <1>3 DEF Live
    <3>2. op[p].key \in Live(rows) => Size(rows) # 0
      BY <1>3, SizeIsNat, FS_EmptySet
    <3> QED
      BY <1>6, <2>3, <3>1, <3>2
  \* what the writer holds, its own claim counted
  <2>6. Size(BeforeCap(p)) - Counted(p) <= HeldBy(rows, op)[p] - row_count[p]
    <3>1. CASE op[p].existed
      <4>1. Claim(op[p]) = {op[p].key}
        BY <1>1, <1>3, <3>1 DEF Claim
      <4>2. HeldBy(rows, op)[p] = Size(BeforeCap(p))
        BY <2>2, <4>1 DEF HeldBy, Size
      <4> QED
        BY <1>4, <1>6, <2>4, <3>1, <4>2
    <3>2. CASE ~op[p].existed
      <4>1. HeldBy(rows, op)[p] \in Nat /\ Size(rows) <= HeldBy(rows, op)[p]
        BY StateCounters DEF Counters
      <4> QED
        BY <1>4, <1>6, <2>3, <2>4, <3>2, <4>1
    <3> QED
      BY <3>1, <3>2
  \* what the others hold
  <2>7. \A q \in Procs \ {p} : op'[q] = op[q]
    BY DEF SetCommit, TypeOK
  <2>8. Live(rows') = (Live(rows) \cup {op[p].key}) \ V
    BY <1>2, <2>2 DEF Live, Without
  <2>9. ASSUME NEW q \in Procs \ {p}
        PROVE  HeldBy(rows', op')[q] <= HeldBy(rows, op)[q] + 1
    <3> DEFINE S == Live(rows) \cup Claim(op[q])
               S2 == Live(rows') \cup Claim(op[q])
    <3>1. IsFiniteSet(S) /\ Cardinality(S) \in Nat
      BY <1>3, ClaimedFinite
    <3>2. S2 \subseteq S \cup {op[p].key}
      BY <2>8
    <3>3. HeldBy(rows', op')[q] = Cardinality(S2) /\ HeldBy(rows, op)[q] = Cardinality(S)
      BY <2>7 DEF HeldBy
    <3> HIDE DEF S, S2
    <3>4. /\ IsFiniteSet(S \cup {op[p].key})
          /\ Cardinality(S \cup {op[p].key}) =
               IF op[p].key \in S THEN Cardinality(S) ELSE Cardinality(S) + 1
      BY <3>1, FS_AddElement
    <3>5. Cardinality(S2) <= Cardinality(S \cup {op[p].key}) /\ IsFiniteSet(S2)
      BY <3>2, <3>4, FS_Subset
    <3>6. Cardinality(S2) \in Nat
      BY <3>5, FS_CardinalityType
    <3> QED
      BY <3>1, <3>3, <3>4, <3>5, <3>6
  \* a count still above the cap has emptied the file
  <2>10. ASSUME row_count'[p] > MaxRows
         PROVE  /\ row_count[p] > MaxRows /\ Size(rows') <= Size(rows)
                /\ \A q \in Procs \ {p} : HeldBy(rows', op')[q] <= HeldBy(rows, op)[q]
    <3>1. Size(rows') = 0 /\ Cardinality(V) = Size(BeforeCap(p))
      <4>1. PICK c, b, v, r : /\ c = Counted(p) /\ b = Size(BeforeCap(p))
                              /\ v = Cardinality(V) /\ r = row_count'[p]
        OBVIOUS
      <4>2. /\ c \in Int /\ b \in Nat /\ v \in Nat /\ r = c - v /\ r > MaxRows
            /\ v = IF c - MaxRows <= 0 THEN 0 ELSE IF c - MaxRows > b THEN b ELSE c - MaxRows
        BY <1>3, <1>5, <1>6, <1>7, <1>8, <2>10, <4>1
      <4>3. v = b
        BY <1>4, <4>2
      <4> QED
        BY <1>5, <1>6, <4>1, <4>3
    <3>2. row_count[p] > MaxRows
      BY <1>4, <1>6, <1>7, <2>4, <2>5, <2>10, <3>1
    <3>3. Live(rows') = {}
      BY <1>5, <3>1, SizeIsNat, FS_EmptySet
    <3>4. ASSUME NEW q \in Procs \ {p}
          PROVE  HeldBy(rows', op')[q] <= HeldBy(rows, op)[q]
      <4>1. Live(rows') \subseteq Live(rows) /\ Claim(op'[q]) \subseteq Live(rows) \cup Claim(op[q])
        BY <2>7, <3>3
      <4> QED
        BY <1>3, <4>1, HeldMonotone
    <3> QED
      BY <1>6, <3>1, <3>2, <3>4
  <2>11. Size(rows') <= Size(rows) + 1
    BY <1>5, <1>6, <2>3
  <2>12. Size(rows') - row_count'[p] <= HeldBy(rows, op)[p] - row_count[p]
    <3>1. Size(rows') - row_count'[p] = Size(BeforeCap(p)) - Counted(p)
      BY <1>3, <1>5, <1>6, <1>7
    <3> QED
      BY <2>6, <3>1
  <2> QED
    BY <1>10, <2>9, <2>10, <2>11, <2>12
<1> QED
  BY <1>9, <1>10

LEMMA ResyncAccounts ==
  ASSUME TypeOK, TypeOK', AccountsHold, NEW p \in ActsOf(up, degraded), SetCommit(p), PurgeNow(p)
  PROVE  AccountsHold'
<1> DEFINE A == ActsOf(up, degraded)
<1>1. PICK sigma, s0, t : Stamps(sigma, s0, t)
  BY DEF AccountsHold
<1>2. p \in Procs /\ A \in SUBSET Procs /\ ActsOf(up', degraded') = A
  BY StateCounters DEF SetCommit
<1>3. row_count'[p] <= MaxRows /\ row_count'[p] = Size(rows')
  BY <1>2, PutNumbers
<1>4. op'[p] = NIL
  BY <1>2 DEF SetCommit, TypeOK
<1>5. HeldBy(rows', op')[p] = row_count'[p]
  BY <1>2, <1>3, <1>4, HeldIdle
<1>6. Counters(A, Size(rows'), HeldBy(rows', op'), row_count', put_count')
  <2>1. /\ rows' \in Table /\ row_count' \in [Procs -> Int]
        /\ put_count' \in [Procs -> 0..(PurgeEvery - 1)]
    BY DEF TypeOK, Table
  <2> QED
    BY <1>2, <2>1, CountersTyped
<1> HIDE DEF A
<1>7. /\ Stamps([sigma EXCEPT ![p] = t + 1], s0, t + 1)
      /\ Accounted(A, Size(rows'), HeldBy(rows', op'), row_count', put_count',
                   [sigma EXCEPT ![p] = t + 1], s0)
  <2>1. p \in A
    BY DEF A
  <2> QED
    BY <1>1, <1>3, <1>5, <1>6, <2>1, ResyncStep
<1> QED
  BY <1>2, <1>7 DEF AccountsHold

LEMMA PutAccounts ==
  ASSUME TypeOK, TypeOK', AccountsHold, NEW p \in ActsOf(up, degraded), SetCommit(p), ~PurgeNow(p)
  PROVE  AccountsHold'
<1> DEFINE A == ActsOf(up, degraded)
<1>1. PICK sigma, s0, t :
        /\ Stamps(sigma, s0, t)
        /\ Accounted(A, Size(rows), HeldBy(rows, op), row_count, put_count, sigma, s0)
  BY DEF AccountsHold
<1>2. p \in Procs /\ p \in A /\ A \in SUBSET Procs /\ ActsOf(up', degraded') = A
  BY StateCounters DEF SetCommit
<1>3. put_count[p] + 1 < PurgeEvery /\ put_count' = [put_count EXCEPT ![p] = put_count[p] + 1]
  <2>1. put_count[p] \in 0..(PurgeEvery - 1) /\ PurgeEvery \in Nat /\ PurgeEvery > 0
    BY <1>2, BackendAssumption DEF TypeOK
  <2>2. (put_count[p] + 1) % PurgeEvery # 0
    BY DEF PurgeNow
  <2>3. put_count[p] + 1 = PurgeEvery => (put_count[p] + 1) % PurgeEvery = 0
    BY <2>1
  <2>4. put_count[p] + 1 < PurgeEvery
    BY <2>1, <2>2, <2>3
  <2>5. (put_count[p] + 1) % PurgeEvery = put_count[p] + 1
    BY <2>1, <2>4
  <2> QED
    BY <2>4, <2>5 DEF SetCommit
<1>4. /\ Size(rows') <= Size(rows) + 1
      /\ Size(rows') - row_count'[p] <= HeldBy(rows, op)[p] - row_count[p]
      /\ \A q \in Procs \ {p} : HeldBy(rows', op')[q] <= HeldBy(rows, op)[q] + 1
      /\ row_count'[p] > MaxRows =>
           /\ row_count[p] > MaxRows
           /\ \A q \in Procs \ {p} : HeldBy(rows', op')[q] <= HeldBy(rows, op)[q]
           /\ Size(rows') <= Size(rows)
  BY <1>2, PutNumbers
<1>5. HeldBy(rows', op')[p] = Size(rows')
  <2>1. op'[p] = NIL
    BY <1>2 DEF SetCommit, TypeOK
  <2> QED
    BY <1>2, <2>1, HeldIdle
<1>6. \A q \in Procs \ {p} : row_count'[q] = row_count[q]
  BY DEF SetCommit, TypeOK
<1>7. /\ Counters(A, Size(rows), HeldBy(rows, op), row_count, put_count)
      /\ Counters(A, Size(rows'), HeldBy(rows', op'), row_count', put_count')
  <2>1. /\ rows' \in Table /\ row_count' \in [Procs -> Int]
        /\ put_count' \in [Procs -> 0..(PurgeEvery - 1)]
    BY DEF TypeOK, Table
  <2> QED
    BY <1>2, <2>1, StateCounters, CountersTyped
<1> HIDE DEF A
<1>8. Accounted(A, Size(rows'), HeldBy(rows', op'), row_count', put_count', sigma, s0)
  <2>1. PICK held, held2, rc, rc2, pc, N, N2 :
          /\ held = HeldBy(rows, op) /\ held2 = HeldBy(rows', op')
          /\ rc = row_count /\ rc2 = row_count' /\ pc = put_count
          /\ N = Size(rows) /\ N2 = Size(rows')
    OBVIOUS
  <2>2. sigma \in [Procs -> Nat] /\ s0 \in Nat /\ pc[p] + 1 < PurgeEvery
    BY <1>1, <1>3, <2>1 DEF Stamps
  <2>3. /\ Counters(A, N, held, rc, pc)
        /\ Counters(A, N2, held2, rc2, [pc EXCEPT ![p] = pc[p] + 1])
        /\ Accounted(A, N, held, rc, pc, sigma, s0)
    BY <1>1, <1>3, <1>7, <2>1
  <2>4. /\ N2 <= N + 1 /\ held2[p] - rc2[p] <= held[p] - rc[p]
        /\ \A q \in A \ {p} : rc2[q] = rc[q] /\ held2[q] <= held[q] + 1
        /\ rc2[p] > MaxRows =>
             rc[p] > MaxRows /\ N2 <= N /\ \A q \in A \ {p} : held2[q] <= held[q]
    BY <1>2, <1>4, <1>5, <1>6, <2>1
  <2>5. Accounted(A, N2, held2, rc2, [pc EXCEPT ![p] = pc[p] + 1], sigma, s0)
    BY <1>2, <2>2, <2>3, <2>4, PutStep
  <2> QED
    BY <1>3, <2>1, <2>5
<1> QED
  BY <1>1, <1>2, <1>8 DEF AccountsHold

\* A removal: the file's rows and the count fall alike, or the file is left alone.
LEMMA RemoveAccounts ==
  ASSUME AccountInv, TypeOK', NEW p \in Procs, NEW K, NEW memK, NEW counted \in Int,
         Remove(p, K, memK, counted),
         \/ counted = row_count[p] - Cardinality(Live(rows) \cap K)
         \/ counted = 0 /\ Live(rows) \subseteq K
  PROVE  PutsOpen' /\ AccountsHold'
<1>1. /\ rows \in Table /\ op[p] = NIL /\ op' = op /\ up' = up /\ put_count' = put_count
      /\ TypeOK /\ PutsOpen /\ AccountsHold
  BY StateCounters DEF AccountInv, Remove, Idle
<1>2. \A q \in Procs \ {p} : degraded'[q] = degraded[q] /\ row_count'[q] = row_count[q]
  BY <1>1 DEF Remove, FailOpen, TypeOK
<1>3. PutsOpen'
  BY <1>1, <1>2 DEF PutsOpen, ActsOf, TypeOK
<1>4. CASE degraded' # degraded
  <2>1. degraded' = [degraded EXCEPT ![p] = TRUE] /\ UNCHANGED <<rows, row_count>>
    BY <1>4 DEF Remove, FailOpen
  <2>2. ActsOf(up', degraded') = ActsOf(up, degraded) \ {p}
    BY <1>1, <2>1 DEF ActsOf, TypeOK
  <2> QED
    BY <1>1, <1>3, <2>1, <2>2, LeaveAccounts
<1>5. CASE degraded' = degraded
  <2>1. ActsOf(up', degraded') = ActsOf(up, degraded)
    BY <1>1, <1>5
  <2>2. \A q \in Procs : HeldBy(rows, op)[q] \in Nat /\ row_count[q] \in Int /\ row_count'[q] \in Int
    BY <1>1, StateCounters DEF Counters, TypeOK
  <2>3. CASE UNCHANGED <<rows, row_count>>
    <3>1. \A q \in ActsOf(up, degraded) :
            /\ row_count'[q] > MaxRows => row_count[q] > MaxRows
            /\ HeldBy(rows', op')[q] - row_count'[q] <= HeldBy(rows, op)[q] - row_count[q]
      BY <1>1, <2>2, <2>3, StateCounters
    <3> QED
      BY <1>1, <1>3, <2>1, <2>3, <3>1, CalmAccounts
  <2>4. CASE rows' = Without(rows, K) /\ row_count' = [row_count EXCEPT ![p] = counted]
    <3> DEFINE gone == Cardinality(Live(rows) \cap K)
    <3>1. /\ gone \in Nat /\ rows' \in Table /\ Live(rows') \subseteq Live(rows)
          /\ Size(rows') = Size(rows) - gone /\ Size(rows) \in Nat
      BY <1>1, <2>4, WithoutSize, SizeIsNat DEF Live, Without
    <3>2. HeldBy(rows', op')[p] = Size(rows') /\ HeldBy(rows, op)[p] = Size(rows)
      BY <1>1, HeldIdle
    <3>3. row_count'[p] = counted /\ MaxRows \in Nat /\ row_count[p] \in Int
      BY <1>1, <2>4, BackendAssumption DEF TypeOK
    <3>4. Live(rows) \subseteq K => gone = Size(rows)
      <4>1. Live(rows) \subseteq K => Live(rows) \cap K = Live(rows)
        OBVIOUS
      <4> QED
        BY <4>1 DEF Size
    <3>5. \/ counted = row_count[p] - gone
          \/ counted = 0 /\ gone = Size(rows)
      BY <3>4
    <3> HIDE DEF gone
    <3>6. ASSUME NEW q \in ActsOf(up, degraded)
          PROVE  /\ row_count'[q] > MaxRows => row_count[q] > MaxRows
                 /\ \/ HeldBy(rows', op')[q] - row_count'[q] <= HeldBy(rows, op)[q] - row_count[q]
                    \/ HeldBy(rows', op')[q] <= row_count'[q]
      <4>1. CASE q = p
        <5>1. row_count'[p] > MaxRows => row_count[p] > MaxRows
          BY <3>1, <3>3, <3>5
        <5>2. \/ Size(rows') - row_count'[p] <= Size(rows) - row_count[p]
              \/ Size(rows') <= row_count'[p]
          BY <3>1, <3>3, <3>5
        <5> QED
          BY <3>2, <4>1, <5>1, <5>2
      <4>2. CASE q # p
        <5>1. q \in Procs /\ row_count'[q] = row_count[q]
          BY <1>1, <1>2, <4>2, StateCounters
        <5>2. Claim(op'[q]) \subseteq Live(rows) \cup Claim(op[q])
          BY <1>1
        <5>3. HeldBy(rows', op')[q] <= HeldBy(rows, op)[q]
          BY <1>1, <3>1, <5>1, <5>2, HeldMonotone
        <5>4. HeldBy(rows', op')[q] \in Nat
          BY <3>1, <5>1, ClaimedFinite DEF HeldBy
        <5> QED
          BY <2>2, <5>1, <5>3, <5>4
      <4> QED
        BY <4>1, <4>2
    <3> QED
      BY <1>1, <1>3, <2>1, <3>1, <3>6, CalmAccounts
  <2> QED
    BY <2>3, <2>4 DEF Remove
<1> QED
  BY <1>3, <1>4, <1>5

-----------------------------------------------------------------------------
LEMMA InitAccounts == Init => AccountInv
<1> SUFFICES ASSUME Init PROVE AccountInv
  OBVIOUS
<1>1. TypeOK
  BY InitTypes
<1>2. ActsOf(up, degraded) = {} /\ PutsOpen
  BY DEF Init, ActsOf, PutsOpen
<1>3. Size(rows) = 0
  <2>1. Live(rows) = {}
    BY DEF Init, Empty, Live
  <2> QED
    BY <2>1, FS_EmptySet DEF Size
<1> DEFINE sigma == [q \in Procs |-> 0]
<1>4. Stamps(sigma, 0, 0)
  BY DEF Stamps
<1>5. UpTo({}, sigma, 0) = {} /\ Left(put_count, {}) = 0
  <2>1. Unspent(put_count, {}) = {}
    BY DEF Unspent
  <2>2. UpTo({}, sigma, 0) = {}
    BY DEF UpTo
  <2> QED
    BY <2>1, <2>2, FS_EmptySet DEF Left
<1>6. Accounted({}, 0, HeldBy(rows, op), row_count, put_count, sigma, 0)
  <2>1. MaxRows \in Nat /\ Spare \in Nat
    BY BackendAssumption, SpareIsNat
  <2>2. 0 + Left(put_count, UpTo({}, sigma, 0)) <= MaxRows + Spare
    BY <1>5, <2>1
  <2>3. GhostBound({}, 0, row_count, put_count, sigma, 0)
    BY <2>2, Zenon DEF GhostBound
  <2> HIDE DEF sigma
  <2> QED
    BY <2>3 DEF Accounted
<1>7. AccountsHold
  BY <1>2, <1>3, <1>4, <1>6 DEF AccountsHold
<1> QED
  BY <1>1, <1>2, <1>7 DEF AccountInv

\* A step that writes neither the file nor a count, and claims only what it sees.
LEMMA QuietAccounts ==
  ASSUME TypeOK, TypeOK', AccountsHold, NEW p \in Procs,
         UNCHANGED <<rows, up, degraded, row_count, put_count>>,
         \A q \in Procs \ {p} : op'[q] = op[q],
         Claim(op'[p]) \subseteq Live(rows) \cup Claim(op[p])
  PROVE  AccountsHold'
<1>1. rows \in Table /\ ActsOf(up, degraded) \in SUBSET Procs
  BY StateCounters
<1>2. ASSUME NEW q \in Procs
      PROVE  /\ HeldBy(rows', op')[q] <= HeldBy(rows, op)[q]
             /\ HeldBy(rows', op')[q] \in Nat /\ HeldBy(rows, op)[q] \in Nat
             /\ row_count[q] \in Int
  <2>1. Claim(op'[q]) \subseteq Live(rows) \cup Claim(op[q])
    OBVIOUS
  <2>2. HeldBy(rows', op')[q] <= HeldBy(rows, op)[q]
    BY <1>1, <2>1, HeldMonotone
  <2>3. HeldBy(rows', op')[q] \in Nat /\ HeldBy(rows, op)[q] \in Nat
    BY <1>1, ClaimedFinite DEF HeldBy
  <2> QED
    BY <2>2, <2>3 DEF TypeOK
<1>3. \A q \in ActsOf(up, degraded) :
        /\ row_count'[q] > MaxRows => row_count[q] > MaxRows
        /\ HeldBy(rows', op')[q] - row_count'[q] <= HeldBy(rows, op)[q] - row_count[q]
  BY <1>1, <1>2
<1> QED
  BY <1>3, CalmAccounts

LEMMA StepAccounts ==
  ASSUME AccountInv, TypeOK', NEW p \in Procs, ProcStep(p)
  PROVE  PutsOpen' /\ AccountsHold'
<1>1. TypeOK /\ PutsOpen /\ AccountsHold /\ rows \in Table
  BY StateCounters DEF AccountInv
<1>2. CASE Open(p)
  <2>1. op[p] = NIL /\ op' = op /\ p \notin up
    BY <1>1, <1>2 DEF Open, PutsOpen, ActsOf
  <2>2. PutsOpen'
    BY <1>1, <1>2, <2>1 DEF Open, PutsOpen, ActsOf, TypeOK
  <2>3. CASE /\ rows' = Without(rows, Expired(rows))
             /\ row_count' = [row_count EXCEPT ![p] = Size(rows')]
             /\ degraded' = [degraded EXCEPT ![p] = FALSE]
    BY <1>1, <1>2, <2>1, <2>2, <2>3, JoinAccounts DEF Open
  <2>4. CASE /\ row_count' = [row_count EXCEPT ![p] = 0]
             /\ degraded' = [degraded EXCEPT ![p] = TRUE]
             /\ UNCHANGED rows
    <3>1. ActsOf(up', degraded') = ActsOf(up, degraded) \ {p}
      BY <1>1, <1>2, <2>1, <2>4 DEF Open, ActsOf, TypeOK
    <3>2. \A q \in Procs \ {p} :
            row_count'[q] = row_count[q] /\ put_count'[q] = put_count[q] /\ op'[q] = op[q]
      BY <1>1, <1>2, <2>1, <2>4 DEF Open, TypeOK
    <3> QED
      BY <1>1, <2>2, <2>4, <3>1, <3>2, LeaveAccounts
  <2> QED
    BY <1>2, <2>3, <2>4 DEF Open
<1>3. CASE SetCheck(p)
  <2>1. PICK k \in Keys, ttl \in TTLs :
          op' = [op EXCEPT ![p] =
                   [key |-> k, entry |-> [created |-> now, ttl |-> ttl],
                    phase |-> "checked", existed |-> rows[k] # NIL, access |-> FALSE]]
    BY <1>3 DEF SetCheck
  <2>2. Claim(op'[p]) \subseteq Live(rows)
    BY <1>1, <2>1 DEF Claim, Live, TypeOK
  <2>3. PutsOpen' /\ \A q \in Procs \ {p} : op'[q] = op[q]
    BY <1>1, <1>3, <2>1 DEF SetCheck, Idle, PutsOpen, ActsOf, TypeOK
  <2> QED
    BY <1>1, <1>3, <2>2, <2>3, QuietAccounts DEF SetCheck
<1>4. CASE ReadForAccess(p)
  <2>1. PICK k \in Keys :
          op' = [op EXCEPT ![p] =
                   [key |-> k, entry |-> Get(p, k),
                    phase |-> "read", existed |-> FALSE, access |-> TRUE]]
    BY <1>4 DEF ReadForAccess
  <2>2. Claim(op'[p]) = {}
    BY <1>1, <2>1 DEF Claim, TypeOK
  <2>3. PutsOpen' /\ \A q \in Procs \ {p} : op'[q] = op[q]
    BY <1>1, <1>4, <2>1 DEF ReadForAccess, Idle, PutsOpen, ActsOf, TypeOK
  <2> QED
    BY <1>1, <1>4, <2>2, <2>3, QuietAccounts DEF ReadForAccess
<1>5. CASE SetRecheck(p)
  <2>1. op' = [op EXCEPT ![p].phase = "checked", ![p].existed = (rows[op[p].key] # NIL)]
        /\ op[p] \in Put
    BY <1>1, <1>5 DEF SetRecheck, TypeOK
  <2>2. op'[p].key = op[p].key /\ (op'[p].existed <=> rows[op[p].key] # NIL)
    BY <1>1, <2>1 DEF TypeOK, Put
  <2>3. Claim(op'[p]) \subseteq Live(rows)
    BY <1>1, <2>2 DEF Claim, Live
  <2>4. PutsOpen' /\ \A q \in Procs \ {p} : op'[q] = op[q]
    BY <1>1, <1>5, <2>1 DEF SetRecheck, PutsOpen, ActsOf, TypeOK
  <2> QED
    BY <1>1, <1>5, <2>3, <2>4, QuietAccounts DEF SetRecheck
<1>6. CASE SetCommit(p)
  <2>1. p \in ActsOf(up, degraded)
    BY <1>1, <1>6 DEF SetCommit, Checked, PutsOpen
  <2>2. AccountsHold'
    BY <1>1, <1>6, <2>1, PutAccounts, ResyncAccounts
  <2>3. PutsOpen'
    BY <1>1, <1>6 DEF SetCommit, PutsOpen, ActsOf, TypeOK
  <2> QED
    BY <2>2, <2>3
<1>7. CASE SetLost(p)
  <2>1. /\ op' = [op EXCEPT ![p] = NIL] /\ UNCHANGED <<rows, up, row_count, put_count>>
        /\ degraded' = degraded \/ degraded' = [degraded EXCEPT ![p] = TRUE]
    BY <1>7 DEF SetLost, FailOpen
  <2>2. /\ op'[p] = NIL /\ Claim(op'[p]) = {}
        /\ \A q \in Procs \ {p} : op'[q] = op[q] /\ degraded'[q] = degraded[q]
    BY <1>1, <2>1 DEF Claim, TypeOK
  <2>3. PutsOpen'
    BY <1>1, <2>1, <2>2 DEF PutsOpen, ActsOf
  <2>4. CASE degraded' = degraded
    BY <1>1, <2>1, <2>2, <2>3, <2>4, QuietAccounts
  <2>5. CASE degraded' = [degraded EXCEPT ![p] = TRUE]
    <3>1. ActsOf(up', degraded') = ActsOf(up, degraded) \ {p}
      BY <1>1, <2>1, <2>5 DEF ActsOf, TypeOK
    <3>2. \A q \in Procs \ {p} :
            row_count'[q] = row_count[q] /\ put_count'[q] = put_count[q] /\ op'[q] = op[q]
      BY <2>1, <2>2
    <3> QED
      BY <1>1, <2>1, <2>3, <3>1, <3>2, LeaveAccounts
  <2> QED
    BY <2>1, <2>4, <2>5
<1>8. CASE SetDegraded(p)
  <2>1. op' = op /\ UNCHANGED <<rows, up, degraded, row_count, put_count>>
    BY <1>8 DEF SetDegraded
  <2>2. PutsOpen'
    BY <1>1, <2>1 DEF PutsOpen, ActsOf
  <2> QED
    BY <1>1, <2>1, <2>2, QuietAccounts
<1>9. CASE \E k \in Keys : Delete(p, k)
  <2>1. PICK k \in Keys : Delete(p, k)
    BY <1>9
  <2>2. Cardinality(Live(rows) \cap {k}) \in Nat /\ row_count[p] \in Int
    BY <1>1, WithoutSize DEF TypeOK
  <2>3. row_count[p] - Cardinality(Live(rows) \cap {k}) \in Int
    BY <2>2
  <2> QED
    BY <2>1, <2>3, RemoveAccounts DEF Delete
<1>10. CASE PurgeExpired(p)
  <2>1. Live(rows) \cap Expired(rows) = Expired(rows)
    BY DEF Expired
  <2>2. Cardinality(Live(rows) \cap Expired(rows)) \in Nat /\ row_count[p] \in Int
    BY <1>1, WithoutSize DEF TypeOK
  <2>3. row_count[p] - Cardinality(Expired(rows)) \in Int
    BY <2>1, <2>2
  <2>4. row_count[p] - Cardinality(Expired(rows)) = row_count[p] - Cardinality(Live(rows) \cap Expired(rows))
    BY <2>1
  <2> QED
    BY <1>10, <2>3, <2>4, RemoveAccounts DEF PurgeExpired
<1>11. CASE Clear(p)
  <2>1. Live(rows) \subseteq Keys
    BY DEF Live
  <2> QED
    BY <1>11, <2>1, RemoveAccounts DEF Clear
<1>12. CASE Exit(p)
  <2>1. ActsOf(up', degraded') = ActsOf(up, degraded) \ {p}
    BY <1>1, <1>12 DEF Exit, ActsOf, TypeOK
  <2>2. \A q \in Procs \ {p} :
          row_count'[q] = row_count[q] /\ put_count'[q] = put_count[q] /\ op'[q] = op[q]
    BY <1>1, <1>12 DEF Exit, TypeOK
  <2>3. PutsOpen'
    BY <1>1, <1>12, <2>1, <2>2 DEF Exit, PutsOpen, TypeOK
  <2> QED
    BY <1>1, <1>12, <2>1, <2>2, <2>3, LeaveAccounts DEF Exit
<1> QED
  BY <1>2, <1>3, <1>4, <1>5, <1>6, <1>7, <1>8, <1>9, <1>10, <1>11, <1>12 DEF ProcStep

LEMMA NextAccounts == AccountInv /\ [Next]_vars => AccountInv'
<1> SUFFICES ASSUME AccountInv, [Next]_vars PROVE AccountInv'
  OBVIOUS
<1>1. TypeOK /\ PutsOpen /\ AccountsHold /\ TypeOK'
  BY NextTypes DEF AccountInv
<1>2. CASE \E p \in Procs : ProcStep(p)
  BY <1>1, <1>2, StepAccounts DEF AccountInv
<1>3. CASE UNCHANGED <<rows, up, degraded, row_count, put_count, op>>
  <2>1. PICK p : p \in Procs
    BY BackendAssumption
  <2>2. AccountsHold'
    BY <1>1, <1>3, <2>1, QuietAccounts
  <2> QED
    BY <1>1, <1>3, <2>2 DEF AccountInv, PutsOpen, ActsOf
<1> QED
  BY <1>2, <1>3 DEF Next, Tick, vars

\* Processes that never see each other's writes hold the shared file near its cap,
\* for any number of processes, any cap and any resync cadence, through expiry,
\* deletions, overtaken puts, lost puts, degradation, exits and restarts.
THEOREM FileStaysNearCap == Spec => []FileSound
<1>1. AccountInv => FileSound
  <2> SUFFICES ASSUME AccountInv PROVE FileSound
    OBVIOUS
  <2>1. TypeOK /\ AccountsHold
    BY DEF AccountInv
  <2>2. PICK sigma, s0, t :
          /\ Stamps(sigma, s0, t)
          /\ Accounted(ActsOf(up, degraded), Size(rows), HeldBy(rows, op),
                       row_count, put_count, sigma, s0)
    BY <2>1 DEF AccountsHold
  <2>3. Counters(ActsOf(up, degraded), Size(rows), HeldBy(rows, op), row_count, put_count)
    BY <2>1, StateCounters
  <2>4. Size(rows) <= MaxRows + Spare
    BY <2>2, <2>3, AccountsBoundFile
  <2> QED
    BY <2>1, <2>4 DEF FileSound, FileBounded, Spare
<1> QED
  BY <1>1, InitAccounts, NextAccounts, PTL DEF Spec
=============================================================================
