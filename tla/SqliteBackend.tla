--------------------------- MODULE SqliteBackend ---------------------------
(***************************************************************************)
(* One database file shared by several processes:                          *)
(* furl_ctx/cache/backends/sqlite.py, class SqliteBackend.                  *)
(*                                                                         *)
(* `rows' is the table of the file.  A write transaction is one step: the   *)
(* file's writer lock is taken by its first write statement and held to     *)
(* the commit.  What comes before that statement runs in autocommit, so     *)
(* another process may write in between: the SELECT that decides whether a  *)
(* put inserts or replaces, and the read a retrieve's access bookkeeping    *)
(* writes back.                                                            *)
(*                                                                         *)
(* Each process serialises its own operations (CompressionStore's lock),    *)
(* keeps its own maintained row count and its own in-process fallback.      *)
(***************************************************************************)
EXTENDS Integers, FiniteSets

CONSTANTS
  Procs,       \* processes that open the file
  Keys,        \* hash keys
  TTLs,        \* ttl values of the entries put
  MaxRows,     \* self._max_rows
  PurgeEvery,  \* self._purge_every_n_puts
  NIL,         \* no entry, no operation
  ClockStep,   \* how far the clock moves at a time
  MaxTime,     \* bound on the clock
  MaxKept,     \* bound on the entries a process keeps in its fallback
  MaxDrift     \* bound on how far a maintained count may fall below zero

ASSUME BackendAssumption ==
  /\ IsFiniteSet(Keys)
  /\ IsFiniteSet(Procs) /\ Procs # {}
  /\ TTLs \subseteq Nat \ {0}
  /\ MaxRows \in Nat \ {0}
  /\ PurgeEvery \in Nat \ {0}
  /\ ClockStep \in Nat \ {0}
  /\ MaxTime \in Nat
  /\ MaxKept \in Nat \ {0}
  /\ MaxDrift \in Nat

VARIABLES
  now,         \* time.time()
  rows,        \* the file: Keys -> entry or NIL
  up,          \* processes that have the file open
  degraded,    \* self._degraded
  row_count,   \* self._row_count
  put_count,   \* self._put_count, modulo PurgeEvery
  memory,      \* self._memory: Keys -> entry or NIL
  op           \* the put a process is in the middle of, or NIL

vars == <<now, rows, up, degraded, row_count, put_count, memory, op>>

Entry == [created : 0..MaxTime, ttl : TTLs]
OptEntry == Entry \cup {NIL}

ASSUME NILAssumption == NIL \notin Entry

\* phase "read": an entry was read and will be written back; phase "checked":
\* the SELECT has answered whether the key exists.
Put == [key : Keys, entry : Entry, phase : {"read", "checked"},
        existed : BOOLEAN, access : BOOLEAN]

Empty == [k \in Keys |-> NIL]
Live(table) == {k \in Keys : table[k] # NIL}
Size(table) == Cardinality(Live(table))
Without(table, K) == [k \in Keys |-> IF k \in K THEN NIL ELSE table[k]]

IsExpired(e) == e.created + e.ttl < now
Expired(table) == {k \in Live(table) : IsExpired(table[k])}

\* get: the file first, then the fallback; the fallback alone once degraded.
Get(p, k) ==
  IF ~degraded[p] /\ rows[k] # NIL THEN rows[k] ELSE memory[p][k]

\* Another process may hold the writer lock through every retry.
Contended(p) == up \ {p} # {}

\* How a file operation that fails leaves the process: lock contention fails
\* open for this operation, anything else degrades the process for good.
FailOpen(p) ==
  \/ Contended(p) /\ UNCHANGED degraded
  \/ degraded' = [degraded EXCEPT ![p] = TRUE]

Idle(p) == p \in up /\ op[p] = NIL

-----------------------------------------------------------------------------
Init ==
  /\ now = 0
  /\ rows = Empty
  /\ up = {}
  /\ degraded = [p \in Procs |-> FALSE]
  /\ row_count = [p \in Procs |-> 0]
  /\ put_count = [p \in Procs |-> 0]
  /\ memory = [p \in Procs |-> Empty]
  /\ op = [p \in Procs |-> NIL]

\* __init__ and _initialize: purge what expired while the process was down and
\* seed the row count; a failure, contention included, degrades the process.
Open(p) ==
  /\ p \notin up
  /\ up' = up \cup {p}
  /\ put_count' = [put_count EXCEPT ![p] = 0]
  /\ memory' = [memory EXCEPT ![p] = Empty]
  /\ \/ /\ rows' = Without(rows, Expired(rows))
        /\ row_count' = [row_count EXCEPT ![p] = Size(rows')]
        /\ degraded' = [degraded EXCEPT ![p] = FALSE]
     \/ /\ row_count' = [row_count EXCEPT ![p] = 0]
        /\ degraded' = [degraded EXCEPT ![p] = TRUE]
        /\ UNCHANGED rows
  /\ UNCHANGED <<now, op>>

\* set_durable, up to the answer of its SELECT.
SetCheck(p) ==
  /\ Idle(p) /\ ~degraded[p]
  /\ \E k \in Keys, ttl \in TTLs :
       op' = [op EXCEPT ![p] =
                [key |-> k, entry |-> [created |-> now, ttl |-> ttl],
                 phase |-> "checked", existed |-> rows[k] # NIL, access |-> FALSE]]
  /\ UNCHANGED <<now, rows, up, degraded, row_count, put_count, memory>>

\* A retrieve reads a live entry; its access bookkeeping is put back later.
ReadForAccess_Unchecked(p) ==
  /\ Idle(p) /\ ~degraded[p]
  /\ \E k \in Keys :
       op' = [op EXCEPT ![p] =
                [key |-> k, entry |-> Get(p, k),
                 phase |-> "read", existed |-> FALSE, access |-> TRUE]]
  /\ UNCHANGED <<now, rows, up, degraded, row_count, put_count, memory>>
ReadForAccess(p) ==
  /\ Idle(p) /\ ~degraded[p]
  /\ \E k \in Keys :
       /\ Get(p, k) # NIL /\ ~IsExpired(Get(p, k))
       /\ op' = [op EXCEPT ![p] =
                   [key |-> k, entry |-> Get(p, k),
                    phase |-> "read", existed |-> FALSE, access |-> TRUE]]
  /\ UNCHANGED <<now, rows, up, degraded, row_count, put_count, memory>>

\* The SELECT of that put, or of a put retried after lock contention.
SetRecheck(p) ==
  /\ p \in up /\ op[p] # NIL
  /\ op' = [op EXCEPT ![p].phase = "checked", ![p].existed = (rows[op[p].key] # NIL)]
  /\ UNCHANGED <<now, rows, up, degraded, row_count, put_count, memory>>

Checked(p) == p \in up /\ op[p] # NIL /\ op[p].phase = "checked"

Upserted(p) == [rows EXCEPT ![op[p].key] = op[p].entry]

\* Every PurgeEvery-th put purges expired rows and recounts the file.
PurgeNow(p) == (put_count[p] + 1) % PurgeEvery = 0
BeforeCap(p) ==
  IF PurgeNow(p) THEN Without(Upserted(p), Expired(Upserted(p))) ELSE Upserted(p)
Counted_IgnoringReplace(p) ==
  IF PurgeNow(p) THEN Size(BeforeCap(p)) ELSE row_count[p] + 1
Counted_NeverResynced(p) ==
  IF op[p].existed THEN row_count[p] ELSE row_count[p] + 1
Counted(p) ==
  IF PurgeNow(p) THEN Size(BeforeCap(p))
  ELSE IF op[p].existed THEN row_count[p] ELSE row_count[p] + 1

\* The rows the cap evicts: as many of the oldest as the count is over.
CapVictims(table, over) ==
  {V \in SUBSET Live(table) :
     /\ Cardinality(V) = IF over <= 0 THEN 0
                         ELSE IF over > Size(table) THEN Size(table) ELSE over
     /\ \A v \in V, u \in Live(table) \ V : table[v].created <= table[u].created}

\* The transaction of _sqlite_set; the fallback's shadow is dropped.
SetCommit(p) ==
  /\ Checked(p)
  /\ \E V \in CapVictims(BeforeCap(p), Counted(p) - MaxRows) :
       /\ rows' = Without(BeforeCap(p), V)
       /\ row_count' = [row_count EXCEPT ![p] = Counted(p) - Cardinality(V)]
  /\ put_count' = [put_count EXCEPT ![p] = (@ + 1) % PurgeEvery]
  /\ memory' = [memory EXCEPT ![p][op[p].key] = NIL]
  /\ op' = [op EXCEPT ![p] = NIL]
  /\ UNCHANGED <<now, up, degraded>>

\* The put fails: the entry is retained in this process only.
SetLost(p) ==
  /\ Checked(p)
  /\ memory' = [memory EXCEPT ![p][op[p].key] = op[p].entry]
  /\ Size(memory'[p]) <= MaxKept
  /\ FailOpen(p)
  /\ op' = [op EXCEPT ![p] = NIL]
  /\ UNCHANGED <<now, rows, up, row_count, put_count>>

\* set_durable of a degraded process.
SetDegraded(p) ==
  /\ Idle(p) /\ degraded[p]
  /\ \E k \in Keys, ttl \in TTLs :
       memory' = [memory EXCEPT ![p][k] = [created |-> now, ttl |-> ttl]]
  /\ Size(memory'[p]) <= MaxKept
  /\ UNCHANGED <<now, rows, up, degraded, row_count, put_count, op>>

\* delete, purge_expired and clear: K goes from both tiers, or from the
\* fallback alone when the file operation fails; the count drops by what went.
Remove(p, K, memK, counted) ==
  /\ Idle(p)
  /\ memory' = [memory EXCEPT ![p] = Without(@, memK)]
  /\ \/ /\ ~degraded[p]
        /\ rows' = Without(rows, K)
        /\ row_count' = [row_count EXCEPT ![p] = counted]
        /\ row_count'[p] >= -MaxDrift
        /\ UNCHANGED degraded
     \/ /\ IF degraded[p] THEN UNCHANGED degraded ELSE FailOpen(p)
        /\ UNCHANGED <<rows, row_count>>
  /\ UNCHANGED <<now, up, put_count, op>>

Delete_Uncounted(p, k) == Remove(p, {k}, {k}, row_count[p])
Delete(p, k) == Remove(p, {k}, {k}, row_count[p] - Cardinality(Live(rows) \cap {k}))
PurgeExpired(p) ==
  Remove(p, Expired(rows), Expired(memory[p]), row_count[p] - Cardinality(Expired(rows)))
Clear(p) == Remove(p, Keys, Keys, 0)

\* The process ends, or dies in the middle of a put.
Exit(p) ==
  /\ p \in up
  /\ up' = up \ {p}
  /\ op' = [op EXCEPT ![p] = NIL]
  /\ memory' = [memory EXCEPT ![p] = Empty]
  /\ degraded' = [degraded EXCEPT ![p] = FALSE]
  /\ row_count' = [row_count EXCEPT ![p] = 0]
  /\ put_count' = [put_count EXCEPT ![p] = 0]
  /\ UNCHANGED <<now, rows>>

Tick ==
  /\ now' = now + ClockStep
  /\ now' <= MaxTime
  /\ UNCHANGED <<rows, up, degraded, row_count, put_count, memory, op>>

ProcStep(p) ==
  \/ Open(p)
  \/ SetCheck(p)
  \/ ReadForAccess(p)
  \/ SetRecheck(p)
  \/ SetCommit(p)
  \/ SetLost(p)
  \/ SetDegraded(p)
  \/ \E k \in Keys : Delete(p, k)
  \/ PurgeExpired(p)
  \/ Clear(p)
  \/ Exit(p)

Next == Tick \/ \E p \in Procs : ProcStep(p)

Spec == Init /\ [][Next]_vars

-----------------------------------------------------------------------------
TypeOK ==
  /\ now \in 0..MaxTime
  /\ rows \in [Keys -> OptEntry]
  /\ up \subseteq Procs
  /\ degraded \in [Procs -> BOOLEAN]
  /\ row_count \in [Procs -> Int]
  /\ put_count \in [Procs -> 0..(PurgeEvery - 1)]
  /\ memory \in [Procs -> [Keys -> OptEntry]]
  /\ op \in [Procs -> Put \cup {NIL}]

\* How far the maintained count is off, and whether the SELECT of the put in
\* progress has been overtaken by another process.
Drift(p) == row_count[p] - Size(rows)
Overtaken(p) == op[p] # NIL /\ op[p].existed # (rows[op[p].key] # NIL)

\* The maintained counter, kept by hand at every insert, replace, delete, purge,
\* clear and eviction in place of a COUNT(*), is never put off by the process's
\* own writes: the error is what other processes wrote since its last resync.
OwnWritesCounted ==
  [][\A p \in Procs :
        (p \in up /\ p \in up' /\ ~degraded'[p]) =>
          \/ Drift(p)' \in {Drift(p), 0}
          \/ SetCommit(p) /\ Overtaken(p)
          \/ ~ProcStep(p)]_vars

\* Processes that never see each other's writes still hold the shared file near
\* its cap: beyond what one process counts, each of the others can add at most
\* the puts between two of its own resyncs.
FileBounded == Size(rows) <= MaxRows + (Cardinality(Procs) - 1) * (PurgeEvery - 1)

\* The types, and that.
FileSound == TypeOK /\ FileBounded

\* A put that reports durability is in the file, unless the file really is over
\* its cap and the entry among the oldest, or rows that others deleted still
\* count towards the cap.
DurablePutLanded ==
  [][\A p \in Procs : SetCommit(p) =>
        \/ rows'[op[p].key] = op[p].entry
        \/ Size(Upserted(p)) > MaxRows
        \/ PurgeNow(p) /\ IsExpired(op[p].entry)
        \/ Drift(p) > 0 \/ Overtaken(p)]_vars

\* Recording an access never brings back an entry that is gone.
AccessNeverRevives ==
  [][\A p \in Procs : SetCommit(p) /\ op[p].access /\ memory[p][op[p].key] = NIL
        => rows[op[p].key] # NIL]_vars
=============================================================================
