-------------------------- MODULE InMemoryCcrStore --------------------------
(***************************************************************************)
(* The engine's store of dropped rows:                                     *)
(* crates/furl-core/src/ccr/backends/in_memory.rs, shared by worker threads. *)
(*                                                                         *)
(* `map' is the DashMap: one step per shard-locked access.  `order' is the  *)
(* FIFO of (key, generation) tokens behind its own mutex, whose holder is   *)
(* `lock'.  A put claims a generation, probes the map, and only then takes  *)
(* the mutex; a refresh, a reap and a collision drop change the map without *)
(* it, so they interleave with the eviction loop of another thread.         *)
(***************************************************************************)
EXTENDS Integers, Sequences, FiniteSets, Functions

CONSTANTS
  Keys,       \* hashes
  Payloads,   \* contents; two of them under one key is a hash collision
  Threads,    \* worker threads
  Capacity,   \* self.capacity
  TTL,        \* self.ttl
  NIL,        \* absent
  MaxTime,    \* bound on the clock
  MaxPuts     \* bound on the puts, hence on the generations

ASSUME CcrAssumption ==
  /\ IsFiniteSet(Keys) /\ IsFiniteSet(Threads)
  /\ Capacity \in Nat \ {0}
  /\ TTL \in Nat
  /\ MaxTime \in Nat
  /\ MaxPuts \in Nat

VARIABLES
  now,         \* Instant::now
  map,         \* Keys -> entry or NIL
  order,       \* the queue of tokens
  lock,        \* holder of the order mutex
  generation,  \* the next generation
  pc,          \* where each thread is
  arg          \* the key, payload and generation it works on

vars == <<now, map, order, lock, generation, pc, arg>>

Entry == [payload : Payloads, inserted : 0..MaxTime, gen : 0..(MaxPuts - 1)]
OptEntry == Entry \cup {NIL}
Token == Keys \X (0..(MaxPuts - 1))
Work == [key : Keys, payload : Payloads, gen : 0..(MaxPuts - 1)]

ASSUME NILAssumption == NIL \notin Threads \cup Entry \cup Work

Live == {k \in Keys : map[k] # NIL}
Size == Cardinality(Live)
IsExpired(e) == now - e.inserted > TTL

Stamped(t) == [payload |-> arg[t].payload, inserted |-> now, gen |-> arg[t].gen]

Goto(t, label) == pc' = [pc EXCEPT ![t] = label]

-----------------------------------------------------------------------------
Init ==
  /\ now = 0
  /\ map = [k \in Keys |-> NIL]
  /\ order = <<>>
  /\ lock = NIL
  /\ generation = 0
  /\ pc = [t \in Threads |-> "idle"]
  /\ arg = [t \in Threads |-> NIL]

\* put: claim a generation.
PutCall(t) ==
  /\ pc[t] = "idle"
  /\ generation < MaxPuts
  /\ \E k \in Keys, c \in Payloads :
       arg' = [arg EXCEPT ![t] = [key |-> k, payload |-> c, gen |-> generation]]
  /\ generation' = generation + 1
  /\ Goto(t, "probe")
  /\ UNCHANGED <<now, map, order, lock>>

\* get_mut finds the same payload: refresh the entry under its shard lock.
ProbeRefresh(t) ==
  /\ pc[t] = "probe"
  /\ LET k == arg[t].key IN
     /\ map[k] # NIL /\ map[k].payload = arg[t].payload
     /\ map' = [map EXCEPT ![k] = Stamped(t)]
  /\ Goto(t, "push")
  /\ UNCHANGED <<now, order, lock, generation, arg>>

\* get_mut finds another payload, or nothing.
ProbeMiss(t) ==
  /\ pc[t] = "probe"
  /\ LET k == arg[t].key IN
     \/ map[k] # NIL /\ map[k].payload # arg[t].payload /\ Goto(t, "collide")
     \/ map[k] = NIL /\ Goto(t, "enter")
  /\ UNCHANGED <<now, map, order, lock, generation, arg>>

Done(t) == Goto(t, "idle") /\ arg' = [arg EXCEPT ![t] = NIL]

\* Drop the ambiguous binding, unless it is no longer one.
DropCollision(t) ==
  /\ pc[t] = "collide"
  /\ LET k == arg[t].key IN
     map' = IF map[k] # NIL /\ map[k].payload # arg[t].payload
              THEN [map EXCEPT ![k] = NIL] ELSE map
  /\ Done(t)
  /\ UNCHANGED <<now, order, lock, generation>>

\* The queue is rebuilt from the live entries, by generation, when it outgrows
\* the capacity.
Tokens == {<<k, map[k].gen>> : k \in Live}
Compacted_Never(queue) == queue
Compacted(queue) ==
  IF Len(queue) > 2 * Capacity
    THEN CHOOSE sorted \in [1..Cardinality(Tokens) -> Tokens] :
           \A i, j \in DOMAIN sorted : i < j => sorted[i][2] < sorted[j][2]
    ELSE queue

\* The refresh pushes its token, under the order mutex.
PushRefreshed_Forgotten(t) ==
  /\ pc[t] = "push"
  /\ lock = NIL
  /\ Done(t)
  /\ UNCHANGED <<now, map, order, lock, generation>>
PushRefreshed(t) ==
  /\ pc[t] = "push"
  /\ lock = NIL
  /\ order' = Compacted(Append(order, <<arg[t].key, arg[t].gen>>))
  /\ Done(t)
  /\ UNCHANGED <<now, map, lock, generation>>

\* A new entry: take the order mutex.
Enter_Unlocked(t) ==
  /\ pc[t] = "enter"
  /\ lock' = t
  /\ Goto(t, "evict")
  /\ UNCHANGED <<now, map, order, generation, arg>>
Enter(t) ==
  /\ pc[t] = "enter"
  /\ lock = NIL
  /\ lock' = t
  /\ Goto(t, "evict")
  /\ UNCHANGED <<now, map, order, generation, arg>>

\* One turn of evict_until_under_capacity: pop a token and remove the entry it
\* names if the generation is still the token's.
EvictTurn_Peek(t) ==
  /\ pc[t] = "evict"
  /\ Size >= Capacity /\ order # <<>>
  /\ LET k == Head(order)[1] IN
     map' = IF map[k] # NIL /\ map[k].gen = Head(order)[2]
              THEN [map EXCEPT ![k] = NIL] ELSE map
  /\ UNCHANGED <<now, order, lock, generation, pc, arg>>
EvictTurn(t) ==
  /\ pc[t] = "evict"
  /\ Size >= Capacity /\ order # <<>>
  /\ LET k == Head(order)[1] IN
     map' = IF map[k] # NIL /\ map[k].gen = Head(order)[2]
              THEN [map EXCEPT ![k] = NIL] ELSE map
  /\ order' = Tail(order)
  /\ UNCHANGED <<now, lock, generation, pc, arg>>

\* The loop is over, below capacity or out of tokens: insert.
Insert_Unevicted(t) ==
  /\ pc[t] = "evict"
  /\ map' = [map EXCEPT ![arg[t].key] = Stamped(t)]
  /\ Goto(t, "record")
  /\ UNCHANGED <<now, order, lock, generation, arg>>
Insert(t) ==
  /\ pc[t] = "evict"
  /\ Size < Capacity \/ order = <<>>
  /\ map' = [map EXCEPT ![arg[t].key] = Stamped(t)]
  /\ Goto(t, "record")
  /\ UNCHANGED <<now, order, lock, generation, arg>>

\* Record the insertion and release the mutex.
Record(t) ==
  /\ pc[t] = "record"
  /\ order' = Compacted(Append(order, <<arg[t].key, arg[t].gen>>))
  /\ lock' = NIL
  /\ Done(t)
  /\ UNCHANGED <<now, map, generation>>

\* get sees an expired entry; what it sees otherwise changes nothing.
GetExpired(t) ==
  /\ pc[t] = "idle"
  /\ \E k \in Live :
       /\ IsExpired(map[k])
       /\ arg' = [arg EXCEPT ![t] = [key |-> k, payload |-> map[k].payload, gen |-> map[k].gen]]
  /\ Goto(t, "reap")
  /\ UNCHANGED <<now, map, order, lock, generation>>

\* remove_if: reap it only if it is still expired.
Reap_Unchecked(t) ==
  /\ pc[t] = "reap"
  /\ map' = [map EXCEPT ![arg[t].key] = NIL]
  /\ Done(t)
  /\ UNCHANGED <<now, order, lock, generation>>
Reap(t) ==
  /\ pc[t] = "reap"
  /\ LET k == arg[t].key IN
     map' = IF map[k] # NIL /\ IsExpired(map[k]) THEN [map EXCEPT ![k] = NIL] ELSE map
  /\ Done(t)
  /\ UNCHANGED <<now, order, lock, generation>>

Tick ==
  /\ now < MaxTime
  /\ now' = now + 1
  /\ UNCHANGED <<map, order, lock, generation, pc, arg>>

LockedStep(t) == EvictTurn(t) \/ Insert(t) \/ Record(t)

Step(t) ==
  \/ PutCall(t)
  \/ ProbeRefresh(t)
  \/ ProbeMiss(t)
  \/ DropCollision(t)
  \/ PushRefreshed(t)
  \/ Enter(t)
  \/ LockedStep(t)
  \/ GetExpired(t)
  \/ Reap(t)

Next == Tick \/ \E t \in Threads : Step(t)

Spec == Init /\ [][Next]_vars

\* A thread inside the mutex is scheduled until it leaves it.
FairSpec == Spec /\ \A t \in Threads : WF_vars(LockedStep(t))

-----------------------------------------------------------------------------
Labels == {"idle", "probe", "collide", "push", "enter", "evict", "record", "reap"}

TypeOK ==
  /\ now \in 0..MaxTime
  /\ map \in [Keys -> OptEntry]
  /\ order \in Seq(Token)
  /\ lock \in Threads \cup {NIL}
  /\ generation \in 0..MaxPuts
  /\ pc \in [Threads -> Labels]
  /\ arg \in [Threads -> Work \cup {NIL}]
  /\ \A t \in Threads : (pc[t] \in {"evict", "record"}) <=> (lock = t)

\* Every live entry can be evicted: its token is queued, or the thread that
\* stamped it is about to queue it.  An entry without a token would hold a slot
\* of the map for good.
TokenForEveryEntry ==
  \A k \in Live :
    \/ <<k, map[k].gen>> \in Range(order)
    \/ \E t \in Threads :
         pc[t] \in {"push", "record"} /\ arg[t].key = k /\ arg[t].gen = map[k].gen

\* Racing refreshes can hide an entry from the eviction loop, at most one for
\* each of the other threads: with more threads than capacity the map holds at
\* most one entry a thread.
MostEntries == IF Capacity >= Cardinality(Threads) THEN Capacity ELSE Cardinality(Threads)
MapBounded == Size <= MostEntries

\* Tombstones do not accumulate: the queue stays within its compaction bound, or
\* holds no more than the entries it was rebuilt from.
QueueBounded == Len(order) <= 2 * Capacity \/ Len(order) <= MostEntries

\* The queue and the map agree: the types, a token for every entry, and the bounds.
QueueSound == TypeOK /\ TokenForEveryEntry /\ MapBounded /\ QueueBounded

\* The reap of an expired entry never takes one that a put refreshed after the
\* expiry was seen.
ReapSparesFresh ==
  [][\A t \in Threads : Reap(t) =>
        \A k \in Live : IsExpired(map[k]) \/ map'[k] = map[k]]_vars

\* The order mutex is always released: the loop ends whatever the other threads
\* do to the map meanwhile.
MutexReleased == \A t \in Threads : (lock = t) ~> (lock # t)
=============================================================================
