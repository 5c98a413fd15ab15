-------------------------- MODULE InMemoryCcrProofs --------------------------
(***************************************************************************)
(* The engine's store (InMemoryCcrStore), for any keys, threads, capacity   *)
(* and interleaving.                                                       *)
(*                                                                         *)
(* The bounds rest on the tokens: when the eviction loop runs out of them,  *)
(* each entry left is one that another thread has stamped and not yet       *)
(* queued, so there are fewer of them than threads.  A rebuilt queue has    *)
(* the tokens it is rebuilt from because no two entries share a generation, *)
(* and that holds because a generation is claimed before it is stamped and  *)
(* stamped once.                                                           *)
(***************************************************************************)
EXTENDS InMemoryCcrStore, FiniteSetTheorems, SequenceTheorems, TLAPS

\* A put that has not stamped an entry yet; one that has claimed a generation.
Early == {"probe", "collide", "enter", "evict"}
Putting == Early \cup {"push", "record"}

\* A thread at work has arguments.
ArgsOK == \A t \in Threads : pc[t] # "idle" => arg[t] \in Work

\* Generations are claimed in turn, and an unstamped one is nobody else's.
Generations ==
  /\ \A t \in Threads : pc[t] \in Putting => arg[t].gen < generation
  /\ \A k \in Live : map[k].gen < generation
  /\ \A t, u \in Threads :
       pc[t] \in Putting /\ pc[u] \in Putting /\ arg[t].gen = arg[u].gen => t = u
  /\ \A t \in Threads, k \in Live : pc[t] \in Early => map[k].gen # arg[t].gen
  /\ \A j, k \in Live : map[j].gen = map[k].gen => j = k

IInv == TypeOK /\ ArgsOK /\ Generations /\ TokenForEveryEntry /\ MapBounded /\ QueueBounded

-----------------------------------------------------------------------------
(* The operators.                                                          *)

LEMMA LiveFinite == IsFiniteSet(Live) /\ Size \in Nat
BY CcrAssumption, FS_Subset, FS_CardinalityType DEF Live, Size

LEMMA ThreadsCount == Cardinality(Threads) \in Nat /\ Capacity \in Nat /\ MostEntries \in Nat
BY CcrAssumption, FS_CardinalityType DEF MostEntries

\* There is one token for each live entry.
LEMMA TokensCount ==
  ASSUME TypeOK
  PROVE  /\ Tokens \subseteq Token
         /\ IsFiniteSet(Tokens) /\ Cardinality(Tokens) \in Nat /\ Cardinality(Tokens) <= Size
<1>1. \A k \in Live : <<k, map[k].gen>> \in Token
  BY DEF TypeOK, Live, OptEntry, Entry, Token
<1> DEFINE f == [k \in Live |-> <<k, map[k].gen>>]
<1>2. f \in Surjection(Live, Tokens)
  BY DEF Surjection, Tokens
<1> HIDE DEF f
<1>3. IsFiniteSet(Tokens) /\ Cardinality(Tokens) <= Cardinality(Live)
  BY <1>2, LiveFinite, FS_Surjection
<1>4. Tokens \subseteq Token
  BY <1>1 DEF Tokens
<1> QED BY <1>3, <1>4, FS_CardinalityType DEF Size

\* The tokens can be sorted: the place of each is the number of those before it.
LEMMA TokensSort ==
  ASSUME TypeOK, Generations
  PROVE  \E sorted \in [1..Cardinality(Tokens) -> Tokens] :
           \A i, j \in DOMAIN sorted : i < j => sorted[i][2] < sorted[j][2]
<1> DEFINE n == Cardinality(Tokens)
<1>1. IsFiniteSet(Tokens) /\ n \in Nat
  BY TokensCount
<1>2. \A x \in Tokens : x[2] \in Nat
  BY TokensCount, CcrAssumption DEF Token
<1>3. ASSUME NEW x \in Tokens, NEW y \in Tokens, x[2] = y[2] PROVE x = y
  <2>1. PICK j \in Live : x = <<j, map[j].gen>>
    BY DEF Tokens
  <2>2. PICK k \in Live : y = <<k, map[k].gen>>
    BY DEF Tokens
  <2> QED BY <1>3, <2>1, <2>2 DEF Generations
<1> DEFINE Upto(x) == {y \in Tokens : y[2] <= x[2]}
           place == [x \in Tokens |-> Cardinality(Upto(x))]
<1>4. ASSUME NEW x \in Tokens PROVE place[x] \in 1..n
  <2>1. Upto(x) \subseteq Tokens /\ x \in Upto(x)
    BY <1>2
  <2>2. IsFiniteSet(Upto(x)) /\ Cardinality(Upto(x)) \in Nat /\ Cardinality(Upto(x)) <= n
    BY <1>1, <2>1, FS_Subset, FS_CardinalityType
  <2>3. Cardinality(Upto(x)) # 0
    BY <2>1, <2>2, FS_EmptySet
  <2> QED BY <1>1, <2>2, <2>3
<1>5. ASSUME NEW x \in Tokens, NEW y \in Tokens, x[2] < y[2] PROVE place[x] < place[y]
  <2>1. Upto(x) \subseteq Upto(y) /\ y \in Upto(y) /\ y \notin Upto(x)
    BY <1>2, <1>5
  <2>2. IsFiniteSet(Upto(y)) /\ IsFiniteSet(Upto(x))
    BY <1>1, FS_Subset
  <2>3. Cardinality(Upto(x)) < Cardinality(Upto(y))
    <3> HIDE DEF Upto
    <3>1. Upto(x) # Upto(y)
      BY <2>1
    <3>2. Cardinality(Upto(x)) \in Nat /\ Cardinality(Upto(y)) \in Nat
      BY <2>2, FS_CardinalityType
    <3> QED BY <2>1, <2>2, <3>1, <3>2, FS_Subset
  <2> QED BY <2>3
<1> HIDE DEF place, Upto, n
<1>6. place \in Injection(Tokens, 1..n)
  <2>1. place \in [Tokens -> 1..n]
    BY <1>4 DEF place
  <2>2. \A x, y \in Tokens : place[x] = place[y] => x = y
    BY <1>1, <1>2, <1>3, <1>4, <1>5
  <2> QED BY <2>1, <2>2 DEF Injection, IsInjective
<1>7. IsFiniteSet(1..n) /\ Cardinality(1..n) = n
  BY <1>1, FS_Interval
<1>8. \A i \in 1..n : \E x \in Tokens : place[x] = i
  <2>1. place \in Surjection(Tokens, 1..n)
    BY <1>6, <1>7, FS_Injection DEF n
  <2> QED BY <2>1 DEF Surjection
<1> DEFINE sorted == [i \in 1..n |-> CHOOSE x \in Tokens : place[x] = i]
<1>9. \A i \in 1..n : sorted[i] \in Tokens /\ place[sorted[i]] = i
  BY <1>8
<1>10. \A i, j \in 1..n : i < j => sorted[i][2] < sorted[j][2]
  <2> SUFFICES ASSUME NEW i \in 1..n, NEW j \in 1..n, i < j, ~(sorted[i][2] < sorted[j][2])
               PROVE  FALSE
    OBVIOUS
  <2>1. sorted[i] \in Tokens /\ sorted[j] \in Tokens /\ place[sorted[i]] < place[sorted[j]]
    BY <1>9
  <2>2. sorted[i][2] \in Nat /\ sorted[j][2] \in Nat
    BY <1>2, <2>1
  <2>3. CASE sorted[i][2] = sorted[j][2]
    BY <1>1, <1>3, <1>4, <2>1, <2>3
  <2>4. CASE sorted[j][2] < sorted[i][2]
    <3>1. place[sorted[j]] < place[sorted[i]]
      BY <1>5, <2>1, <2>4
    <3>2. place[sorted[i]] \in Nat /\ place[sorted[j]] \in Nat
      BY <1>1, <1>4, <2>1
    <3> QED BY <2>1, <3>1, <3>2
  <2> QED BY <2>2, <2>3, <2>4
<1>11. sorted \in [1..n -> Tokens]
  BY <1>9
<1> QED BY <1>10, <1>11 DEF n

\* A compacted queue is a queue of tokens, loses no live entry's and is bounded.
LEMMA CompactedQueue ==
  ASSUME TypeOK, Generations, NEW queue \in Seq(Token), Size <= MostEntries
  PROVE  /\ Compacted(queue) \in Seq(Token)
         /\ \A k \in Live : <<k, map[k].gen>> \in Range(queue)
                              => <<k, map[k].gen>> \in Range(Compacted(queue))
         /\ Len(Compacted(queue)) <= 2 * Capacity \/ Len(Compacted(queue)) <= MostEntries
<1>1. CASE ~(Len(queue) > 2 * Capacity)
  <2>1. Compacted(queue) = queue
    BY <1>1 DEF Compacted
  <2>2. Len(queue) <= 2 * Capacity
    BY <1>1, ThreadsCount
  <2> QED BY <2>1, <2>2
<1>2. CASE Len(queue) > 2 * Capacity
  <2> DEFINE q == Compacted(queue)
             n == Cardinality(Tokens)
  <2>1. q \in [1..n -> Tokens] /\ \A i, j \in DOMAIN q : i < j => q[i][2] < q[j][2]
    BY <1>2, TokensSort DEF Compacted
  <2>2. n \in Nat /\ n <= Size /\ Tokens \subseteq Token /\ IsFiniteSet(Tokens)
    BY TokensCount
  <2> HIDE DEF q, n
  <2>3. q \in Seq(Token) /\ Len(q) = n
    BY <2>1, <2>2
  <2>4. Len(q) <= MostEntries
    BY <2>2, <2>3, LiveFinite, ThreadsCount
  <2>5. q \in Surjection(1..n, Tokens)
    <3>1. \A x \in Tokens : x[2] \in Nat
      BY <2>2, CcrAssumption DEF Token
    <3>2. \A i, j \in 1..n : q[i] = q[j] => i = j
      BY <2>1, <2>2, <3>1
    <3>3. q \in Injection(1..n, Tokens)
      BY <2>1, <3>2 DEF Injection, IsInjective
    <3>4. Cardinality(1..n) = n
      BY <2>2, FS_Interval
    <3> QED BY <2>2, <3>3, <3>4, FS_Injection DEF n
  <2>6. \A k \in Live : <<k, map[k].gen>> \in Range(q)
    BY <2>5 DEF Surjection, Tokens, Range
  <2> QED BY <2>3, <2>4, <2>6 DEF q
<1> QED BY <1>1, <1>2
-----------------------------------------------------------------------------
(* The parts, action by action.                                            *)

\* A step that changes at most the threads' place and arguments and removes
\* entries keeps the generations.
LEMMA GenerationsKept ==
  ASSUME TypeOK, Generations, NEW t \in Threads,
         \A k \in Keys : map'[k] \in {map[k], NIL},
         generation' = generation,
         \A u \in Threads \ {t} : pc'[u] = pc[u] /\ arg'[u] = arg[u],
         pc'[t] \in Putting => pc[t] \in Putting /\ arg'[t] = arg[t],
         pc'[t] \in Early => pc[t] \in Early
  PROVE  Generations'
<1>1. \A k \in Live' : k \in Live /\ map'[k] = map[k]
  BY DEF Live
<1>2. \A u \in Threads : /\ pc'[u] \in Putting => pc[u] \in Putting /\ arg'[u] = arg[u]
                         /\ pc'[u] \in Early => pc[u] \in Early
  OBVIOUS
<1>3. Early \subseteq Putting
  BY DEF Early, Putting
<1> QED BY <1>1, <1>2, <1>3 DEF Generations

\* A put stamps an entry with the generation it claimed, once.
LEMMA GenerationsStamped ==
  ASSUME TypeOK, ArgsOK, Generations, NEW t \in Threads, pc[t] \in Early,
         map' = [map EXCEPT ![arg[t].key] = Stamped(t)],
         generation' = generation, arg' = arg,
         pc'[t] \in {"push", "record"},
         \A u \in Threads \ {t} : pc'[u] = pc[u]
  PROVE  /\ Generations'
         /\ map' \in [Keys -> OptEntry] /\ arg[t].key \in Keys
         /\ Live' = Live \cup {arg[t].key}
         /\ map'[arg[t].key].gen = arg[t].gen
         /\ \A k \in Keys : k # arg[t].key => map'[k] = map[k]
<1> DEFINE key == arg[t].key
<1>1. arg[t] \in Work /\ key \in Keys
  BY DEF ArgsOK, Work, Early
<1>2. Stamped(t) \in Entry /\ Stamped(t).gen = arg[t].gen /\ Stamped(t) # NIL
  BY <1>1, NILAssumption DEF Stamped, Entry, Work, TypeOK
<1>3. map' \in [Keys -> OptEntry] /\ map'[key] = Stamped(t) /\ \A k \in Keys \ {key} : map'[k] = map[k]
  BY <1>1, <1>2 DEF TypeOK, OptEntry
<1>4. Live' = Live \cup {key}
  BY <1>1, <1>2, <1>3 DEF Live
<1>5. pc[t] \in Putting /\ Early \subseteq Putting /\ pc'[t] \notin Early /\ pc'[t] \in Putting
  BY DEF Early, Putting
<1> HIDE DEF key, Early, Putting
<1>6. /\ \A u \in Threads : pc'[u] \in Putting => pc[u] \in Putting
      /\ \A u \in Threads : pc'[u] \in Early => pc[u] \in Early /\ u # t
  BY <1>5
<1>7. Generations'
  <2>1. \A u \in Threads : pc'[u] \in Putting => arg'[u].gen < generation'
    BY <1>6 DEF Generations
  <2>2. \A k \in Live' : map'[k].gen < generation'
    BY <1>2, <1>3, <1>4, <1>5 DEF Generations, Live
  <2>3. \A u, v \in Threads :
          pc'[u] \in Putting /\ pc'[v] \in Putting /\ arg'[u].gen = arg'[v].gen => u = v
    BY <1>6 DEF Generations
  <2>4. \A u \in Threads, k \in Live' : pc'[u] \in Early => map'[k].gen # arg'[u].gen
    <3> SUFFICES ASSUME NEW u \in Threads, NEW k \in Live', pc'[u] \in Early
                 PROVE  map'[k].gen # arg[u].gen
      OBVIOUS
    <3>1. CASE k = key
      BY <1>2, <1>3, <1>5, <1>6, <3>1 DEF Generations
    <3>2. CASE k # key
      <4>1. k \in Live /\ map'[k] = map[k]
        BY <1>3, <1>4, <3>2 DEF Live
      <4> QED BY <1>6, <4>1 DEF Generations
    <3> QED BY <3>1, <3>2
  <2>5. \A j, k \in Live' : map'[j].gen = map'[k].gen => j = k
    <3> SUFFICES ASSUME NEW j \in Live', NEW k \in Live', map'[j].gen = map'[k].gen, j # k
                 PROVE  FALSE
      OBVIOUS
    <3>1. CASE j # key /\ k # key
      BY <1>3, <1>4, <3>1 DEF Generations, Live
    <3>2. CASE j = key
      BY <1>2, <1>3, <1>4, <3>2 DEF Generations, Live
    <3>3. CASE k = key
      BY <1>2, <1>3, <1>4, <3>3 DEF Generations, Live
    <3> QED BY <3>1, <3>2, <3>3
  <2> QED BY <2>1, <2>2, <2>3, <2>4, <2>5 DEF Generations
<1> QED BY <1>1, <1>2, <1>3, <1>4, <1>7 DEF key

\* Where the threads are goes with the lock, step by step.
LEMMA StepType ==
  ASSUME TypeOK, ArgsOK, NEW t \in Threads, Step(t),
         map' \in [Keys -> OptEntry], order' \in Seq(Token)
  PROVE  TypeOK' /\ ArgsOK' /\ \A u \in Threads \ {t} : pc'[u] = pc[u] /\ arg'[u] = arg[u]
<1>0. NIL \notin Threads /\ CcrAssumption
  BY NILAssumption, CcrAssumption
<1>1. now' = now
  BY DEF Step, PutCall, ProbeRefresh, ProbeMiss, DropCollision, PushRefreshed, Enter,
         LockedStep, EvictTurn, Insert, Record, GetExpired, Reap
<1>2. generation' \in 0..MaxPuts
  BY <1>0 DEF TypeOK, Step, PutCall, ProbeRefresh, ProbeMiss, DropCollision, PushRefreshed, Enter,
         LockedStep, EvictTurn, Insert, Record, GetExpired, Reap, CcrAssumption
<1>3. /\ arg' \in [Threads -> Work \cup {NIL}]
      /\ \A u \in Threads \ {t} : arg'[u] = arg[u]
      /\ pc'[t] # "idle" => arg'[t] \in Work
      /\ pc' \in [Threads -> Labels]
      /\ \A u \in Threads \ {t} : pc'[u] = pc[u]
  <2>1. CASE PutCall(t)
    <3>1. generation \in 0..(MaxPuts - 1)
      BY <1>0, <2>1 DEF PutCall, TypeOK, CcrAssumption
    <3>2. PICK k \in Keys, c \in Payloads :
            arg' = [arg EXCEPT ![t] = [key |-> k, payload |-> c, gen |-> generation]]
      BY <2>1 DEF PutCall
    <3>3. [key |-> k, payload |-> c, gen |-> generation] \in Work
      BY <3>1 DEF Work
    <3> QED BY <2>1, <3>2, <3>3 DEF PutCall, TypeOK, Goto, Labels
  <2>2. CASE GetExpired(t)
    <3>1. PICK k \in Live :
            arg' = [arg EXCEPT ![t] = [key |-> k, payload |-> map[k].payload, gen |-> map[k].gen]]
      BY <2>2 DEF GetExpired
    <3>2. [key |-> k, payload |-> map[k].payload, gen |-> map[k].gen] \in Work
      BY DEF Work, Live, TypeOK, OptEntry, Entry
    <3> QED BY <2>2, <3>1, <3>2 DEF GetExpired, TypeOK, Goto, Labels
  <2>3. CASE ~PutCall(t) /\ ~GetExpired(t)
    <3>1. /\ \/ arg' = arg /\ pc[t] # "idle"
             \/ arg' = [arg EXCEPT ![t] = NIL] /\ pc' = [pc EXCEPT ![t] = "idle"]
          /\ pc' = pc \/ \E label \in Labels : pc' = [pc EXCEPT ![t] = label]
      BY <2>3 DEF Step, ProbeRefresh, ProbeMiss, DropCollision, PushRefreshed, Enter,
         LockedStep, EvictTurn, Insert, Record, Reap, Goto, Done, Labels
    <3> QED BY <3>1 DEF TypeOK, ArgsOK
  <2> QED BY <2>1, <2>2, <2>3
<1>4. lock' \in Threads \cup {NIL} /\ \A u \in Threads : (pc'[u] \in {"evict", "record"}) <=> (lock' = u)
  <2>0. /\ \A u \in Threads : (pc[u] \in {"evict", "record"}) <=> (lock = u)
        /\ pc \in [Threads -> Labels] /\ lock \in Threads \cup {NIL}
    BY DEF TypeOK
  <2>1. CASE Enter(t)
    BY <1>0, <2>0, <2>1 DEF Enter, Goto
  <2>2. CASE Record(t)
    BY <1>0, <2>0, <2>2 DEF Record, Done, Goto
  <2>3. CASE EvictTurn(t) \/ Insert(t)
    BY <2>0, <2>3 DEF EvictTurn, Insert, Goto
  <2>4. CASE PutCall(t) \/ GetExpired(t)
    BY <2>0, <2>4 DEF PutCall, GetExpired, Goto
  <2>5. CASE ProbeRefresh(t) \/ ProbeMiss(t)
    BY <2>0, <2>5 DEF ProbeRefresh, ProbeMiss, Goto
  <2>6. CASE DropCollision(t) \/ PushRefreshed(t) \/ Reap(t)
    BY <2>0, <2>6 DEF DropCollision, PushRefreshed, Reap, Done, Goto
  <2> QED BY <2>1, <2>2, <2>3, <2>4, <2>5, <2>6 DEF Step, LockedStep
<1>5. TypeOK'
  BY <1>1, <1>2, <1>3, <1>4 DEF TypeOK
<1>6. ArgsOK'
  BY <1>3 DEF ArgsOK
<1> QED BY <1>3, <1>5, <1>6

\* The map has room for what it keeps.
LEMMA FewerEntries ==
  ASSUME MapBounded, \A k \in Keys : map'[k] \in {map[k], NIL}
  PROVE  MapBounded' /\ Live' \subseteq Live
<1>1. Live' \subseteq Live
  BY DEF Live
<1>2. Cardinality(Live') \in Nat /\ Cardinality(Live') <= Cardinality(Live)
  BY <1>1, LiveFinite, FS_Subset, FS_CardinalityType
<1> QED BY <1>1, <1>2, LiveFinite, ThreadsCount DEF MapBounded, Size, MostEntries

\* Out of tokens: each entry left is one that another thread is about to queue.
LEMMA OutOfTokens ==
  ASSUME TypeOK, TokenForEveryEntry, NEW t \in Threads, pc[t] = "evict", order = <<>>
  PROVE  Size <= Cardinality(Threads) - 1
<1> DEFINE holder == [k \in Live |-> CHOOSE u \in Threads : pc[u] \in {"push", "record"} /\ arg[u].key = k]
<1>1. \A k \in Live : \E u \in Threads : pc[u] \in {"push", "record"} /\ arg[u].key = k
  BY DEF TokenForEveryEntry, Range
<1>2. \A k \in Live : holder[k] \in Threads \ {t} /\ arg[holder[k]].key = k
  BY <1>1
<1>3. holder \in Injection(Live, Threads \ {t})
  BY <1>2 DEF Injection, IsInjective
<1> HIDE DEF holder
<1>4. IsFiniteSet(Threads \ {t}) /\ Cardinality(Threads \ {t}) = Cardinality(Threads) - 1
  BY CcrAssumption, FS_RemoveElement
<1> QED BY <1>3, <1>4, FS_Injection DEF Size

\* Every step that leaves the queue alone and stamps nothing.
LEMMA RemovalKeeps ==
  ASSUME IInv, NEW t \in Threads, Step(t),
         map' \in [Keys -> OptEntry], \A k \in Keys : map'[k] \in {map[k], NIL},
         order' = order, generation' = generation,
         pc[t] \notin {"push", "record"},
         pc'[t] \in Putting => pc[t] \in Putting /\ arg'[t] = arg[t],
         pc'[t] \in Early => pc[t] \in Early
  PROVE  IInv'
<1>1. TypeOK' /\ ArgsOK' /\ \A u \in Threads \ {t} : pc'[u] = pc[u] /\ arg'[u] = arg[u]
  BY StepType DEF IInv, TypeOK
<1>2. Generations'
  BY <1>1, GenerationsKept DEF IInv
<1>3. TokenForEveryEntry'
  <2> SUFFICES ASSUME NEW k \in Live'
               PROVE  \/ <<k, map'[k].gen>> \in Range(order)
                      \/ \E u \in Threads : /\ pc'[u] \in {"push", "record"}
                                            /\ arg'[u].key = k /\ arg'[u].gen = map'[k].gen
    BY DEF TokenForEveryEntry
  <2>1. k \in Live /\ map'[k] = map[k]
    BY DEF Live
  <2> QED BY <1>1, <2>1 DEF IInv, TokenForEveryEntry
<1>4. MapBounded' /\ QueueBounded'
  BY FewerEntries DEF IInv, QueueBounded, MostEntries
<1> QED BY <1>1, <1>2, <1>3, <1>4 DEF IInv
\* A put that found its payload stamps the entry and has its token to queue.
LEMMA ProbeRefreshKeeps == ASSUME IInv, NEW t \in Threads, ProbeRefresh(t) PROVE IInv'
<1>1. /\ pc[t] = "probe" /\ pc' = [pc EXCEPT ![t] = "push"]
      /\ map[arg[t].key] # NIL /\ map' = [map EXCEPT ![arg[t].key] = Stamped(t)]
      /\ UNCHANGED <<now, order, lock, generation, arg>>
      /\ pc \in [Threads -> Labels]
  BY DEF ProbeRefresh, Goto, IInv, TypeOK
<1>2. /\ Generations' /\ map' \in [Keys -> OptEntry] /\ arg[t].key \in Keys
      /\ Live' = Live \cup {arg[t].key} /\ map'[arg[t].key].gen = arg[t].gen
      /\ \A k \in Keys : k # arg[t].key => map'[k] = map[k]
  BY <1>1, GenerationsStamped DEF IInv, Early
<1>3. TypeOK' /\ ArgsOK'
  BY <1>1, <1>2, StepType DEF IInv, TypeOK, Step
<1>4. TokenForEveryEntry'
  <2> SUFFICES ASSUME NEW k \in Live'
               PROVE  \/ <<k, map'[k].gen>> \in Range(order)
                      \/ \E u \in Threads : /\ pc'[u] \in {"push", "record"}
                                            /\ arg[u].key = k /\ arg[u].gen = map'[k].gen
    BY <1>1 DEF TokenForEveryEntry
  <2>1. CASE k = arg[t].key
    BY <1>1, <1>2, <2>1
  <2>2. CASE k # arg[t].key
    <3>1. k \in Live /\ map'[k] = map[k]
      BY <1>2, <2>2 DEF Live
    <3>2. \A u \in Threads : pc[u] \in {"push", "record"} => pc'[u] = pc[u]
      BY <1>1
    <3> QED BY <3>1, <3>2 DEF IInv, TokenForEveryEntry
  <2> QED BY <2>1, <2>2
<1>5. Live' = Live
  BY <1>1, <1>2 DEF Live
<1>6. MapBounded' /\ QueueBounded'
  BY <1>1, <1>5 DEF IInv, MapBounded, QueueBounded, Size, MostEntries
<1> QED BY <1>2, <1>3, <1>4, <1>6 DEF IInv

\* A new entry is stamped under the mutex, below capacity or out of tokens.
LEMMA InsertKeeps == ASSUME IInv, NEW t \in Threads, Insert(t) PROVE IInv'
<1>1. /\ pc[t] = "evict" /\ pc' = [pc EXCEPT ![t] = "record"]
      /\ map' = [map EXCEPT ![arg[t].key] = Stamped(t)]
      /\ UNCHANGED <<now, order, lock, generation, arg>>
      /\ pc \in [Threads -> Labels]
  BY DEF Insert, Goto, IInv, TypeOK
<1>2. /\ Generations' /\ map' \in [Keys -> OptEntry] /\ arg[t].key \in Keys
      /\ Live' = Live \cup {arg[t].key} /\ map'[arg[t].key].gen = arg[t].gen
      /\ \A k \in Keys : k # arg[t].key => map'[k] = map[k]
  BY <1>1, GenerationsStamped DEF IInv, Early
<1>3. TypeOK' /\ ArgsOK'
  BY <1>1, <1>2, StepType DEF IInv, TypeOK, Step, LockedStep
<1>4. TokenForEveryEntry'
  <2> SUFFICES ASSUME NEW k \in Live'
               PROVE  \/ <<k, map'[k].gen>> \in Range(order)
                      \/ \E u \in Threads : /\ pc'[u] \in {"push", "record"}
                                            /\ arg[u].key = k /\ arg[u].gen = map'[k].gen
    BY <1>1 DEF TokenForEveryEntry
  <2>1. CASE k = arg[t].key
    BY <1>1, <1>2, <2>1
  <2>2. CASE k # arg[t].key
    <3>1. k \in Live /\ map'[k] = map[k]
      BY <1>2, <2>2 DEF Live
    <3>2. \A u \in Threads : pc[u] \in {"push", "record"} => pc'[u] = pc[u]
      BY <1>1
    <3> QED BY <3>1, <3>2 DEF IInv, TokenForEveryEntry
  <2> QED BY <2>1, <2>2
<1>5. MapBounded'
  <2>1. Cardinality(Live') <= Size + 1 /\ Cardinality(Live') \in Nat
    <3>1. /\ IsFiniteSet(Live \cup {arg[t].key})
          /\ Cardinality(Live \cup {arg[t].key}) =
               IF arg[t].key \in Live THEN Cardinality(Live) ELSE Cardinality(Live) + 1
      BY LiveFinite, FS_AddElement
    <3>2. Cardinality(Live) \in Nat
      BY LiveFinite, FS_CardinalityType
    <3> QED BY <1>2, <3>1, <3>2 DEF Size
  <2>2. Size < Capacity \/ Size <= Cardinality(Threads) - 1
    <3>1. Size < Capacity \/ order = <<>>
      BY DEF Insert
    <3> QED BY <1>1, <3>1, OutOfTokens DEF IInv
  <2> QED BY <2>1, <2>2, LiveFinite, ThreadsCount DEF MapBounded, Size, MostEntries
<1>6. QueueBounded'
  BY <1>1 DEF IInv, QueueBounded, MostEntries
<1> QED BY <1>2, <1>3, <1>4, <1>5, <1>6 DEF IInv

\* The loop takes an entry with its own token, or only a token that is no entry's.
LEMMA EvictTurnKeeps == ASSUME IInv, NEW t \in Threads, EvictTurn(t) PROVE IInv'
<1> DEFINE key == Head(order)[1]
           gen == Head(order)[2]
<1>1. /\ pc[t] = "evict" /\ order # <<>> /\ order' = Tail(order)
      /\ map' = IF map[key] # NIL /\ map[key].gen = gen THEN [map EXCEPT ![key] = NIL] ELSE map
      /\ UNCHANGED <<now, lock, generation, pc, arg>>
      /\ map \in [Keys -> OptEntry] /\ order \in Seq(Token)
  BY DEF EvictTurn, IInv, TypeOK
<1>2. /\ Head(order) \in Token /\ Tail(order) \in Seq(Token) /\ Len(Tail(order)) = Len(order) - 1
      /\ Len(order) \in Nat
      /\ \A x \in Range(order) : x = Head(order) \/ x \in Range(Tail(order))
  <2>1. Head(order) \in Token /\ Tail(order) \in Seq(Token) /\ Len(Tail(order)) = Len(order) - 1
        /\ Len(order) \in Nat
    BY <1>1
  <2>2. ASSUME NEW i \in 1..Len(order) PROVE order[i] = Head(order) \/ order[i] \in Range(Tail(order))
    <3>1. CASE i = 1
      BY <1>1, <3>1
    <3>2. CASE i # 1
      <4>1. i - 1 \in 1..Len(Tail(order)) /\ Tail(order)[i - 1] = order[i]
        BY <1>1, <2>1, <3>2, HeadTailProperties
      <4>2. DOMAIN Tail(order) = 1..Len(Tail(order))
        BY <2>1, LenProperties
      <4> QED BY <4>1, <4>2 DEF Range
    <3> QED BY <3>1, <3>2
  <2> QED BY <1>1, <2>1, <2>2 DEF Range
<1>3. map' \in [Keys -> OptEntry] /\ \A k \in Keys : map'[k] \in {map[k], NIL}
  BY <1>1 DEF OptEntry
<1>4. TypeOK' /\ ArgsOK'
  BY <1>1, <1>2, <1>3, StepType DEF IInv, TypeOK, Step, LockedStep
<1>5. Generations'
  BY <1>1, <1>3, GenerationsKept DEF IInv
<1>6. TokenForEveryEntry'
  <2> SUFFICES ASSUME NEW k \in Live'
               PROVE  \/ <<k, map'[k].gen>> \in Range(order')
                      \/ \E u \in Threads : /\ pc[u] \in {"push", "record"}
                                            /\ arg[u].key = k /\ arg[u].gen = map'[k].gen
    BY <1>1 DEF TokenForEveryEntry
  <2>1. k \in Live /\ map'[k] = map[k]
    BY <1>3 DEF Live
  <2>2. <<k, map[k].gen>> # Head(order)
    BY <1>1, <2>1 DEF Live
  <2> QED BY <1>1, <1>2, <2>1, <2>2 DEF IInv, TokenForEveryEntry
<1>7. MapBounded'
  BY <1>3, FewerEntries DEF IInv
<1>8. QueueBounded'
  BY <1>1, <1>2, ThreadsCount DEF IInv, QueueBounded, MostEntries
<1> QED BY <1>4, <1>5, <1>6, <1>7, <1>8 DEF IInv

\* A put that has stamped its entry queues its token.
LEMMA QueueTokenKeeps ==
  ASSUME IInv, NEW t \in Threads, PushRefreshed(t) \/ Record(t)
  PROVE  IInv'
<1> DEFINE queue == Append(order, <<arg[t].key, arg[t].gen>>)
<1>1. /\ pc[t] \in {"push", "record"} /\ pc' = [pc EXCEPT ![t] = "idle"]
      /\ arg' = [arg EXCEPT ![t] = NIL]
      /\ order' = Compacted(queue) /\ map' = map /\ generation' = generation
      /\ pc \in [Threads -> Labels] /\ arg \in [Threads -> Work \cup {NIL}]
      /\ order \in Seq(Token)
  BY DEF PushRefreshed, Record, Done, Goto, IInv, TypeOK
<1>2. <<arg[t].key, arg[t].gen>> \in Token
  BY <1>1 DEF IInv, ArgsOK, Work, Token
<1>3. queue \in Seq(Token) /\ Range(order) \subseteq Range(queue) /\ <<arg[t].key, arg[t].gen>> \in Range(queue)
  <2>1. queue \in Seq(Token) /\ Len(queue) = Len(order) + 1 /\ Len(order) \in Nat
        /\ queue[Len(order) + 1] = <<arg[t].key, arg[t].gen>>
        /\ \A i \in 1..Len(order) : queue[i] = order[i]
    BY <1>1, <1>2, AppendProperties
  <2> HIDE DEF queue
  <2>2. DOMAIN queue = 1..Len(queue) /\ DOMAIN order = 1..Len(order)
    BY <1>1, <2>1, LenProperties
  <2> QED BY <2>1, <2>2 DEF Range
<1> HIDE DEF queue
<1>4. /\ Compacted(queue) \in Seq(Token)
      /\ \A k \in Live : <<k, map[k].gen>> \in Range(queue)
                           => <<k, map[k].gen>> \in Range(Compacted(queue))
      /\ Len(Compacted(queue)) <= 2 * Capacity \/ Len(Compacted(queue)) <= MostEntries
  BY <1>3, CompactedQueue DEF IInv, MapBounded
<1>5. TypeOK' /\ ArgsOK'
  BY <1>1, <1>4, StepType DEF IInv, TypeOK, Step, LockedStep
<1>6. pc'[t] \notin Putting /\ pc'[t] \notin Early
  BY <1>1 DEF Putting, Early
<1>7. Generations'
  BY <1>1, <1>6, GenerationsKept DEF IInv
<1>8. TokenForEveryEntry'
  <2> SUFFICES ASSUME NEW k \in Live
               PROVE  \/ <<k, map[k].gen>> \in Range(Compacted(queue))
                      \/ \E u \in Threads : /\ pc'[u] \in {"push", "record"}
                                            /\ arg'[u].key = k /\ arg'[u].gen = map[k].gen
    BY <1>1 DEF TokenForEveryEntry, Live
  <2>1. CASE <<k, map[k].gen>> \in Range(order)
    BY <1>3, <1>4, <2>1
  <2>2. CASE \E u \in Threads : /\ pc[u] \in {"push", "record"}
                                /\ arg[u].key = k /\ arg[u].gen = map[k].gen
    <3>1. PICK u \in Threads : /\ pc[u] \in {"push", "record"}
                               /\ arg[u].key = k /\ arg[u].gen = map[k].gen
      BY <2>2
    <3>2. CASE u = t
      BY <1>3, <1>4, <3>1, <3>2
    <3>3. CASE u # t
      BY <1>1, <3>1, <3>3
    <3> QED BY <3>2, <3>3
  <2> QED BY <2>1, <2>2 DEF IInv, TokenForEveryEntry
<1>9. MapBounded' /\ QueueBounded'
  BY <1>1, <1>4 DEF IInv, MapBounded, QueueBounded, Size, Live, MostEntries
<1> QED BY <1>5, <1>7, <1>8, <1>9 DEF IInv

\* A claimed generation is above every other.
LEMMA PutCallKeeps == ASSUME IInv, NEW t \in Threads, PutCall(t) PROVE IInv'
<1>1. /\ UNCHANGED <<now, map, order, lock>> /\ generation' = generation + 1
      /\ pc[t] = "idle" /\ pc' = [pc EXCEPT ![t] = "probe"] /\ arg'[t].gen = generation
      /\ generation \in Nat /\ map \in [Keys -> OptEntry] /\ order \in Seq(Token)
      /\ pc \in [Threads -> Labels]
  <2>1. PICK k \in Keys, c \in Payloads :
          arg' = [arg EXCEPT ![t] = [key |-> k, payload |-> c, gen |-> generation]]
    BY DEF PutCall
  <2>2. arg'[t].gen = generation
    BY <2>1 DEF IInv, TypeOK
  <2> QED BY <2>2 DEF PutCall, Goto, IInv, TypeOK
<1>2. TypeOK' /\ ArgsOK' /\ \A u \in Threads \ {t} : pc'[u] = pc[u] /\ arg'[u] = arg[u]
  BY <1>1, StepType DEF IInv, TypeOK, Step
<1>3. /\ \A u \in Threads : pc[u] \in Putting => arg[u] \in Work /\ arg[u].gen \in Nat
      /\ \A k \in Live : map[k].gen \in Nat
  BY CcrAssumption
     DEF IInv, ArgsOK, Work, Putting, Early, TypeOK, Live, OptEntry, Entry
<1>4. /\ \A u \in Threads : pc[u] \in Putting => arg[u].gen < generation
      /\ \A k \in Live : map[k].gen < generation
      /\ \A u, v \in Threads :
           pc[u] \in Putting /\ pc[v] \in Putting /\ arg[u].gen = arg[v].gen => u = v
      /\ \A u \in Threads, k \in Live : pc[u] \in Early => map[k].gen # arg[u].gen
      /\ \A j, k \in Live : map[j].gen = map[k].gen => j = k
  BY DEF IInv, Generations
<1>5. \A u \in Threads : u # t => (pc'[u] \in Early => pc[u] \in Early) /\ (pc'[u] \in Putting => pc[u] \in Putting)
  BY <1>2
<1>6. Live' = Live
  BY <1>1 DEF Live
<1>7. \A u \in Threads : pc'[u] \in Putting => arg'[u].gen < generation'
  BY <1>1, <1>2, <1>3, <1>4, <1>5
<1>8. \A k \in Live' : map'[k].gen < generation'
  BY <1>1, <1>3, <1>4, <1>6
<1>9. ASSUME NEW u \in Threads, NEW v \in Threads,
             pc'[u] \in Putting, pc'[v] \in Putting, arg'[u].gen = arg'[v].gen
      PROVE  u = v
  <2>1. CASE u = t /\ v # t
    BY <1>1, <1>2, <1>3, <1>4, <1>5, <1>9, <2>1
  <2>2. CASE u # t /\ v = t
    BY <1>1, <1>2, <1>3, <1>4, <1>5, <1>9, <2>2
  <2>3. CASE u # t /\ v # t
    BY <1>2, <1>4, <1>5, <1>9, <2>3
  <2> QED BY <2>1, <2>2, <2>3
<1>10. ASSUME NEW u \in Threads, NEW k \in Live, pc'[u] \in Early PROVE map[k].gen # arg'[u].gen
  <2>1. CASE u = t
    BY <1>1, <1>3, <1>4, <2>1
  <2>2. CASE u # t
    BY <1>2, <1>4, <1>5, <1>10, <2>2
  <2> QED BY <2>1, <2>2
<1>11. Generations'
  BY <1>1, <1>4, <1>6, <1>7, <1>8, <1>9, <1>10 DEF Generations
<1>12. TokenForEveryEntry'
  <2>1. \A u \in Threads : pc[u] \in {"push", "record"} => pc'[u] = pc[u] /\ arg'[u] = arg[u]
    BY <1>1, <1>2
  <2> QED BY <1>1, <1>6, <2>1 DEF IInv, TokenForEveryEntry
<1>13. MapBounded' /\ QueueBounded'
  BY <1>1, <1>6 DEF IInv, MapBounded, QueueBounded, Size, MostEntries
<1> QED BY <1>2, <1>11, <1>12, <1>13 DEF IInv

\* One step per action of a thread.
LEMMA StepKeeps == ASSUME IInv, NEW t \in Threads, Step(t) PROVE IInv'
<1>0. /\ map \in [Keys -> OptEntry] /\ pc \in [Threads -> Labels]
      /\ \A k \in Keys : [map EXCEPT ![k] = NIL] \in [Keys -> OptEntry]
  BY DEF IInv, TypeOK, OptEntry
<1>1. CASE ProbeMiss(t)
  <2>1. /\ pc[t] = "probe" /\ pc'[t] \in {"collide", "enter"} /\ arg' = arg
        /\ UNCHANGED <<map, order, generation>>
    BY <1>0, <1>1 DEF ProbeMiss, Goto
  <2>2. pc[t] \in Early /\ pc[t] \in Putting /\ pc[t] \notin {"push", "record"}
    BY <2>1 DEF Early, Putting
  <2> QED BY <1>0, <2>1, <2>2, RemovalKeeps
<1>2. CASE Enter(t)
  <2>1. /\ pc[t] = "enter" /\ arg' = arg /\ UNCHANGED <<map, order, generation>>
    BY <1>2 DEF Enter
  <2>2. pc[t] \in Early /\ pc[t] \in Putting /\ pc[t] \notin {"push", "record"}
    BY <2>1 DEF Early, Putting
  <2> QED BY <1>0, <2>1, <2>2, RemovalKeeps
<1>3. CASE DropCollision(t) \/ Reap(t)
  <2>1. /\ pc[t] \in {"collide", "reap"} /\ pc'[t] = "idle"
        /\ UNCHANGED <<order, generation>>
        /\ map' = map \/ map' = [map EXCEPT ![arg[t].key] = NIL]
    BY <1>0, <1>3 DEF DropCollision, Reap, Done, Goto
  <2>2. arg[t].key \in Keys
    BY <2>1 DEF IInv, ArgsOK, Work
  <2>3. map' \in [Keys -> OptEntry] /\ \A k \in Keys : map'[k] \in {map[k], NIL}
    BY <1>0, <2>1, <2>2
  <2>4. pc'[t] \notin Putting /\ pc'[t] \notin Early /\ pc[t] \notin {"push", "record"}
    BY <2>1 DEF Early, Putting
  <2> QED BY <2>1, <2>3, <2>4, RemovalKeeps
<1>4. CASE GetExpired(t)
  <2>1. /\ pc[t] = "idle" /\ pc'[t] = "reap" /\ UNCHANGED <<map, order, generation>>
    BY <1>0, <1>4 DEF GetExpired, Goto
  <2>2. pc'[t] \notin Putting /\ pc'[t] \notin Early /\ pc[t] \notin {"push", "record"}
    BY <2>1 DEF Early, Putting
  <2> QED BY <1>0, <2>1, <2>2, RemovalKeeps
<1> QED BY <1>1, <1>2, <1>3, <1>4, PutCallKeeps, ProbeRefreshKeeps, InsertKeeps,
           EvictTurnKeeps, QueueTokenKeeps DEF Step, LockedStep

LEMMA IInvStep == IInv /\ [Next]_vars => IInv'
<1> SUFFICES ASSUME IInv, [Next]_vars PROVE IInv'
  OBVIOUS
<1>1. ASSUME NEW t \in Threads, Step(t) PROVE IInv'
  BY <1>1, StepKeeps
<1>2. CASE Tick \/ UNCHANGED vars
  <2>1. now' \in 0..MaxTime /\ UNCHANGED <<map, order, lock, generation, pc, arg>>
    BY <1>2, CcrAssumption DEF Tick, vars, IInv, TypeOK
  <2>2. TypeOK' /\ ArgsOK'
    BY <2>1 DEF IInv, TypeOK, ArgsOK
  <2>3. Generations' /\ TokenForEveryEntry' /\ MapBounded' /\ QueueBounded'
    BY <2>1 DEF IInv, Generations, TokenForEveryEntry, MapBounded, QueueBounded, Live, Size, MostEntries
  <2> QED BY <2>2, <2>3 DEF IInv
<1> QED BY <1>1, <1>2 DEF Next

LEMMA IInvInitially == Init => IInv
<1> SUFFICES ASSUME Init PROVE IInv
  OBVIOUS
<1>1. Live = {} /\ Size = 0
  BY FS_EmptySet DEF Init, Live, Size
<1>2. TypeOK /\ ArgsOK
  BY NILAssumption, CcrAssumption DEF Init, TypeOK, ArgsOK, Labels, OptEntry
<1>3. Generations /\ TokenForEveryEntry
  BY <1>1 DEF Init, Generations, TokenForEveryEntry, Putting, Early
<1>4. MapBounded /\ QueueBounded
  BY <1>1, ThreadsCount DEF Init, MapBounded, QueueBounded
<1> QED BY <1>2, <1>3, <1>4 DEF IInv

\* put of in_memory.rs: however puts, refreshes, reaps and collisions interleave,
\* every entry has its token queued or about to be, and the map and the queue keep
\* within their bounds.
THEOREM QueueIsSound == Spec => []QueueSound
<1>1. IInv => QueueSound
  BY DEF IInv, QueueSound
<1> QED BY <1>1, IInvInitially, IInvStep, PTL DEF Spec

\* remove_if of get in in_memory.rs: what is reaped has expired when it goes.
THEOREM ReapsSpareFresh == Spec => ReapSparesFresh
<1>1. ASSUME IInv, NEW t \in Threads, Reap(t), NEW k \in Live
      PROVE  IsExpired(map[k]) \/ map'[k] = map[k]
  <2>1. map \in [Keys -> OptEntry] /\ k \in Keys
    BY <1>1 DEF IInv, TypeOK, Live
  <2> QED BY <1>1, <2>1 DEF Reap
<1>2. IInv => [\A t \in Threads : Reap(t) =>
                 \A k \in Live : IsExpired(map[k]) \/ map'[k] = map[k]]_vars
  BY <1>1
<1> QED BY <1>2, IInvInitially, IInvStep, PTL DEF Spec, ReapSparesFresh
=============================================================================
