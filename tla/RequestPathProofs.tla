-------------------------- MODULE RequestPathProofs --------------------------
(***************************************************************************)
(* What a call returns, for any number of threads, contents and requests.   *)
(*                                                                         *)
(* What the calls promise is about the moment of their return; what makes   *)
(* it true is an invariant of each content on its way there: a content that *)
(* is backed or served was found resolvable, and one that is served from    *)
(* the cache was accepted by this request's own threshold.  The cache tiers, *)
(* the skip set and the breaker, which the calls share, have theirs: the     *)
(* places of a tier's keys are distinct, so that a cap evicts one entry.     *)
(***************************************************************************)
EXTENDS RequestPath, FiniteSetTheorems, FunctionTheorems, TLAPS

\* The types that argument needs: the cache and the breaker play no part in it.
Types ==
  /\ slot \in [Threads -> [Contents -> Status]]
  /\ seen \in [Threads -> SUBSET Contents]
  /\ min_ratio \in [Threads -> Nat]
  /\ delivered \in [Threads -> SUBSET Contents]

\* A lossy content that is backed or served was found resolvable.
BackedWasSeen ==
  \A t \in Threads, c \in Lossy : slot[t][c] \in {"backed", "served"} => c \in seen[t]

\* What is on its way to be served clears the request's threshold.
ServedAccepts ==
  \A t \in Threads, c \in Contents :
    slot[t][c] \in {"hit", "mirrored", "served"} => Accepts(t, c)

OnTheWay == Types /\ BackedWasSeen /\ ServedAccepts

\* A move changes the status of one content of one request.
LEMMA MovesOne ==
  ASSUME Types, NEW t \in Threads, NEW c \in Contents, NEW from, NEW to \in Status,
         Moves(t, c, from, to)
  PROVE  /\ slot' \in [Threads -> [Contents -> Status]]
         /\ slot[t][c] = from
         /\ slot'[t][c] = to
         /\ \A u \in Threads, d \in Contents :
              u # t \/ d # c => slot'[u][d] = slot[u][d]
         /\ min_ratio' = min_ratio /\ delivered' = delivered /\ running' = running
<1>1. slot' = [slot EXCEPT ![t] = [slot[t] EXCEPT ![c] = to]] /\ slot[t][c] = from
  BY DEF Moves
<1>2. min_ratio' = min_ratio /\ delivered' = delivered /\ running' = running
  BY DEF Moves
<1>3. slot[t] \in [Contents -> Status]
  BY DEF Types
<1>4. [slot[t] EXCEPT ![c] = to] \in [Contents -> Status]
  BY <1>3
<1>5. slot'[t] = [slot[t] EXCEPT ![c] = to] /\ \A u \in Threads \ {t} : slot'[u] = slot[u]
  BY <1>1 DEF Types
<1>6. slot' \in [Threads -> [Contents -> Status]]
  BY <1>1, <1>4 DEF Types
<1>7. slot'[t][c] = to /\ \A d \in Contents \ {c} : slot'[t][d] = slot[t][d]
  BY <1>3, <1>5
<1> QED BY <1>1, <1>2, <1>5, <1>6, <1>7

\* A history that only grows keeps what was seen.
LEMMA MoveKeeps ==
  ASSUME OnTheWay, NEW t \in Threads, NEW c \in Contents, NEW from, NEW to \in Status,
         Moves(t, c, from, to),
         \/ seen' = seen
         \/ Sees(t, c),
         to \in {"backed", "served"} /\ c \in Lossy => c \in seen'[t],
         to \in {"hit", "mirrored", "served"} => Accepts(t, c)
  PROVE  OnTheWay'
<1>1. /\ slot' \in [Threads -> [Contents -> Status]]
      /\ slot'[t][c] = to
      /\ \A u \in Threads, d \in Contents : u # t \/ d # c => slot'[u][d] = slot[u][d]
      /\ min_ratio' = min_ratio /\ delivered' = delivered
  BY MovesOne DEF OnTheWay
<1>2. seen' \in [Threads -> SUBSET Contents] /\ \A u \in Threads : seen[u] \subseteq seen'[u]
  BY DEF OnTheWay, Types, Sees
<1>3. Types'
  BY <1>1, <1>2 DEF OnTheWay, Types
<1>4. BackedWasSeen'
  <2> SUFFICES ASSUME NEW u \in Threads, NEW d \in Lossy, slot'[u][d] \in {"backed", "served"}
               PROVE  d \in seen'[u]
    BY DEF BackedWasSeen
  <2>0. d \in Contents
    BY RequestAssumption
  <2>1. CASE u = t /\ d = c
    BY <1>1, <2>1
  <2>2. CASE ~(u = t /\ d = c)
    <3>1. slot[u][d] \in {"backed", "served"}
      BY <1>1, <2>0, <2>2
    <3> QED BY <1>2, <3>1 DEF OnTheWay, BackedWasSeen
  <2> QED BY <2>1, <2>2
<1>5. ServedAccepts'
  <2> SUFFICES ASSUME NEW u \in Threads, NEW d \in Contents,
                      slot'[u][d] \in {"hit", "mirrored", "served"}
               PROVE  Accepts(u, d)'
    BY DEF ServedAccepts
  <2>1. CASE u = t /\ d = c
    BY <1>1, <2>1 DEF Accepts
  <2>2. CASE ~(u = t /\ d = c)
    <3>1. slot[u][d] \in {"hit", "mirrored", "served"}
      BY <1>1, <2>2
    <3> QED BY <1>1, <3>1 DEF OnTheWay, ServedAccepts, Accepts
  <2> QED BY <2>1, <2>2
<1> QED BY <1>3, <1>4, <1>5 DEF OnTheWay

\* A content that a step has just looked up in the Python store.
LEMMA SeesIt ==
  ASSUME Types, NEW t \in Threads, NEW c \in Contents, Sees(t, c), c \in python'
  PROVE  c \in seen'[t]
BY DEF Types, Sees

LEMMA StatusNames ==
  /\ {"todo", "failed", "unskipped", "tight", "hit", "mirrored", "unbacked", "pending",
      "crushed", "backed", "vetoed", "none", "original", "served"} = Status
BY DEF Status, LookingUp, Computing, Settled

\* One step per action on a content.
LEMMA ContentStepKeeps ==
  ASSUME OnTheWay, NEW t \in Threads, NEW c \in Contents, ContentStep(t, c)
  PROVE  OnTheWay'
<1> USE StatusNames
<1>0. Types /\ (slot[t][c] \in {"backed", "served"} /\ c \in Lossy => c \in seen[t])
      /\ (slot[t][c] \in {"hit", "mirrored", "served"} => Accepts(t, c))
  BY DEF OnTheWay, BackedWasSeen, ServedAccepts
<1>1. CASE LookupSkip(t, c)
  <2>1. CASE Moves(t, c, "todo", "original")
    BY <1>1, <2>1, MoveKeeps DEF LookupSkip
  <2>2. CASE Moves(t, c, "todo", "unskipped")
    BY <1>1, <2>2, MoveKeeps DEF LookupSkip
  <2> QED BY <1>1, <2>1, <2>2 DEF LookupSkip
<1>2. CASE LookupResult(t, c)
  <2>1. CASE Moves(t, c, "unskipped", "pending")
    BY <1>2, <2>1, MoveKeeps DEF LookupResult
  <2>2. CASE Moves(t, c, "unskipped", "hit") /\ Accepts(t, c)
    BY <1>2, <2>2, MoveKeeps DEF LookupResult
  <2>3. CASE Moves(t, c, "unskipped", "tight")
    BY <1>2, <2>3, MoveKeeps DEF LookupResult
  <2> QED BY <1>2, <2>1, <2>2, <2>3 DEF LookupResult
<1>3. CASE Tightened(t, c)
  BY <1>3, MoveKeeps DEF Tightened
<1>4. CASE ReMirror(t, c)
  <2>1. Accepts(t, c)
    BY <1>0, <1>4 DEF ReMirror, Moves
  <2> QED BY <1>4, <2>1, MoveKeeps DEF ReMirror
<1>5. CASE VerifyBacked(t, c)
  <2>0. Sees(t, c) /\ python' = python
    BY <1>5 DEF VerifyBacked, stores
  <2>1. CASE Backed(c) /\ Moves(t, c, "mirrored", "served")
    <3>1. Accepts(t, c)
      BY <1>0, <2>1 DEF Moves
    <3>2. c \in Lossy => c \in seen'[t]
      BY <1>0, <2>0, <2>1, SeesIt DEF Backed
    <3> QED BY <2>0, <2>1, <3>1, <3>2, MoveKeeps
  <2>2. CASE Moves(t, c, "mirrored", "original")
    BY <2>0, <2>2, MoveKeeps
  <2>3. CASE Moves(t, c, "mirrored", "unbacked")
    BY <2>0, <2>3, MoveKeeps
  <2> QED BY <1>5, <2>1, <2>2, <2>3 DEF VerifyBacked
<1>6. CASE DropUnbacked(t, c)
  BY <1>6, MoveKeeps DEF DropUnbacked
<1>7. CASE Crush(t, c)
  <2>1. CASE Moves(t, c, "pending", "crushed")
    BY <1>7, <2>1, MoveKeeps DEF Crush
  <2>2. CASE Moves(t, c, "pending", "backed") /\ c \notin Lossy
    BY <1>7, <2>2, MoveKeeps DEF Crush
  <2>3. CASE Moves(t, c, "pending", "failed")
    BY <1>7, <2>3, MoveKeeps DEF Crush
  <2> QED BY <1>7, <2>1, <2>2, <2>3 DEF Crush
<1>8. CASE MirrorTyped(t, c)
  <2>0. Sees(t, c)
    BY <1>8 DEF MirrorTyped
  <2>1. CASE Moves(t, c, "crushed", "backed") /\ c \in python'
    <3>1. c \in seen'[t]
      BY <1>0, <2>0, <2>1, SeesIt
    <3> QED BY <2>0, <2>1, <3>1, MoveKeeps
  <2>2. CASE Moves(t, c, "crushed", "failed")
    BY <2>0, <2>2, MoveKeeps
  <2> QED BY <1>8, <2>1, <2>2 DEF MirrorTyped
<1>9. CASE PersistShim(t, c)
  <2>0. Sees(t, c)
    BY <1>9 DEF PersistShim
  <2>1. CASE Moves(t, c, "crushed", "backed") /\ c \in python'
    <3>1. c \in seen'[t]
      BY <1>0, <2>0, <2>1, SeesIt
    <3> QED BY <2>0, <2>1, <3>1, MoveKeeps
  <2>2. CASE Moves(t, c, "crushed", "vetoed")
    BY <2>0, <2>2, MoveKeeps
  <2> QED BY <1>9, <2>1, <2>2 DEF PersistShim
<1>10. CASE Gated(t, c)
  BY <1>10, MoveKeeps DEF Gated
<1>11. CASE Accepted(t, c)
  <2>1. Accepts(t, c) /\ Moves(t, c, "backed", "served") /\ seen' = seen
    BY <1>11 DEF Accepted
  <2>2. c \in Lossy => c \in seen'[t]
    BY <1>0, <2>1 DEF Moves
  <2> QED BY <2>1, <2>2, MoveKeeps
<1>12. CASE Rejected(t, c)
  <2>1. CASE Moves(t, c, "vetoed", "original")
    BY <1>12, <2>1, MoveKeeps DEF Rejected
  <2>2. CASE Moves(t, c, "backed", "original")
    BY <1>12, <2>2, MoveKeeps DEF Rejected
  <2> QED BY <1>12, <2>1, <2>2 DEF Rejected
<1> QED BY <1>1, <1>2, <1>3, <1>4, <1>5, <1>6, <1>7, <1>8, <1>9, <1>10, <1>11, <1>12
        DEF ContentStep

\* A call begins with nothing settled and ends with nothing left of it.
LEMMA BeginKeeps ==
  ASSUME OnTheWay, NEW t \in Threads, Begin(t)
  PROVE  OnTheWay'
<1> USE StatusNames
<1>0. /\ delivered' \in [Threads -> SUBSET Contents]
      /\ seen' = seen
  BY DEF Begin, OnTheWay, Types
<1>1. CASE UNCHANGED <<slot, min_ratio>>
  BY <1>0, <1>1 DEF OnTheWay, Types, BackedWasSeen, ServedAccepts, Accepts
<1>2. CASE /\ \E m \in MinRatios : min_ratio' = [min_ratio EXCEPT ![t] = m]
           /\ \E S \in SUBSET Contents :
                slot' = [slot EXCEPT ![t] =
                           [c \in Contents |-> IF c \in S THEN "todo" ELSE "none"]]
  <2>1. PICK m \in MinRatios : min_ratio' = [min_ratio EXCEPT ![t] = m]
    BY <1>2
  <2>2. PICK S \in SUBSET Contents :
          slot' = [slot EXCEPT ![t] = [c \in Contents |-> IF c \in S THEN "todo" ELSE "none"]]
    BY <1>2
  <2>3. [c \in Contents |-> IF c \in S THEN "todo" ELSE "none"] \in [Contents -> Status]
    OBVIOUS
  <2>4. min_ratio' \in [Threads -> Nat] /\ \A u \in Threads \ {t} : min_ratio'[u] = min_ratio[u]
    BY <2>1, RequestAssumption DEF OnTheWay, Types
  <2>5. /\ slot' \in [Threads -> [Contents -> Status]]
        /\ \A u \in Threads \ {t} : slot'[u] = slot[u]
        /\ \A c \in Contents : slot'[t][c] \in {"todo", "none"}
    BY <2>2, <2>3 DEF OnTheWay, Types
  <2>6. Types'
    BY <1>0, <2>4, <2>5 DEF OnTheWay, Types
  <2>7. BackedWasSeen'
    BY <1>0, <2>5, RequestAssumption DEF OnTheWay, BackedWasSeen
  <2>8. ServedAccepts'
    BY <2>4, <2>5 DEF OnTheWay, ServedAccepts, Accepts
  <2> QED BY <2>6, <2>7, <2>8 DEF OnTheWay
<1> QED BY <1>1, <1>2 DEF Begin

LEMMA ReturnsKeeps ==
  ASSUME OnTheWay, NEW t \in Threads, NEW contents \in SUBSET Contents, Returns(t, contents)
  PROVE  OnTheWay'
<1> USE StatusNames
<1>1. NoRequest \in [Contents -> Status] /\ \A c \in Contents : NoRequest[c] = "none"
  BY DEF NoRequest
<1>2. Types'
  BY <1>1 DEF Returns, OnTheWay, Types
<1>3. \A u \in Threads \ {t} :
        slot'[u] = slot[u] /\ seen'[u] = seen[u] /\ min_ratio'[u] = min_ratio[u]
  BY DEF Returns, OnTheWay, Types
<1>4. \A c \in Contents : slot'[t][c] = "none"
  BY <1>1 DEF Returns, OnTheWay, Types
<1>5. BackedWasSeen'
  BY <1>3, <1>4, RequestAssumption DEF OnTheWay, BackedWasSeen
<1>6. ServedAccepts'
  BY <1>3, <1>4 DEF OnTheWay, ServedAccepts, Accepts
<1> QED BY <1>2, <1>5, <1>6 DEF OnTheWay

\* The three ways a call ends.
Ends(t) == Succeed(t) \/ Fail(t) \/ Interrupt(t)

LEMMA EndsReturn ==
  ASSUME NEW t \in Threads, Ends(t)
  PROVE  \/ Returns(t, In(t, {"served"})) /\ \A c \in Contents : slot[t][c] \in Settled
         \/ Returns(t, {})
BY DEF Ends, Succeed, Fail, Interrupt

LEMMA NextKeeps ==
  ASSUME OnTheWay, [Next]_vars
  PROVE  OnTheWay'
<1>1. CASE UNCHANGED <<slot, seen, min_ratio, delivered>>
  BY <1>1 DEF OnTheWay, Types, BackedWasSeen, ServedAccepts, Accepts
<1>2. ASSUME NEW t \in Threads, Begin(t) PROVE OnTheWay'
  BY <1>2, BeginKeeps
<1>3. ASSUME NEW t \in Threads, NEW c \in Contents, ContentStep(t, c) PROVE OnTheWay'
  BY <1>3, ContentStepKeeps
<1>4. ASSUME NEW t \in Threads, Ends(t) PROVE OnTheWay'
  <2>1. In(t, {"served"}) \in SUBSET Contents
    BY DEF In
  <2> QED BY <1>4, <2>1, EndsReturn, ReturnsKeeps
<1>5. CASE UNCHANGED vars
  BY <1>1, <1>5 DEF vars, request
<1>6. CASE Tick
  BY <1>1, <1>6 DEF Tick, request
<1>7. ASSUME NEW c \in Contents, LosesRust(c) \/ LosesPython(c) PROVE OnTheWay'
  BY <1>1, <1>7 DEF LosesRust, LosesPython, request
<1> QED BY <1>2, <1>3, <1>4, <1>5, <1>6, <1>7 DEF Next, Progress, Ends

LEMMA InitOnTheWay == Init => OnTheWay
BY StatusNames, RequestAssumption
   DEF Init, OnTheWay, Types, BackedWasSeen, ServedAccepts, NoRequest

\* Only a call that ends leaves the pipeline, and each call ends by itself.
LEMMA ReturnedEnds ==
  ASSUME OnTheWay, [Next]_vars, NEW t \in Threads, Returned(t)
  PROVE  Ends(t)
<1>1. t \in running /\ t \notin running'
  BY DEF Returned
<1>2. ASSUME NEW u \in Threads, Begin(u) PROVE FALSE
  BY <1>1, <1>2 DEF Begin
<1>3. ASSUME NEW u \in Threads, NEW c \in Contents, ContentStep(u, c) PROVE FALSE
  <2>1. running' = running
    BY <1>3 DEF ContentStep, LookupSkip, LookupResult, Tightened, ReMirror, VerifyBacked,
         DropUnbacked, Crush, MirrorTyped, PersistShim, Gated, Accepted, Rejected, Moves
  <2> QED BY <1>1, <2>1
<1>4. ASSUME NEW u \in Threads, Ends(u) PROVE u = t
  <2>1. running' = running \ {u}
    BY <1>4, EndsReturn DEF Returns
  <2> QED BY <1>1, <2>1
<1>5. CASE UNCHANGED running
  BY <1>1, <1>5
<1>6. CASE UNCHANGED vars \/ Tick \/ \E c \in Contents : LosesRust(c) \/ LosesPython(c)
  BY <1>5, <1>6 DEF vars, request, Tick, LosesRust, LosesPython
<1> QED BY <1>2, <1>3, <1>4, <1>6 DEF Next, Progress, Ends

\* What a call returns is what it served, or nothing.
LEMMA DeliveredWasServed ==
  ASSUME OnTheWay, [Next]_vars, NEW t \in Threads, Returned(t)
  PROVE  \/ delivered'[t] = {}
         \/ delivered'[t] = In(t, {"served"}) /\ \A c \in Contents : slot[t][c] \in Settled
<1>1. Returns(t, {}) => delivered'[t] = {}
  BY DEF Returns, OnTheWay, Types
<1>2. Returns(t, In(t, {"served"})) => delivered'[t] = In(t, {"served"})
  BY DEF Returns, OnTheWay, Types
<1>3. Ends(t)
  BY ReturnedEnds
<1>4. \/ Returns(t, In(t, {"served"})) /\ \A c \in Contents : slot[t][c] \in Settled
      \/ Returns(t, {})
  BY <1>3, EndsReturn
<1> QED BY <1>1, <1>2, <1>4

LEMMA AlwaysOnTheWay == Spec => []OnTheWay
BY InitOnTheWay, NextKeeps, PTL DEF Spec

\* The router and the mirror (content_router.py _lookup_cached_disposition,
\* smart_crusher.py _mirror_single_hash_to_python_store): no call returns a marker
\* that it did not itself find resolvable.
THEOREM CallsReturnBackedMarkers == Spec => MarkersBacked
<1>1. ASSUME OnTheWay, [Next]_vars, NEW t \in Threads, Returned(t)
      PROVE  delivered'[t] \cap Lossy \subseteq seen[t]
  BY <1>1, DeliveredWasServed DEF OnTheWay, BackedWasSeen, In
<1>2. OnTheWay /\ [Next]_vars
        => [\A t \in Threads : Returned(t) => delivered'[t] \cap Lossy \subseteq seen[t]]_vars
  BY <1>1
<1> QED BY <1>2, AlwaysOnTheWay, PTL DEF Spec, MarkersBacked

\* The threshold gate of content_router.py _lookup_cached_disposition and
\* _store_disposition: what a call returns compressed clears its own min_ratio.
THEOREM CallsReturnQualified == Spec => ServedQualifies
<1>1. ASSUME OnTheWay, [Next]_vars, NEW t \in Threads, Returned(t), NEW c \in delivered'[t]
      PROVE  Accepts(t, c)
  BY <1>1, DeliveredWasServed DEF OnTheWay, ServedAccepts, In
<1>2. OnTheWay /\ [Next]_vars
        => [\A t \in Threads : Returned(t) => \A c \in delivered'[t] : Accepts(t, c)]_vars
  BY <1>1
<1> QED BY <1>2, AlwaysOnTheWay, PTL DEF Spec, ServedQualifies

\* The fail-open boundary of compress.py: with one content failed, the call returns
\* the original messages.
THEOREM FailureRevertsTheCall == Spec => FailureRevertsAll
<1>1. ASSUME OnTheWay, [Next]_vars, NEW t \in Threads, Returned(t), In(t, {"failed"}) # {}
      PROVE  delivered'[t] = {}
  BY <1>1, DeliveredWasServed DEF In, Settled
<1>2. OnTheWay /\ [Next]_vars
        => [\A t \in Threads : Returned(t) /\ In(t, {"failed"}) # {} => delivered'[t] = {}]_vars
  BY <1>1
<1> QED BY <1>2, AlwaysOnTheWay, PTL DEF Spec, FailureRevertsAll

\* The three together, which is what the runs check of the calls that return.
THEOREM CallsReturnSound == Spec => ReturnsSound
BY CallsReturnBackedMarkers, CallsReturnQualified, FailureRevertsTheCall DEF ReturnsSound
-----------------------------------------------------------------------------
(* The result cache: a tier is a dict, whose keys have places 1 to its size.  *)

Times == 0..MaxEvents
Entries(K) == [at : Times, place : 1..Cardinality(K)]

\* tier is a dict of keys K.
Dict(tier, K) ==
  /\ K \in SUBSET Contents
  /\ tier \in [K -> Entries(K)]
  /\ \A j, k \in K : tier[j].place = tier[k].place => j = k

LEMMA KeysCount ==
  ASSUME NEW K \in SUBSET Contents
  PROVE  IsFiniteSet(K) /\ Cardinality(K) \in Nat
BY RequestAssumption, FS_Subset, FS_CardinalityType

\* Dropping keys from a dict closes the gaps in its order.
LEMMA KeptIsDict ==
  ASSUME NEW K, NEW tier, Dict(tier, K), NEW J \in SUBSET K
  PROVE  /\ Dict(Kept(tier, J), J)
         /\ \A k \in J : Kept(tier, J)[k].at = tier[k].at
<1>1. K \in SUBSET Contents /\ J \in SUBSET Contents /\ tier \in [K -> Entries(K)]
  BY DEF Dict
<1>2. IsFiniteSet(J) /\ Cardinality(J) \in Nat /\ Cardinality(K) \in Nat
  BY <1>1, KeysCount
<1> DEFINE Upto(k) == {j \in J : tier[j].place <= tier[k].place}
<1> DEFINE rank == [k \in J |-> Cardinality(Upto(k))]
<1>3. \A k \in K : tier[k] \in Entries(K) /\ tier[k].place \in Nat /\ tier[k].at \in Times
  BY <1>1, <1>2 DEF Entries
<1>4. ASSUME NEW k \in J PROVE rank[k] \in 1..Cardinality(J)
  <2>1. Upto(k) \in SUBSET J /\ k \in Upto(k)
    BY <1>3
  <2>2. IsFiniteSet(Upto(k)) /\ Cardinality(Upto(k)) \in Nat /\ Cardinality(Upto(k)) <= Cardinality(J)
    BY <1>2, <2>1, FS_Subset, FS_CardinalityType
  <2>3. Cardinality(Upto(k)) # 0
    BY <2>1, <2>2, FS_EmptySet
  <2> QED BY <1>2, <2>2, <2>3
<1>5. ASSUME NEW j \in J, NEW k \in J, tier[j].place < tier[k].place PROVE rank[j] # rank[k]
  <2>1. Upto(j) \in SUBSET Upto(k) /\ k \in Upto(k) /\ k \notin Upto(j)
    BY <1>3, <1>5
  <2>2. IsFiniteSet(Upto(k))
    BY <1>2, FS_Subset
  <2> QED BY <2>1, <2>2, FS_Subset
<1>6. \A k \in J : Kept(tier, J)[k] = [at |-> tier[k].at, place |-> rank[k]]
  BY DEF Kept
<1> HIDE DEF rank, Upto
<1>7. ASSUME NEW k \in J
      PROVE  /\ Kept(tier, J)[k].at = tier[k].at /\ Kept(tier, J)[k].place = rank[k]
             /\ Kept(tier, J)[k] \in Entries(J)
  <2>1. Kept(tier, J)[k] = [at |-> tier[k].at, place |-> rank[k]]
    BY <1>6
  <2>2. tier[k].at \in Times /\ rank[k] \in 1..Cardinality(J)
    BY <1>3, <1>4
  <2> QED BY <2>1, <2>2 DEF Entries
<1>8. Kept(tier, J) \in [J -> Entries(J)]
  BY <1>7 DEF Kept
<1>9. ASSUME NEW j \in J, NEW k \in J, Kept(tier, J)[j].place = Kept(tier, J)[k].place
      PROVE  j = k
  <2>1. rank[j] = rank[k]
    BY <1>7, <1>9
  <2>2. tier[j].place = tier[k].place
    BY <1>3, <1>5, <2>1
  <2>3. \A a, b \in K : tier[a].place = tier[b].place => a = b
    BY DEF Dict
  <2> QED BY <2>2, <2>3
<1> QED BY <1>1, <1>7, <1>8, <1>9 DEF Dict

\* A dict has no room for a key more.
LEMMA WriteIsDict ==
  ASSUME NEW K, NEW tier, Dict(tier, K), NEW c \in Contents, now \in Times
  PROVE  /\ Dict(Write(tier, c), K \cup {c})
         /\ \A k \in K : k # c => Write(tier, c)[k] = tier[k]
<1>1. K \in SUBSET Contents /\ tier \in [K -> Entries(K)] /\ K \cup {c} \in SUBSET Contents
  BY DEF Dict
<1>2. DOMAIN tier = K
  BY <1>1
<1>3. /\ Cardinality(K) \in Nat
      /\ Cardinality(K \cup {c}) = IF c \in K THEN Cardinality(K) ELSE Cardinality(K) + 1
  BY <1>1, KeysCount, FS_AddElement
<1> DEFINE place == IF c \in K THEN tier[c].place ELSE Cardinality(K) + 1
<1>4. /\ \A k \in K \ {c} : Write(tier, c)[k] = tier[k]
      /\ Write(tier, c)[c] = [at |-> now, place |-> place]
      /\ Write(tier, c) = [k \in K \cup {c} |-> IF k # c THEN tier[k] ELSE [at |-> now, place |-> place]]
  BY <1>2 DEF Write
<1>5. \A k \in K : tier[k] \in Entries(K) /\ tier[k].place \in 1..Cardinality(K)
  BY <1>1 DEF Entries
<1>6. place \in 1..Cardinality(K \cup {c})
  BY <1>3, <1>5
<1>7. ASSUME NEW k \in K PROVE tier[k] \in Entries(K \cup {c})
  <2>1. 1..Cardinality(K) \subseteq 1..Cardinality(K \cup {c})
    BY <1>3
  <2> QED BY <1>5, <2>1 DEF Entries
<1>8. [at |-> now, place |-> place] \in Entries(K \cup {c})
  BY <1>6 DEF Entries
<1>9. Write(tier, c) \in [K \cup {c} -> Entries(K \cup {c})]
  BY <1>4, <1>7, <1>8
<1>10. \A k \in K \ {c} : tier[k].place # place
  <2>1. CASE c \in K
    BY <2>1 DEF Dict
  <2>2. CASE c \notin K
    BY <1>3, <1>5, <2>2
  <2> QED BY <2>1, <2>2
<1>11. ASSUME NEW j \in K \cup {c}, NEW k \in K \cup {c},
              Write(tier, c)[j].place = Write(tier, c)[k].place
       PROVE  j = k
  <2>1. CASE j # c /\ k # c
    BY <1>4, <1>11, <2>1 DEF Dict
  <2>2. CASE j = c /\ k # c
    BY <1>4, <1>10, <1>11, <2>2
  <2>3. CASE j # c /\ k = c
    BY <1>4, <1>10, <1>11, <2>3
  <2> QED BY <2>1, <2>2, <2>3
<1> QED BY <1>1, <1>4, <1>9, <1>11 DEF Dict

\* What is left has room: the places above the excess are MaxEntries many.
LEMMA CappedIsDict ==
  ASSUME NEW K, NEW tier, Dict(tier, K)
  PROVE  \E J \in SUBSET K : Dict(Capped(tier), J) /\ Cardinality(J) <= MaxEntries
<1>1. K \in SUBSET Contents /\ tier \in [K -> Entries(K)] /\ DOMAIN tier = K
  BY DEF Dict
<1>2. MaxEntries \in Nat
  BY RouterCacheAssumption
<1>3. CASE Cardinality(K) <= MaxEntries
  BY <1>1, <1>3 DEF Capped
<1>4. CASE ~(Cardinality(K) <= MaxEntries)
  <2> DEFINE size == Cardinality(K)
  <2> DEFINE J == {k \in K : tier[k].place > size - MaxEntries}
  <2>1. size \in Nat /\ Capped(tier) = Kept(tier, J)
    BY <1>1, <1>4, KeysCount DEF Capped
  <2>2. Dict(Capped(tier), J)
    BY <2>1, KeptIsDict
  <2> DEFINE last == (size - MaxEntries + 1)..size
  <2>3. IsFiniteSet(last) /\ Cardinality(last) = MaxEntries
    <3>1. size - MaxEntries + 1 \in Int /\ size \in Int /\ ~(size - MaxEntries + 1 > size + 1)
      BY <1>2, <2>1
    <3> QED BY <1>2, <2>1, <1>4, <3>1, FS_Interval
  <2> DEFINE f == [k \in J |-> tier[k].place]
  <2>4. f \in Injection(J, last)
    <3>1. \A k \in J : tier[k].place \in last
      BY <1>1, <1>2, <2>1 DEF Entries
    <3>2. \A j, k \in J : f[j] = f[k] => j = k
      BY DEF Dict
    <3> QED BY <3>1, <3>2 DEF Injection, IsInjective
  <2>5. Cardinality(J) <= MaxEntries
    <3> HIDE DEF f, last, J
    <3> QED BY <2>3, <2>4, FS_Injection
  <2> QED BY <2>2, <2>5
<1> QED BY <1>3, <1>4

LEMMA TierIsDicts ==
  ASSUME NEW tier
  PROVE  tier \in Tier <=> \E K \in SUBSET Contents : Dict(tier, K) /\ Cardinality(K) <= MaxEntries
BY DEF Tier, Dict, Entries, Times

LEMMA KeptInTier ==
  ASSUME NEW tier \in Tier, NEW J \in SUBSET DOMAIN tier
  PROVE  /\ Kept(tier, J) \in Tier /\ DOMAIN Kept(tier, J) = J
         /\ \A k \in J : Kept(tier, J)[k].at = tier[k].at
<1>1. PICK K \in SUBSET Contents : Dict(tier, K) /\ Cardinality(K) <= MaxEntries
  BY TierIsDicts
<1>2. J \in SUBSET K
  BY <1>1 DEF Dict
<1>3. Cardinality(J) <= MaxEntries
  <2>1. IsFiniteSet(K) /\ Cardinality(K) \in Nat /\ Cardinality(J) \in Nat
    BY <1>2, KeysCount
  <2>2. Cardinality(J) <= Cardinality(K)
    BY <1>2, <2>1, FS_Subset
  <2> QED BY <1>1, <2>1, <2>2, RouterCacheAssumption
<1>4. Kept(tier, J) \in Tier /\ \A k \in J : Kept(tier, J)[k].at = tier[k].at
  BY <1>1, <1>2, <1>3, KeptIsDict, TierIsDicts
<1> QED BY <1>4 DEF Kept

LEMMA WrittenInTier ==
  ASSUME NEW tier \in Tier, NEW c \in Contents, now \in Times
  PROVE  /\ Capped(Write(tier, c)) \in Tier
         /\ DOMAIN Capped(Write(tier, c)) \subseteq DOMAIN tier \cup {c}
<1>1. PICK K \in SUBSET Contents : Dict(tier, K)
  BY TierIsDicts
<1>2. Dict(Write(tier, c), K \cup {c})
  BY <1>1, WriteIsDict
<1>3. PICK J \in SUBSET (K \cup {c}) :
        Dict(Capped(Write(tier, c)), J) /\ Cardinality(J) <= MaxEntries
  BY <1>2, CappedIsDict
<1>4. DOMAIN tier = K /\ DOMAIN Capped(Write(tier, c)) = J
  BY <1>1, <1>3 DEF Dict
<1>5. J \in SUBSET Contents
  BY <1>3 DEF Dict
<1> QED BY <1>3, <1>4, <1>5, TierIsDicts

\* The cache by itself: both tiers dicts within the cap, the counter short of a sweep.
CacheTypes ==
  /\ results \in Tier /\ skip \in Tier
  /\ insertions \in 0..(SweepEvery - 1)

\* Two tiers with nothing expired in them.
AllFresh == \A tier \in {results', skip'} : \A k \in DOMAIN tier : Fresh(tier[k])

LEMMA SweptIsFresh ==
  ASSUME NEW tier \in Tier
  PROVE  /\ Swept(tier) \in Tier /\ DOMAIN Swept(tier) \subseteq DOMAIN tier
         /\ \A k \in DOMAIN Swept(tier) : Fresh(Swept(tier)[k])
<1> DEFINE J == {k \in DOMAIN tier : Fresh(tier[k])}
<1>1. /\ Kept(tier, J) \in Tier /\ DOMAIN Kept(tier, J) = J
      /\ \A k \in J : Kept(tier, J)[k].at = tier[k].at
  BY KeptInTier
<1> QED BY <1>1 DEF Swept, Fresh

LEMMA InsertionKeeps ==
  ASSUME CacheTypes, NEW res \in Tier, NEW skp \in Tier, CountInsertion(res, skp)
  PROVE  /\ CacheTypes' /\ DOMAIN skip' \subseteq DOMAIN skp
         /\ insertions' < insertions => AllFresh
<1>1. insertions \in Int /\ SweepEvery \in Nat \ {0} /\ insertions \in 0..(SweepEvery - 1)
  BY RouterCacheAssumption DEF CacheTypes
<1>2. CASE SweepDue
  <2>1. results' = Swept(res) /\ skip' = Swept(skp) /\ insertions' = 0
    BY <1>2 DEF CountInsertion
  <2>2. insertions' \in 0..(SweepEvery - 1)
    BY <1>1, <2>1
  <2> QED BY <2>1, <2>2, SweptIsFresh DEF CacheTypes, AllFresh
<1>3. CASE ~SweepDue
  <2>1. results' = res /\ skip' = skp /\ insertions' = insertions + 1
    BY <1>3 DEF CountInsertion
  <2>2. insertions' \in 0..(SweepEvery - 1) /\ ~(insertions' < insertions)
    BY <1>1, <1>3, <2>1 DEF SweepDue
  <2> QED BY <2>1, <2>2 DEF CacheTypes
<1> QED BY <1>2, <1>3

\* What a step may do to the cache: skip c, or anything that skips nothing.
Skips(c) == MarkSkip(c) \/ MoveToSkip(c)
Other(c) ==
  \/ SkipLookup(c) \/ ResultLookup(c) \/ PutResult(c) \/ Invalidate(c)
  \/ UNCHANGED cache

LEMMA PopInTier ==
  ASSUME NEW tier \in Tier, NEW c
  PROVE  Pop(tier, c) \in Tier /\ DOMAIN Pop(tier, c) \subseteq DOMAIN tier
<1>1. DOMAIN tier \ {c} \in SUBSET DOMAIN tier
  OBVIOUS
<1> QED BY <1>1, KeptInTier DEF Pop

LEMMA CacheStepKeeps ==
  ASSUME CacheTypes, now \in Times, NEW c \in Contents, Skips(c) \/ Other(c)
  PROVE  /\ CacheTypes'
         /\ \/ DOMAIN skip' \subseteq DOMAIN skip
            \/ Skips(c) /\ DOMAIN skip' \subseteq DOMAIN skip \cup {c}
         /\ insertions' < insertions => AllFresh
<1>0. results \in Tier /\ skip \in Tier /\ insertions \in Int
      /\ insertions \in 0..(SweepEvery - 1)
  BY DEF CacheTypes
<1>1. CASE MarkSkip(c)
  <2>1. CountInsertion(results, Capped(Write(skip, c)))
    BY <1>1 DEF MarkSkip
  <2>2. /\ Capped(Write(skip, c)) \in Tier
        /\ DOMAIN Capped(Write(skip, c)) \subseteq DOMAIN skip \cup {c}
    BY <1>0, WrittenInTier
  <2> QED BY <1>0, <1>1, <2>1, <2>2, InsertionKeeps DEF Skips
<1>2. CASE MoveToSkip(c)
  <2>1. CountInsertion(Pop(results, c), Capped(Write(skip, c)))
    BY <1>2 DEF MoveToSkip
  <2>2. /\ Capped(Write(skip, c)) \in Tier /\ Pop(results, c) \in Tier
        /\ DOMAIN Capped(Write(skip, c)) \subseteq DOMAIN skip \cup {c}
    BY <1>0, WrittenInTier, PopInTier
  <2> QED BY <1>0, <1>2, <2>1, <2>2, InsertionKeeps DEF Skips
<1>3. CASE Other(c)
  <2>1. CASE PutResult(c)
    <3>1. CountInsertion(Capped(Write(results, c)), skip) /\ Capped(Write(results, c)) \in Tier
      BY <1>0, <2>1, WrittenInTier DEF PutResult
    <3> QED BY <1>0, <3>1, InsertionKeeps
  <2>2. CASE ~PutResult(c)
    <3>1. /\ results' \in Tier /\ skip' \in Tier /\ DOMAIN skip' \subseteq DOMAIN skip
          /\ insertions' = insertions
      BY <1>0, <1>3, <2>2, PopInTier
         DEF Other, SkipLookup, ResultLookup, Invalidate, cache
    <3> QED BY <1>0, <3>1 DEF CacheTypes
  <2> QED BY <2>1, <2>2
<1> QED BY <1>1, <1>2, <1>3 DEF Skips

LEMMA OtherSkipsNothing ==
  ASSUME CacheTypes, now \in Times, NEW c \in Contents, Other(c)
  PROVE  DOMAIN skip' \subseteq DOMAIN skip
<1>0. results \in Tier /\ skip \in Tier
  BY DEF CacheTypes
<1>1. CASE PutResult(c)
  <2>1. CountInsertion(Capped(Write(results, c)), skip) /\ Capped(Write(results, c)) \in Tier
    BY <1>0, <1>1, WrittenInTier DEF PutResult
  <2> QED BY <1>0, <2>1, InsertionKeeps
<1>2. CASE ~PutResult(c)
  BY <1>0, <1>2, PopInTier DEF Other, SkipLookup, ResultLookup, Invalidate, cache
<1> QED BY <1>1, <1>2

-----------------------------------------------------------------------------
(* The calls: why a content is skipped, and how failures are counted.         *)

CallsTyped ==
  /\ Types
  /\ running \subseteq Threads /\ IsFiniteSet(running)
  /\ min_ratio \in [Threads -> MinRatios \cup {0}]
  /\ \A t \in running : min_ratio[t] \in MinRatios
  /\ rust \subseteq Contents /\ python \subseteq Contents

\* A content is on its way to the skip set because this call turned its ratio
\* down, or because a shim vetoed it.
SkipReasons ==
  \A t \in Threads, c \in Contents :
    /\ slot[t][c] = "tight" => ~Accepts(t, c)
    /\ slot[t][c] = "vetoed" => c \notin Crushed

\* Every failure of a streak was a request of its own, and none of those running
\* has ended; the breaker's counter is where the streak is between two openings.
BreakerCounts ==
  /\ streak \in Nat /\ failures = streak % Threshold
  /\ requests \in 0..MaxRequests /\ streak + Cardinality(running) <= requests
  /\ open_until \in 0..(MaxEvents + Cooldown)
  /\ now \in Times /\ losses \in Times /\ now + losses <= MaxEvents

CallsInv == CallsTyped /\ CacheTypes /\ SkipReasons /\ SkipJustified /\ BreakerCounts

LEMMA CallsInvTypeOK == CallsInv => TypeOK
<1> SUFFICES ASSUME CallsInv PROVE TypeOK
  OBVIOUS
<1>1. IsFiniteSet(running) => Cardinality(running) \in Nat
  BY FS_CardinalityType
<1>2. streak \in 0..MaxRequests
  BY <1>1, RequestAssumption DEF CallsInv, CallsTyped, BreakerCounts
<1>3. failures \in 0..(Threshold - 1)
  BY RequestAssumption DEF CallsInv, BreakerCounts
<1> QED BY <1>2, <1>3
        DEF CallsInv, CallsTyped, Types, CacheTypes, BreakerCounts, TypeOK, Times

\* What a step on a content does: one move, with its reason, and one operation
\* of the cache.
Reason(t, c, from, to) ==
  /\ Moves(t, c, from, to)
  /\ to = "tight" => ~Accepts(t, c)
  /\ to = "vetoed" => c \notin Crushed
  /\ \/ Other(c)
     \/ Skips(c) /\ (from \in {"tight", "vetoed"} \/ ~Accepts(t, c))

LEMMA ContentStepReason ==
  ASSUME NEW t \in Threads, NEW c \in Contents, ContentStep(t, c)
  PROVE  \E from, to \in Status : Reason(t, c, from, to)
<1> USE StatusNames DEF Reason, Skips, Other
<1>1. CASE LookupSkip(t, c)
  <2>1. Moves(t, c, "todo", "original") \/ Moves(t, c, "todo", "unskipped")
    BY <1>1 DEF LookupSkip
  <2> QED BY <1>1, <2>1 DEF LookupSkip
<1>2. CASE LookupResult(t, c)
  <2>1. \/ Moves(t, c, "unskipped", "pending")
        \/ Moves(t, c, "unskipped", "hit")
        \/ Moves(t, c, "unskipped", "tight") /\ ~Accepts(t, c)
    BY <1>2 DEF LookupResult
  <2> QED BY <1>2, <2>1 DEF LookupResult
<1>3. CASE Tightened(t, c)
  BY <1>3 DEF Tightened
<1>4. CASE ReMirror(t, c)
  BY <1>4 DEF ReMirror
<1>5. CASE VerifyBacked(t, c)
  BY <1>5 DEF VerifyBacked
<1>6. CASE DropUnbacked(t, c)
  BY <1>6 DEF DropUnbacked
<1>7. CASE Crush(t, c)
  <2>1. \/ Moves(t, c, "pending", "crushed")
        \/ Moves(t, c, "pending", "backed")
        \/ Moves(t, c, "pending", "failed")
    BY <1>7 DEF Crush
  <2> QED BY <1>7, <2>1 DEF Crush
<1>8. CASE MirrorTyped(t, c)
  BY <1>8 DEF MirrorTyped
<1>9. CASE PersistShim(t, c)
  BY <1>9 DEF PersistShim
<1>10. CASE Gated(t, c)
  BY <1>10 DEF Gated
<1>11. CASE Accepted(t, c)
  BY <1>11 DEF Accepted
<1>12. CASE Rejected(t, c)
  BY <1>12 DEF Rejected
<1> QED BY <1>1, <1>2, <1>3, <1>4, <1>5, <1>6, <1>7, <1>8, <1>9, <1>10, <1>11, <1>12
        DEF ContentStep

\* A step on a content moves entries of the stores and the history within their types.
LEMMA ContentStepStores ==
  ASSUME NEW t \in Threads, NEW c \in Contents, ContentStep(t, c),
         rust \subseteq Contents, python \subseteq Contents
  PROVE  rust' \subseteq Contents /\ python' \subseteq Contents
<1>1. CASE Crush(t, c)
  BY <1>1 DEF Crush
<1>2. CASE MirrorTyped(t, c)
  BY <1>2 DEF MirrorTyped
<1>3. CASE PersistShim(t, c)
  BY <1>3 DEF PersistShim
<1>4. CASE ReMirror(t, c)
  BY <1>4 DEF ReMirror
<1>5. CASE UNCHANGED stores
  BY <1>5 DEF stores
<1> QED BY <1>1, <1>2, <1>3, <1>4, <1>5
        DEF ContentStep, LookupSkip, LookupResult, Tightened, VerifyBacked, DropUnbacked,
            Gated, Accepted, Rejected

LEMMA ContentStepKeepsCalls ==
  ASSUME CallsInv, Types', NEW t \in Threads, NEW c \in Contents, ContentStep(t, c)
  PROVE  /\ CallsInv'
         /\ insertions' < insertions => AllFresh
         /\ UNCHANGED <<streak, open_until>>
<1>1. PICK from \in Status, to \in Status : Reason(t, c, from, to)
  BY ContentStepReason
<1>2. /\ Moves(t, c, from, to) /\ Types /\ t \in running
      /\ now' = now /\ running' = running /\ min_ratio' = min_ratio
      /\ UNCHANGED <<failures, open_until, streak, requests, losses>>
  BY <1>1 DEF Reason, Moves, breaker, bounds, CallsInv, CallsTyped
<1>3. /\ slot[t][c] = from /\ slot'[t][c] = to
      /\ \A u \in Threads, d \in Contents : u # t \/ d # c => slot'[u][d] = slot[u][d]
  BY <1>2, MovesOne
<1>4. CallsTyped'
  BY <1>2, ContentStepStores DEF CallsInv, CallsTyped
<1>5. /\ CacheTypes'
      /\ \/ DOMAIN skip' \subseteq DOMAIN skip
         \/ Skips(c) /\ DOMAIN skip' \subseteq DOMAIN skip \cup {c}
      /\ insertions' < insertions => AllFresh
  BY <1>1, CacheStepKeeps DEF Reason, CallsInv, BreakerCounts
<1>6. SkipReasons'
  <2> SUFFICES ASSUME NEW u \in Threads, NEW d \in Contents
               PROVE  /\ slot'[u][d] = "tight" => ~Accepts(u, d)'
                      /\ slot'[u][d] = "vetoed" => d \notin Crushed
    BY DEF SkipReasons
  <2>0. Accepts(u, d)' <=> Accepts(u, d)
    BY <1>2 DEF Accepts
  <2>1. CASE u = t /\ d = c
    BY <1>1, <1>3, <2>0, <2>1 DEF Reason
  <2>2. CASE ~(u = t /\ d = c)
    BY <1>3, <2>0, <2>2 DEF CallsInv, SkipReasons
  <2> QED BY <2>1, <2>2
<1>7. SkipJustified'
  <2>1. CASE DOMAIN skip' \subseteq DOMAIN skip
    BY <2>1 DEF CallsInv, SkipJustified
  <2>2. CASE ~(DOMAIN skip' \subseteq DOMAIN skip)
    <3>1. Skips(c) /\ DOMAIN skip' \subseteq DOMAIN skip \cup {c}
      BY <1>5, <2>2
    <3>2. \A s \in DOMAIN skip : s \notin Crushed \/ \E m \in MinRatios : Ratio[s] >= m
      BY DEF CallsInv, SkipJustified
    <3>3. from = "vetoed" \/ ~Accepts(t, c)
      <4>1. ~Other(c)
        BY <2>2, OtherSkipsNothing DEF CallsInv, BreakerCounts
      <4> QED BY <1>1, <1>3, <4>1 DEF Reason, CallsInv, SkipReasons
    <3>4. CASE from = "vetoed"
      BY <1>3, <3>1, <3>2, <3>4 DEF SkipJustified, CallsInv, SkipReasons
    <3>5. CASE ~Accepts(t, c)
      <4>1. min_ratio[t] \in MinRatios /\ ~(Ratio[c] < min_ratio[t])
        BY <1>2, <3>5 DEF Accepts, CallsInv, CallsTyped
      <4>2. Ratio[c] \in Nat /\ min_ratio[t] \in Nat
        BY <4>1, RequestAssumption
      <4>3. \E m \in MinRatios : Ratio[c] >= m
        BY <4>1, <4>2
      <4> QED BY <3>1, <3>2, <4>3 DEF SkipJustified
    <3> QED BY <3>3, <3>4, <3>5
  <2> QED BY <2>1, <2>2
<1>8. BreakerCounts'
  BY <1>2 DEF CallsInv, BreakerCounts
<1> QED BY <1>2, <1>4, <1>5, <1>6, <1>7, <1>8 DEF CallsInv

\* Counting modulo the threshold: one more failure is the next of its round, or
\* the first of another.
LEMMA NextOfRound ==
  ASSUME NEW s \in Nat
  PROVE  /\ s % Threshold \in 0..(Threshold - 1)
         /\ (s + 1) % Threshold = IF (s % Threshold) + 1 >= Threshold THEN 0 ELSE (s % Threshold) + 1
<1>1. Threshold \in Nat \ {0}
  BY RequestAssumption
<1> DEFINE q == s \div Threshold
<1> DEFINE f == s % Threshold
<1>2. q \in Nat /\ f \in 0..(Threshold - 1) /\ s = f + Threshold * q
  BY <1>1
<1> HIDE DEF q, f
<1>3. CASE f + 1 < Threshold
  <2>1. f + 1 \in 0..(Threshold - 1)
    BY <1>1, <1>2, <1>3
  <2>2. (f + 1 + Threshold * q) % Threshold = f + 1
    BY <1>1, <1>2, <2>1
  <2>3. s + 1 = f + 1 + Threshold * q
    BY <1>1, <1>2
  <2> QED BY <1>1, <1>2, <1>3, <2>2, <2>3 DEF f
<1>4. CASE ~(f + 1 < Threshold)
  <2>1. Threshold * q + Threshold = Threshold * (q + 1)
    BY <1>1, <1>2
  <2>2. s + 1 = 0 + Threshold * (q + 1)
    BY <1>1, <1>2, <1>4, <2>1
  <2>3. q + 1 \in Nat /\ 0 \in 0..(Threshold - 1)
    BY <1>1, <1>2
  <2>4. (0 + Threshold * (q + 1)) % Threshold = 0
    BY <1>1, <2>3
  <2> QED BY <1>1, <1>2, <1>4, <2>2, <2>4 DEF f
<1> QED BY <1>2, <1>3, <1>4 DEF f

\* What the breaker may do in a step.
Trips == streak' > streak /\ streak' % Threshold = 0
BreakerMoves == IF Trips THEN open_until' = now + Cooldown ELSE UNCHANGED open_until

\* A call that begins takes a request more, and one thread more with it.
LEMMA BeginKeepsCalls ==
  ASSUME CallsInv, Types', NEW t \in Threads, Begin(t)
  PROVE  CallsInv' /\ UNCHANGED <<streak, open_until, insertions>>
<1> USE StatusNames
<1>0. /\ t \notin running /\ requests < MaxRequests /\ requests' = requests + 1
      /\ UNCHANGED <<now, cache, stores, breaker, losses>>
      /\ IsFiniteSet(running) /\ Cardinality(running) \in Nat /\ Types
      /\ slot \in [Threads -> [Contents -> Status]]
      /\ min_ratio \in [Threads -> MinRatios \cup {0}]
  BY FS_CardinalityType DEF Begin, CallsInv, CallsTyped, Types
<1>1. /\ running' \subseteq running \cup {t}
      /\ t \in running' => min_ratio'[t] \in MinRatios
      /\ min_ratio' \in [Threads -> MinRatios \cup {0}]
      /\ \A u \in Threads \ {t} : min_ratio'[u] = min_ratio[u]
      /\ \A u \in Threads, c \in Contents :
           slot'[u][c] \in {"tight", "vetoed"} => slot'[u][c] = slot[u][c] /\ min_ratio'[u] = min_ratio[u]
  <2>1. CASE UNCHANGED <<running, slot, min_ratio>>
    BY <1>0, <2>1
  <2>2. CASE /\ running' = running \cup {t}
             /\ \E m \in MinRatios : min_ratio' = [min_ratio EXCEPT ![t] = m]
             /\ \E S \in SUBSET Contents :
                  slot' = [slot EXCEPT ![t] =
                             [c \in Contents |-> IF c \in S THEN "todo" ELSE "none"]]
    <3>1. \A c \in Contents : slot'[t][c] \notin {"tight", "vetoed"}
      BY <1>0, <2>2
    <3>2. \A u \in Threads \ {t} : slot'[u] = slot[u] /\ min_ratio'[u] = min_ratio[u]
      BY <1>0, <2>2
    <3>3. min_ratio' \in [Threads -> MinRatios \cup {0}] /\ min_ratio'[t] \in MinRatios
      BY <1>0, <2>2
    <3> QED BY <2>2, <3>1, <3>2, <3>3
  <2> QED BY <2>1, <2>2 DEF Begin
<1>2. IsFiniteSet(running') /\ Cardinality(running') <= Cardinality(running) + 1
      /\ Cardinality(running') \in Nat
  <2>1. /\ IsFiniteSet(running \cup {t})
        /\ Cardinality(running \cup {t}) = Cardinality(running) + 1
    BY <1>0, FS_AddElement
  <2> QED BY <1>1, <2>1, FS_Subset, FS_CardinalityType
<1>3. CallsTyped'
  BY <1>0, <1>1, <1>2 DEF CallsInv, CallsTyped, stores
<1>4. CacheTypes' /\ SkipJustified'
  BY <1>0 DEF CallsInv, CacheTypes, SkipJustified, cache
<1>5. SkipReasons'
  BY <1>1 DEF CallsInv, SkipReasons, Accepts
<1>6. BreakerCounts'
  BY <1>0, <1>2, RequestAssumption DEF CallsInv, BreakerCounts, breaker
<1> QED BY <1>0, <1>3, <1>4, <1>5, <1>6 DEF CallsInv, breaker, cache

\* A call that ends leaves the pipeline and resets the streak, extends it or leaves it.
LEMMA ReturnsKeepsCalls ==
  ASSUME CallsInv, Types', NEW t \in Threads, NEW contents, t \in running, Returns(t, contents)
  PROVE  /\ CallsTyped' /\ CacheTypes' /\ SkipReasons' /\ SkipJustified'
         /\ UNCHANGED <<now, insertions, requests, losses>>
         /\ Cardinality(running) \in Nat /\ Cardinality(running') = Cardinality(running) - 1
<1> USE StatusNames
<1>0. /\ UNCHANGED <<now, cache, stores, bounds>> /\ running' = running \ {t}
      /\ slot' = [slot EXCEPT ![t] = NoRequest] /\ min_ratio' = [min_ratio EXCEPT ![t] = 0]
      /\ slot \in [Threads -> [Contents -> Status]]
      /\ min_ratio \in [Threads -> MinRatios \cup {0}]
      /\ IsFiniteSet(running)
  BY DEF Returns, CallsInv, CallsTyped, Types
<1>1. IsFiniteSet(running') /\ Cardinality(running') = Cardinality(running) - 1
      /\ Cardinality(running) \in Nat
  BY <1>0, FS_RemoveElement, FS_CardinalityType
<1>2. /\ \A u \in Threads \ {t} : slot'[u] = slot[u] /\ min_ratio'[u] = min_ratio[u]
      /\ \A c \in Contents : slot'[t][c] = "none"
      /\ min_ratio' \in [Threads -> MinRatios \cup {0}]
  BY <1>0 DEF NoRequest
<1>3. CallsTyped'
  BY <1>0, <1>1, <1>2 DEF CallsInv, CallsTyped, stores
<1>4. CacheTypes' /\ SkipJustified'
  BY <1>0 DEF CallsInv, CacheTypes, SkipJustified, cache
<1>5. SkipReasons'
  BY <1>2 DEF CallsInv, SkipReasons, Accepts
<1> QED BY <1>0, <1>1, <1>3, <1>4, <1>5 DEF cache, bounds

LEMMA EndsKeepsCalls ==
  ASSUME CallsInv, Types', NEW t \in Threads, Ends(t)
  PROVE  CallsInv' /\ BreakerMoves /\ UNCHANGED insertions
<1>1. t \in running /\ \E contents : Returns(t, contents)
  BY DEF Ends, Succeed, Fail, Interrupt
<1>2. /\ CallsTyped' /\ CacheTypes' /\ SkipReasons' /\ SkipJustified'
      /\ UNCHANGED <<now, insertions, requests, losses>>
      /\ Cardinality(running) \in Nat /\ Cardinality(running') = Cardinality(running) - 1
  BY <1>1, ReturnsKeepsCalls
<1>3. /\ streak \in Nat /\ failures = streak % Threshold
      /\ requests \in 0..MaxRequests /\ streak + Cardinality(running) <= requests
      /\ open_until \in 0..(MaxEvents + Cooldown)
      /\ now \in Times /\ losses \in Times /\ now + losses <= MaxEvents
      /\ Threshold \in Nat \ {0} /\ Cooldown \in Nat /\ MaxEvents \in Nat /\ MaxRequests \in Nat
  BY RequestAssumption DEF CallsInv, BreakerCounts
<1>4. CASE Succeed(t)
  <2>1. failures' = 0 /\ streak' = 0 /\ open_until' = open_until
    BY <1>4 DEF Succeed
  <2>2. 0 % Threshold = 0
    BY <1>3
  <2>3. ~Trips
    BY <1>3, <2>1 DEF Trips
  <2> QED BY <1>2, <1>3, <2>1, <2>2, <2>3 DEF CallsInv, BreakerCounts, BreakerMoves
<1>5. CASE Interrupt(t)
  <2>1. failures' = failures /\ streak' = streak /\ open_until' = open_until
    BY <1>5 DEF Interrupt, breaker
  <2>2. ~Trips
    BY <1>3, <2>1 DEF Trips
  <2> QED BY <1>2, <1>3, <2>1, <2>2 DEF CallsInv, BreakerCounts, BreakerMoves
<1>6. CASE Fail(t)
  <2>1. RecordFailure
    BY <1>6 DEF Fail
  <2>2. /\ (streak + 1) % Threshold = IF failures + 1 >= Threshold THEN 0 ELSE failures + 1
        /\ failures \in 0..(Threshold - 1)
    BY <1>3, NextOfRound
  <2>3. streak' \in Nat /\ failures' = streak' % Threshold /\ streak' + Cardinality(running') <= requests
    BY <1>2, <1>3, <2>1, <2>2 DEF RecordFailure
  <2>4. open_until' \in 0..(MaxEvents + Cooldown)
    BY <1>3, <2>1 DEF RecordFailure, Times
  <2>5. Trips <=> failures + 1 >= Threshold
    BY <1>3, <2>1, <2>2 DEF Trips, RecordFailure
  <2>6. BreakerMoves
    BY <2>1, <2>5 DEF BreakerMoves, RecordFailure
  <2> QED BY <1>2, <1>3, <2>3, <2>4, <2>6 DEF CallsInv, BreakerCounts
<1> QED BY <1>2, <1>4, <1>5, <1>6 DEF Ends

\* The clock, the losses and what stutters.
LEMMA WorldKeepsCalls ==
  ASSUME CallsInv,
         \/ Tick \/ UNCHANGED vars
         \/ \E c \in Contents : LosesRust(c) \/ LosesPython(c)
  PROVE  CallsInv' /\ UNCHANGED <<streak, open_until, insertions>>
<1>1. /\ UNCHANGED <<cache, request, breaker, seen, requests>>
      /\ rust' \subseteq rust /\ python' \subseteq python
  BY DEF Tick, LosesRust, LosesPython, vars, request, stores, bounds
<1>2. now' \in Times /\ losses' \in Times /\ now' + losses' <= MaxEvents
  BY RequestAssumption
     DEF CallsInv, BreakerCounts, Times, Tick, LosesRust, LosesPython, vars, request, stores, bounds
<1>3. CallsTyped'
  BY <1>1 DEF CallsInv, CallsTyped, Types, request
<1>4. CacheTypes' /\ SkipJustified'
  BY <1>1 DEF CallsInv, CacheTypes, SkipJustified, cache
<1>5. SkipReasons'
  BY <1>1 DEF CallsInv, SkipReasons, Accepts, request
<1>6. BreakerCounts'
  BY <1>1, <1>2 DEF CallsInv, BreakerCounts, breaker, request
<1> QED BY <1>1, <1>3, <1>4, <1>5, <1>6 DEF CallsInv, breaker, cache

\* What a step does to the breaker and, when it sweeps, to the cache.
LEMMA NextKeepsCalls ==
  ASSUME CallsInv, Types', [Next]_vars
  PROVE  /\ CallsInv'
         /\ BreakerMoves
         /\ insertions' < insertions => AllFresh
<1>1. insertions \in Int /\ streak \in Int
  BY DEF CallsInv, CacheTypes, BreakerCounts
<1>2. UNCHANGED <<streak, open_until>> => BreakerMoves
  BY <1>1 DEF BreakerMoves, Trips
<1>3. UNCHANGED insertions => ~(insertions' < insertions)
  BY <1>1
<1>4. ASSUME NEW t \in Threads, Begin(t)
      PROVE  CallsInv' /\ UNCHANGED <<streak, open_until, insertions>>
  BY <1>4, BeginKeepsCalls
<1>5. ASSUME NEW t \in Threads, NEW c \in Contents, ContentStep(t, c)
      PROVE  /\ CallsInv' /\ UNCHANGED <<streak, open_until>>
             /\ insertions' < insertions => AllFresh
  BY <1>5, ContentStepKeepsCalls
<1>6. ASSUME NEW t \in Threads, Ends(t)
      PROVE  CallsInv' /\ BreakerMoves /\ UNCHANGED insertions
  BY <1>6, EndsKeepsCalls
<1>7. CASE \/ Tick \/ UNCHANGED vars
           \/ \E c \in Contents : LosesRust(c) \/ LosesPython(c)
  BY <1>2, <1>3, <1>7, WorldKeepsCalls
<1> QED BY <1>2, <1>3, <1>4, <1>5, <1>6, <1>7 DEF Next, Progress, Ends

LEMMA InitCallsInv == Init => CallsInv
<1> SUFFICES ASSUME Init PROVE CallsInv
  OBVIOUS
<1>1. OnTheWay
  BY InitOnTheWay
<1>2. CallsTyped
  BY <1>1, FS_EmptySet DEF Init, CallsTyped, OnTheWay
<1>3. EmptyTier \in Tier /\ DOMAIN EmptyTier = {}
  <2>1. Dict(EmptyTier, {}) /\ Cardinality({}) <= MaxEntries
    BY FS_EmptySet, RouterCacheAssumption DEF Dict, EmptyTier
  <2> QED BY <2>1, TierIsDicts DEF EmptyTier
<1>4. CacheTypes /\ SkipJustified
  BY <1>3, RouterCacheAssumption DEF Init, CacheInit, CacheTypes, SkipJustified
<1>5. SkipReasons
  BY DEF Init, SkipReasons, NoRequest
<1>6. BreakerCounts
  <2>1. 0 % Threshold = 0
    BY RequestAssumption
  <2> QED BY <2>1, FS_EmptySet, RequestAssumption DEF Init, CacheInit, BreakerCounts, Times
<1> QED BY <1>2, <1>4, <1>5, <1>6 DEF CallsInv

LEMMA AlwaysCallsInv == Spec => []CallsInv
<1>1. OnTheWay' => Types'
  BY DEF OnTheWay
<1> QED BY <1>1, InitCallsInv, NextKeepsCalls, AlwaysOnTheWay, PTL DEF Spec

\* Types of every variable: the tiers of CompressionCache are dicts within
\* _max_entries and the counter is short of a sweep.
THEOREM RequestTypes == Spec => []TypeOK
BY AlwaysCallsInv, CallsInvTypeOK, PTL

\* The skip set of content_router.py _lookup_cached_disposition and
\* _store_disposition: no content of SmartCrusher's is in it that every request takes.
THEOREM SkipsAreJustified == Spec => []SkipJustified
<1>1. CallsInv => SkipJustified
  BY DEF CallsInv
<1> QED BY <1>1, AlwaysCallsInv, PTL

\* _count_insertion_and_maybe_sweep_locked of router_cache.py: when the counter
\* starts again, neither tier holds an expired entry.
THEOREM SweepsLeaveNothingExpired == Spec => StragglersSwept
<1>1. CallsInv /\ Types' /\ [Next]_vars
        => [insertions' < insertions =>
              \A tier \in {results', skip'} : \A k \in DOMAIN tier : Fresh(tier[k])]_vars
  BY NextKeepsCalls DEF AllFresh
<1>2. OnTheWay' => Types'
  BY DEF OnTheWay
<1> QED BY <1>1, <1>2, AlwaysCallsInv, AlwaysOnTheWay, PTL DEF Spec, StragglersSwept

\* The circuit breaker of pipeline.py: it opens on every Threshold-th failure in a
\* row, whichever threads the failures came from, and on no other step.
THEOREM BreakerTripsOnStreak == Spec => TripsOnStreak
<1>1. CallsInv /\ Types' /\ [Next]_vars
        => [IF streak' > streak /\ streak' % Threshold = 0 THEN open_until' = now + Cooldown
            ELSE UNCHANGED open_until]_vars
  BY NextKeepsCalls DEF BreakerMoves, Trips
<1>2. OnTheWay' => Types'
  BY DEF OnTheWay
<1> QED BY <1>1, <1>2, AlwaysCallsInv, AlwaysOnTheWay, PTL DEF Spec, TripsOnStreak

\* While no content failed: the first that is before its turn has its turn.
LEMMA SomeContentMoves ==
  ASSUME NEW t \in Threads, Types, In(t, {"failed"}) = {},
         NEW b \in Contents, slot[t][b] \notin Settled
  PROVE  \E c \in Contents : MayMove(t, c)
<1> SUFFICES ASSUME \A c \in Contents : ~MayMove(t, c) PROVE FALSE
  OBVIOUS
<1>1. \A c \in Contents : slot[t][c] \in Status
  BY DEF Types
<1>2. ~Raised(t)
  BY DEF Raised, In
<1>3. \A c \in Contents : slot[t][c] \notin LookingUp \cup {"crushed", "failed"}
  BY DEF MayMove, In
<1>4. \A c \in Contents \cap Blocks : slot[t][c] \notin Computing
  BY <1>2, <1>3 DEF MayMove, MayCompute, MayMerge, Computing
<1>5. Busy(t) = {}
  BY <1>3, <1>4 DEF Busy, In
<1>6. \A c \in Contents : slot[t][c] # "todo"
  BY <1>2, <1>5 DEF MayMove
<1>7. Pass1Done(t)
  BY <1>5, <1>6 DEF Pass1Done, In
<1>8. \A c \in Contents : slot[t][c] # "pending"
  BY <1>2, <1>7 DEF MayMove, MayCompute
<1>9. Pass2Done(t)
  BY <1>3, <1>7, <1>8 DEF Pass2Done, In
<1>10. \A c \in Contents : slot[t][c] \notin {"backed", "vetoed"}
  BY <1>2, <1>9 DEF MayMove, MayMerge
<1> QED
  BY <1>1, <1>3, <1>6, <1>8, <1>10 DEF Status, LookingUp, Computing

\* The fail-open boundary of pipeline.py and the passes of content_router.py: until
\* it returns, a call has a content whose turn it is, or may end.
THEOREM CallsWaitForNothing == Spec => []NobodyWaits
<1>1. TypeOK /\ OnTheWay => NobodyWaits
  <2> SUFFICES ASSUME TypeOK, OnTheWay, NEW t \in running, ~MayEnd(t)
               PROVE  \E c \in Contents : MayMove(t, c)
    BY DEF NobodyWaits
  <2>1. t \in Threads /\ Types
    BY DEF TypeOK, OnTheWay
  <2>2. PICK b \in Contents : slot[t][b] \notin Settled
    BY DEF MayEnd
  <2>3. CASE In(t, {"failed"}) = {}
    BY <2>1, <2>2, <2>3, SomeContentMoves
  <2>4. CASE In(t, {"failed"}) # {}
    <3>1. In(t, {"crushed"}) # {}
      BY <2>4 DEF MayEnd
    <3>2. PICK c \in Contents : slot[t][c] = "crushed"
      BY <3>1 DEF In
    <3> QED
      BY <3>2 DEF MayMove
  <2> QED
    BY <2>3, <2>4
<1> QED
  BY <1>1, RequestTypes, AlwaysOnTheWay, PTL
=============================================================================
