------------------------- MODULE PurgeCascadeProofs -------------------------
(***************************************************************************)
(* Proofs about PurgeCascade, for every set of hashes and every graph of   *)
(* references, cycles included, and any number of steps of other callers.  *)
(* The last part is about the report: ReportInv follows the calls as a     *)
(* set, with what each has still to consider.                              *)
(***************************************************************************)
EXTENDS PurgeCascade, SequenceTheorems, TLAPS

\* The part of TypeOK that is about the stack.
StackOK(st, seen) ==
  /\ st \in Seq(Frame)
  /\ \A i, j \in 1..Len(st) : st[i].key = st[j].key => i = j
  /\ \A i \in 1..Len(st) : st[i].key \in seen

SetsOK ==
  /\ refs \in [Keys -> SUBSET Keys]
  /\ live \subseteq Keys
  /\ visited \subseteq Keys
  /\ deleted \subseteq visited
  /\ skipped \subseteq Keys
  /\ done \in BOOLEAN
  /\ before \subseteq Keys /\ stored \subseteq Keys /\ lost \subseteq Keys

LEMMA TypeParts ==
  /\ TypeOK <=> SetsOK /\ StackOK(stack, visited)
  /\ TypeOK' <=> SetsOK' /\ StackOK(stack', visited')
  BY DEF TypeOK, SetsOK, StackOK

\* The innermost frame changes, but not the key it is for.
LEMMA StackReplace ==
  ASSUME NEW st, NEW seen, StackOK(st, seen), st # <<>>,
         NEW f \in Frame, f.key = st[Len(st)].key
  PROVE  StackOK([st EXCEPT ![Len(st)] = f], seen)
  <1>1. Len(st) \in 1..Len(st)
    BY EmptySeq, LenProperties DEF StackOK
  <1>2. /\ [st EXCEPT ![Len(st)] = f] \in Seq(Frame)
        /\ Len([st EXCEPT ![Len(st)] = f]) = Len(st)
        /\ \A j \in 1..Len(st) :
             [st EXCEPT ![Len(st)] = f][j] = IF j = Len(st) THEN f ELSE st[j]
    BY <1>1, ExceptSeq DEF StackOK
  <1> QED BY <1>1, <1>2 DEF StackOK

\* A call for a key not seen before is pushed.
LEMMA StackPush ==
  ASSUME NEW st, NEW seen, StackOK(st, seen),
         NEW f \in Frame, f.key \notin seen
  PROVE  StackOK(Append(st, f), seen \cup {f.key})
  <1>1. /\ Append(st, f) \in Seq(Frame)
        /\ Len(Append(st, f)) = Len(st) + 1
        /\ \A j \in 1..(Len(st) + 1) : Append(st, f)[j] = IF j = Len(st) + 1 THEN f ELSE st[j]
    BY AppendProperties, LenProperties DEF StackOK
  <1>2. Len(st) \in Nat
    BY LenProperties DEF StackOK
  <1> QED BY <1>1, <1>2 DEF StackOK

\* The stack without the innermost call.
LEMMA Popped ==
  ASSUME NEW st, NEW seen, StackOK(st, seen), st # <<>>
  PROVE  /\ Len(st) \in Nat \ {0}
         /\ SubSeq(st, 1, Len(st) - 1) \in Seq(Frame)
         /\ Len(SubSeq(st, 1, Len(st) - 1)) = Len(st) - 1
         /\ \A i \in 1..(Len(st) - 1) : SubSeq(st, 1, Len(st) - 1)[i] = st[i]
  <1>1. Len(st) \in Nat \ {0}
    BY EmptySeq, LenProperties DEF StackOK
  <1>2. \A i \in 1..(Len(st) - 1) : st[i] \in Frame
    BY <1>1, ElementOfSeq DEF StackOK
  <1>3. 1 \in Int /\ Len(st) - 1 \in Int
    BY <1>1
  <1>4. /\ SubSeq(st, 1, Len(st) - 1) \in Seq(Frame)
        /\ Len(SubSeq(st, 1, Len(st) - 1)) =
             IF 1 <= Len(st) - 1 THEN Len(st) - 1 - 1 + 1 ELSE 0
        /\ \A i \in 1..(Len(st) - 1 - 1 + 1) : SubSeq(st, 1, Len(st) - 1)[i] = st[1 + i - 1]
    BY <1>2, <1>3, SubSeqProperties
  <1>5. \A i \in 1..(Len(st) - 1) : 1 + i - 1 = i
    OBVIOUS
  <1>6. Len(st) - 1 - 1 + 1 = Len(st) - 1
    BY <1>1
  <1> QED BY <1>1, <1>4, <1>5, <1>6

\* The innermost call returns.
LEMMA StackPop ==
  ASSUME NEW st, NEW seen, StackOK(st, seen), st # <<>>
  PROVE  StackOK(SubSeq(st, 1, Len(st) - 1), seen)
  <1> DEFINE t == SubSeq(st, 1, Len(st) - 1)
  <1>1. /\ Len(st) \in Nat \ {0} /\ t \in Seq(Frame) /\ Len(t) = Len(st) - 1
        /\ \A i \in 1..(Len(st) - 1) : t[i] = st[i]
    BY Popped
  <1> HIDE DEF t
  <1>4. \A i \in 1..Len(t) : i \in 1..Len(st) /\ t[i] = st[i]
    BY <1>1
  <1>5. \A i, j \in 1..Len(t) : t[i].key = t[j].key => i = j
    BY <1>4 DEF StackOK
  <1>6. \A i \in 1..Len(t) : t[i].key \in seen
    BY <1>4 DEF StackOK
  <1>7. StackOK(t, seen)
    BY <1>1, <1>5, <1>6 DEF StackOK
  <1> QED BY <1>7 DEF t

\* The innermost frame of a stack that has one.
LEMMA ActiveType ==
  ASSUME TypeOK, stack # <<>>
  PROVE  Active \in Frame /\ Active.key \in visited /\ Active.todo \subseteq Keys
  <1>1. Depth \in 1..Len(stack)
    BY EmptySeq, LenProperties DEF TypeOK, Depth
  <1>2. Active \in Frame
    BY <1>1, ElementOfSeq DEF TypeOK, Active
  <1> QED BY <1>1, <1>2 DEF TypeOK, Active, Frame

-----------------------------------------------------------------------------
LEMMA InitType == Init => TypeOK
  <1> SUFFICES ASSUME Init PROVE TypeOK
    OBVIOUS
  <1>1. TopFrame \in Frame /\ TopFrame.key = Top
    BY PurgeAssumption DEF TopFrame, Frame
  <1>2. StackOK(stack, visited)
    BY <1>1 DEF Init, StackOK
  <1>3. SetsOK
    BY PurgeAssumption DEF Init, SetsOK
  <1> QED BY <1>2, <1>3, TypeParts

LEMMA ReadEntryType == ASSUME TypeOK, ReadEntry PROVE TypeOK'
  <1>1. PICK f \in Frame : f.key = Active.key /\ stack' = [stack EXCEPT ![Depth] = f]
    <2>1. PICK nested \in SUBSET Keys : nested = MarkerHashes(Active.key)
      BY ActiveType DEF TypeOK, ReadEntry, InPhase, Frame, MarkerHashes
    <2> DEFINE f == [key |-> Active.key, phase |-> "delete", todo |-> nested]
    <2>2. f \in Frame /\ f.key = Active.key
      BY <2>1, ActiveType DEF ReadEntry, InPhase, Frame
    <2>3. stack' = [stack EXCEPT ![Depth] = f]
      BY <2>1, Zenon DEF ReadEntry
    <2> HIDE DEF f
    <2> QED BY <2>2, <2>3
  <1>2. StackOK(stack', visited')
    BY <1>1, StackReplace, TypeParts DEF ReadEntry, InPhase, Active, Depth
  <1> QED BY <1>2, TypeParts DEF SetsOK, ReadEntry, outcome, others

LEMMA DeleteEntryType == ASSUME TypeOK, DeleteEntry PROVE TypeOK'
  <1>1. PICK f \in Frame : f.key = Active.key /\ stack' = [stack EXCEPT ![Depth] = f]
    <2> DEFINE f == [key |-> Active.key, phase |-> "nested", todo |-> Active.todo]
    <2>1. f \in Frame /\ f.key = Active.key
      BY ActiveType DEF DeleteEntry, InPhase, Frame
    <2>2. f = [Active EXCEPT !.phase = "nested"]
      BY ActiveType DEF DeleteEntry, InPhase, Frame
    <2>3. stack' = [stack EXCEPT ![Depth] = [Active EXCEPT !.phase = "nested"]]
      BY Zenon DEF DeleteEntry, Active
    <2> QED BY <2>1, <2>2, <2>3
  <1>2. StackOK(stack', visited')
    BY <1>1, StackReplace, TypeParts DEF DeleteEntry, InPhase, Active, Depth
  <1>3. deleted' \subseteq visited' /\ live' \subseteq Keys
    BY ActiveType DEF TypeOK, DeleteEntry, InPhase
  <1> QED BY <1>2, <1>3, TypeParts DEF SetsOK, DeleteEntry, others

\* Taking a hash off the innermost frame's list.
LEMMA ForgetType ==
  ASSUME TypeOK, stack # <<>>, NEW n \in Keys
  PROVE  StackOK(Forget(n), visited)
  <1> DEFINE f == [key |-> Active.key, phase |-> Active.phase, todo |-> Active.todo \ {n}]
  <1>1. f \in Frame /\ f.key = Active.key
    BY ActiveType DEF Frame
  <1>2. f = [Active EXCEPT !.todo = Active.todo \ {n}]
    BY ActiveType DEF Frame
  <1>3. Forget(n) = [stack EXCEPT ![Depth] = [Active EXCEPT !.todo = Active.todo \ {n}]]
    BY Zenon DEF Forget, Active
  <1> HIDE DEF f
  <1> QED BY <1>1, <1>2, <1>3, StackReplace, TypeParts DEF Active, Depth

LEMMA NextNestedType == ASSUME TypeOK, NextNested PROVE TypeOK'
  <1>1. stack # <<>>
    BY DEF NextNested, InPhase
  <1>2. PICK n \in Keys : NestedVisited(n) \/ KeepShared(n) \/ Follow(n)
    BY <1>1, ActiveType DEF NextNested
  <1>3. CASE NestedVisited(n) \/ KeepShared(n)
    <2>1. StackOK(stack', visited')
      BY <1>1, <1>3, ForgetType DEF NestedVisited, KeepShared
    <2>2. visited' = visited /\ skipped' \subseteq Keys
      BY <1>3 DEF NestedVisited, KeepShared, TypeOK
    <2> QED BY <2>1, <2>2, TypeParts DEF SetsOK, NextNested, others
  <1>4. CASE Follow(n)
    <2> DEFINE f == [key |-> n, phase |-> "read", todo |-> {}]
    <2>1. f \in Frame /\ f.key = n
      BY DEF Frame
    <2>2. stack' = Append(Forget(n), f) /\ visited' = visited \cup {n} /\ n \notin visited
      BY <1>4 DEF Follow
    <2> HIDE DEF f
    <2>3. StackOK(stack', visited')
      BY <1>1, <2>1, <2>2, ForgetType, StackPush
    <2> QED BY <1>4, <2>2, <2>3, TypeParts DEF SetsOK, NextNested, Follow, others
  <1> QED BY <1>2, <1>3, <1>4

LEMMA ReturnType == ASSUME TypeOK, Return PROVE TypeOK'
  <1>1. StackOK(stack', visited')
    BY StackPop, TypeParts DEF Return, InPhase, Depth
  <1> QED BY <1>1, TypeParts DEF SetsOK, Return, others

LEMMA OthersType ==
  ASSUME TypeOK, NEW k \in Keys, OtherStores(k) \/ OtherLoses(k)
  PROVE  TypeOK'
  BY DEF TypeOK, OtherStores, OtherLoses, outcome

LEMMA StutterType == ASSUME TypeOK, UNCHANGED vars PROVE TypeOK'
  BY DEF TypeOK, vars, outcome, others

LEMMA NextType == TypeOK /\ [Next]_vars => TypeOK'
  BY ReadEntryType, DeleteEntryType, NextNestedType, ReturnType, OthersType, StutterType
  DEF Next, Cascade

\* The cascade keeps its types: it never calls itself twice for a hash, so the
\* recursion is at most as deep as there are hashes, cycles or not.
THEOREM CascadeTypeCorrect == Spec => []TypeOK
  BY InitType, NextType, PTL DEF Spec

-----------------------------------------------------------------------------
\* What the cascade has taken up, deleted already or not, no older entry outside
\* the cascade refers to.  OldMarkersResolve alone is not inductive: a hash that
\* was followed and is still to be deleted must already be unreferenced.
VisitedUnreferenced ==
  \A k \in live \ (stored \cup visited), n \in visited \ {Top} : ~Refers(k, n)

IInv == TypeOK /\ VisitedUnreferenced

LEMMA InvImplies == IInv => OldMarkersResolve
  BY DEF IInv, TypeOK, VisitedUnreferenced, OldMarkersResolve

\* Steps that take up no new hash and bring in no entry but a stored one.
LEMMA NothingTaken ==
  ASSUME IInv, visited' = visited, refs' = refs, stored \subseteq stored',
         live' \subseteq live \cup stored'
  PROVE  VisitedUnreferenced'
  BY DEF IInv, VisitedUnreferenced, Refers

\* A hash is followed only when no live entry outside the cascade refers to it.
LEMMA FollowUnreferenced ==
  ASSUME IInv, NEW n \in Keys, Follow(n), UNCHANGED <<refs, live, stored>>
  PROVE  VisitedUnreferenced'
  BY DEF IInv, VisitedUnreferenced, Follow, CoReferenced, Refers

LEMMA NextIInv == IInv /\ [Next]_vars => IInv'
  <1> SUFFICES ASSUME IInv, [Next]_vars PROVE IInv'
    OBVIOUS
  <1>1. TypeOK'
    BY NextType DEF IInv
  <1>2. CASE ReadEntry \/ DeleteEntry \/ Return \/ UNCHANGED vars
    BY <1>1, <1>2, NothingTaken
    DEF IInv, ReadEntry, DeleteEntry, Return, vars, others, outcome
  <1>3. CASE NextNested
    <2>1. PICK n \in Keys : NestedVisited(n) \/ KeepShared(n) \/ Follow(n)
      BY <1>3, ActiveType DEF IInv, NextNested, InPhase
    <2>2. CASE NestedVisited(n) \/ KeepShared(n)
      BY <1>1, <1>3, <2>2, NothingTaken DEF IInv, NestedVisited, KeepShared, NextNested, others
    <2>3. CASE Follow(n)
      BY <1>1, <1>3, <2>3, FollowUnreferenced DEF IInv, NextNested, others
    <2> QED BY <2>1, <2>2, <2>3
  <1>4. CASE \E k \in Keys : OtherStores(k) \/ OtherLoses(k)
    BY <1>1, <1>4, NothingTaken DEF IInv, OtherStores, OtherLoses
  <1> QED BY <1>2, <1>3, <1>4 DEF Next, Cascade

\* Whatever the graph of references and whatever other callers store or lose
\* meanwhile, no entry older than the purge is left with a marker the cascade
\* broke, the purged hash excepted.
THEOREM CascadeKeepsOldMarkers == Spec => []OldMarkersResolve
  <1>1. Init => IInv
    BY InitType DEF Init, IInv, VisitedUnreferenced
  <1>2. IInv /\ [Next]_vars => IInv'
    BY NextIInv
  <1> QED BY <1>1, <1>2, InvImplies, PTL DEF Spec

-----------------------------------------------------------------------------
\* The calls in progress, as a set: no hash has two.
Frames(st) == {st[i] : i \in 1..Len(st)}
Calls == Frames(stack)

\* What is still referred to by an entry the cascade has not read, or is on the
\* list of a call that has read one.
StillNamed(n) ==
  \/ \E k \in live \ {n} :
       Refers(k, n) /\ (k \notin visited \/ \E f \in Calls : f.key = k /\ f.phase = "read")
  \/ \E f \in Calls : f.phase \in {"delete", "nested"} /\ n \in f.todo

\* As long as nobody else loses an entry: what the cascade has taken up and has not
\* deleted is about to be, and what it has passed over is still named.
KeptInv ==
  lost = {} =>
    /\ before \ deleted \subseteq live
    /\ \A n \in (visited \cap before) \ deleted :
         \E f \in Calls : f.key = n /\ f.phase \in {"read", "delete"}
    /\ \A n \in skipped \ visited : StillNamed(n)

\* As long as nobody else does anything: what it has taken up belongs to the top
\* entry, and whatever a deleted entry refers to has been considered or will be.
OwnedInv ==
  stored = {} /\ lost = {} =>
    /\ live = before \ deleted /\ deleted \subseteq before
    /\ \A d \in deleted, n \in Keys :
         Refers(d, n) => n \in visited \cup skipped \/ \E f \in Calls : n \in f.todo
    /\ \A f \in Calls :
         /\ f.todo \subseteq refs[f.key] /\ (f.todo # {} => f.key \in before)
         /\ f.phase = "delete" /\ f.key \in live => f.todo = refs[f.key]
    /\ \A gone \in SUBSET before : ClosedUnderOwnership(gone) => visited \cap before \subseteq gone
    /\ Top \notin before => visited = {Top}

CallsInv ==
  /\ Top \in visited
  /\ done => stack = <<>> /\ skipped \cap deleted = {}
  /\ \A f \in Calls : f.phase = "read" => f.todo = {}

ReportInv == TypeOK /\ CallsInv /\ KeptInv /\ OwnedInv

\* Of the innermost call: its frame is one of the set, and the only one for its key.
LEMMA OneCallEach ==
  ASSUME TypeOK
  PROVE  /\ \A f \in Calls : f \in Frame /\ f.key \in visited
         /\ \A f, g \in Calls : f.key = g.key => f = g
         /\ stack # <<>> => Active \in Calls
  <1>1. \A i \in 1..Len(stack) : stack[i] \in Frame
    BY ElementOfSeq DEF TypeOK
  <1>2. stack # <<>> => Depth \in 1..Len(stack)
    BY EmptySeq, LenProperties DEF TypeOK, Depth
  <1> QED BY <1>1, <1>2 DEF TypeOK, Calls, Frames, Active

\* The innermost call changes, the others stay.
LEMMA FramesReplace ==
  ASSUME NEW st, NEW seen, StackOK(st, seen), st # <<>>, NEW f \in Frame
  PROVE  Frames([st EXCEPT ![Len(st)] = f]) = (Frames(st) \ {st[Len(st)]}) \cup {f}
  <1> DEFINE t == [st EXCEPT ![Len(st)] = f]
  <1>1. Len(st) \in 1..Len(st)
    BY EmptySeq, LenProperties DEF StackOK
  <1>2. /\ Len(t) = Len(st)
        /\ \A j \in 1..Len(st) : t[j] = IF j = Len(st) THEN f ELSE st[j]
    BY <1>1, ExceptSeq DEF StackOK
  <1>3. \A j \in 1..Len(st) : st[j] = st[Len(st)] => j = Len(st)
    BY <1>1 DEF StackOK
  <1> HIDE DEF t
  <1>4. Frames(t) = (Frames(st) \ {st[Len(st)]}) \cup {f}
    BY <1>1, <1>2, <1>3 DEF Frames
  <1> QED BY <1>4 DEF t

\* A call is added to the others.
LEMMA FramesPush ==
  ASSUME NEW st, NEW seen, StackOK(st, seen), NEW f \in Frame
  PROVE  Frames(Append(st, f)) = Frames(st) \cup {f}
  <1> DEFINE t == Append(st, f)
  <1>1. /\ Len(t) = Len(st) + 1
        /\ \A j \in 1..(Len(st) + 1) : t[j] = IF j = Len(st) + 1 THEN f ELSE st[j]
    BY AppendProperties, LenProperties DEF StackOK
  <1>2. Len(st) \in Nat
    BY LenProperties DEF StackOK
  <1> HIDE DEF t
  <1>3. Frames(t) = Frames(st) \cup {f}
    BY <1>1, <1>2 DEF Frames
  <1> QED BY <1>3 DEF t

\* The innermost call is taken from the others.
LEMMA FramesPop ==
  ASSUME NEW st, NEW seen, StackOK(st, seen), st # <<>>
  PROVE  Frames(SubSeq(st, 1, Len(st) - 1)) = Frames(st) \ {st[Len(st)]}
  <1> DEFINE t == SubSeq(st, 1, Len(st) - 1)
  <1>1. /\ Len(st) \in Nat \ {0} /\ Len(t) = Len(st) - 1
        /\ \A i \in 1..(Len(st) - 1) : t[i] = st[i]
    BY Popped
  <1>2. \A j \in 1..Len(st) : st[j] = st[Len(st)] => j = Len(st)
    BY <1>1 DEF StackOK
  <1> HIDE DEF t
  <1>3. Frames(t) = Frames(st) \ {st[Len(st)]}
    BY <1>1, <1>2 DEF Frames
  <1> QED BY <1>3 DEF t

-----------------------------------------------------------------------------
\* What each step of the cascade does to the set of its calls.
LEMMA ReadCalls ==
  ASSUME TypeOK, ReadEntry
  PROVE  Calls' = (Calls \ {Active}) \cup
           {[key |-> Active.key, phase |-> "delete", todo |-> MarkerHashes(Active.key)]}
  <1>1. PICK f : f = [key |-> Active.key, phase |-> "delete", todo |-> MarkerHashes(Active.key)]
    OBVIOUS
  <1>2. f \in Frame
    BY <1>1, ActiveType DEF TypeOK, ReadEntry, InPhase, Frame, MarkerHashes
  <1>3. stack' = [stack EXCEPT ![Depth] = f] /\ stack # <<>>
    BY <1>1, Zenon DEF ReadEntry, InPhase
  <1> QED BY <1>1, <1>2, <1>3, FramesReplace, TypeParts DEF Calls, Active, Depth

\* A deletion moves the innermost call on to its nested hashes, or drops them all.
LEMMA DeleteCalls ==
  ASSUME TypeOK, DeleteEntry
  PROVE  Calls' = (Calls \ {Active}) \cup
           {[key |-> Active.key, phase |-> "nested", todo |-> Active.todo]}
  <1>1. PICK f : f = [key |-> Active.key, phase |-> "nested", todo |-> Active.todo]
    OBVIOUS
  <1>2. f \in Frame /\ f = [Active EXCEPT !.phase = "nested"]
    BY <1>1, ActiveType DEF DeleteEntry, InPhase, Frame
  <1>3. stack' = [stack EXCEPT ![Depth] = [Active EXCEPT !.phase = "nested"]] /\ stack # <<>>
    BY Zenon DEF DeleteEntry, InPhase, Active
  <1> QED BY <1>1, <1>2, <1>3, FramesReplace, TypeParts DEF Calls, Active, Depth

\* A nested hash is taken off the list of the innermost call.
LEMMA ForgetCalls ==
  ASSUME TypeOK, stack # <<>>, NEW n \in Keys
  PROVE  Frames(Forget(n)) = (Calls \ {Active}) \cup
           {[key |-> Active.key, phase |-> Active.phase, todo |-> Active.todo \ {n}]}
  <1>1. PICK f : f = [key |-> Active.key, phase |-> Active.phase, todo |-> Active.todo \ {n}]
    OBVIOUS
  <1>2. f \in Frame /\ f = [Active EXCEPT !.todo = Active.todo \ {n}]
    <2>1. f \in Frame
      <3>1. Active.key \in Keys /\ Active.todo \in SUBSET Keys
            /\ Active.phase \in {"read", "delete", "nested"}
        BY ActiveType DEF Frame
      <3> QED BY <1>1, <3>1 DEF Frame
    <2>2. f = [Active EXCEPT !.todo = Active.todo \ {n}]
      <3>1. PICK a \in Frame : a = Active
        BY ActiveType
      <3>2. PICK rest : rest = a.todo \ {n}
        OBVIOUS
      <3>3. [key |-> a.key, phase |-> a.phase, todo |-> rest] = [a EXCEPT !.todo = rest]
        BY <3>1 DEF Frame
      <3> QED BY <1>1, <3>1, <3>2, <3>3
    <2> QED BY <2>1, <2>2
  <1>3. Forget(n) = [stack EXCEPT ![Depth] = [Active EXCEPT !.todo = Active.todo \ {n}]]
    BY Zenon DEF Forget, Active
  <1> QED BY <1>1, <1>2, <1>3, FramesReplace, TypeParts DEF Calls, Active, Depth

\* ... and a call of its own is begun for it.
LEMMA FollowCalls ==
  ASSUME TypeOK, stack # <<>>, NEW n \in Keys, Follow(n)
  PROVE  Calls' = Frames(Forget(n)) \cup {[key |-> n, phase |-> "read", todo |-> {}]}
  <1>1. PICK f : f = [key |-> n, phase |-> "read", todo |-> {}]
    OBVIOUS
  <1>2. f \in Frame /\ stack' = Append(Forget(n), f)
    BY <1>1 DEF Frame, Follow
  <1> QED BY <1>1, <1>2, ForgetType, FramesPush DEF Calls

\* The innermost call ends.
LEMMA ReturnCalls ==
  ASSUME TypeOK, Return
  PROVE  /\ Calls' = Calls \ {Active}
         /\ done' => stack' = <<>> /\ skipped' \cap deleted' = {}
  <1>1. stack # <<>> /\ stack' = SubSeq(stack, 1, Len(stack) - 1) /\ done' = (Len(stack) = 1)
    BY DEF Return, InPhase, Depth
  <1>2. StackOK(stack, visited)
    BY TypeParts
  <1>3. Calls' = Calls \ {Active}
    BY <1>1, <1>2, FramesPop DEF Calls, Active, Depth
  <1>4. Len(stack') = Len(stack) - 1 /\ stack' \in Seq(Frame)
    BY <1>1, <1>2, Popped
  <1>5. done' => Len(stack) = 1
    BY <1>1, Zenon
  <1>6. Len(stack) = 1 => stack' = <<>>
    BY <1>4, EmptySeq
  <1>7. Len(stack) = 1 => skipped' \cap deleted' = {}
    BY DEF Return, Depth
  <1> QED BY <1>3, <1>5, <1>6, <1>7

-----------------------------------------------------------------------------
\* The steps of the cascade.
LEMMA ReadReport ==
  ASSUME ReportInv, ReadEntry
  PROVE  ReportInv'
  <1>1. PICK a : a = Active
    OBVIOUS
  <1>2. PICK b : b = [key |-> a.key, phase |-> "delete", todo |-> MarkerHashes(a.key)]
    OBVIOUS
  <1>3. TypeOK /\ TypeOK'
    BY ReadEntryType DEF ReportInv
  <1>4. /\ a \in Calls /\ a \in Frame /\ a.phase = "read" /\ a.todo = {}
        /\ \A f \in Calls : f.key = a.key => f = a
    BY <1>1, <1>3, OneCallEach DEF ReadEntry, InPhase, ReportInv, CallsInv
  <1>5. Calls' = (Calls \ {a}) \cup {b}
    BY <1>1, <1>2, <1>3, ReadCalls
  <1>6. b.key = a.key /\ b.phase = "delete" /\ b.todo = MarkerHashes(a.key)
    BY <1>2
  <1>7. UNCHANGED <<refs, live, visited, deleted, skipped, done, before, stored, lost>> /\ stack # <<>>
    BY DEF ReadEntry, InPhase, outcome, others
  <1>8. CallsInv'
    BY <1>5, <1>6, <1>7 DEF ReportInv, CallsInv
  <1>9. KeptInv'
    <2> SUFFICES ASSUME lost = {} PROVE KeptInv'
      BY <1>7 DEF KeptInv
    <2>1. ASSUME NEW n \in (visited \cap before) \ deleted
          PROVE  \E f \in Calls' : f.key = n /\ f.phase \in {"read", "delete"}
      <3>1. PICK f \in Calls : f.key = n /\ f.phase \in {"read", "delete"}
        BY <2>1 DEF ReportInv, KeptInv
      <3> QED BY <3>1, <1>5, <1>6
    <2>2. ASSUME NEW n \in skipped \ visited PROVE StillNamed(n)'
      <3>1. CASE \E f \in Calls : f.phase \in {"delete", "nested"} /\ n \in f.todo
        BY <3>1, <1>4, <1>5 DEF StillNamed
      <3>2. CASE \E k \in live \ {n} : Refers(k, n) /\ k \notin visited
        BY <3>2, <1>7 DEF StillNamed, Refers
      <3>3. CASE \E k \in live \ {n} :
                   Refers(k, n) /\ \E f \in Calls : f.key = k /\ f.phase = "read"
        <4>1. PICK k \in live \ {n}, f \in Calls : Refers(k, n) /\ f.key = k /\ f.phase = "read"
          BY <3>3
        <4>2. CASE f = a
          <5>1. n \in b.todo
            BY <4>1, <4>2, <1>6 DEF MarkerHashes, Refers
          <5> QED BY <5>1, <1>5, <1>6 DEF StillNamed
        <4>3. CASE f # a
          <5>1. f \in Calls'
            BY <4>3, <1>5
          <5> QED BY <4>1, <5>1, <1>7 DEF StillNamed, Refers
        <4> QED BY <4>2, <4>3
      <3> QED BY <2>2, <3>1, <3>2, <3>3 DEF ReportInv, KeptInv, StillNamed
    <2> QED BY <2>1, <2>2, <1>7 DEF ReportInv, KeptInv
  <1>10. OwnedInv'
    <2> SUFFICES ASSUME stored = {}, lost = {} PROVE OwnedInv'
      BY <1>7 DEF OwnedInv
    <2>1. OwnedInv
      BY DEF ReportInv
    <2>2. \A d \in deleted, n \in Keys :
            Refers(d, n) => n \in visited \cup skipped \/ \E f \in Calls' : n \in f.todo
      BY <2>1, <1>4, <1>5 DEF OwnedInv
    <2>3. ASSUME NEW f \in Calls'
          PROVE  /\ f.todo \subseteq refs[f.key] /\ (f.todo # {} => f.key \in before)
                 /\ f.phase = "delete" /\ f.key \in live => f.todo = refs[f.key]
      <3>1. live \subseteq before
        BY <2>1 DEF OwnedInv
      <3>2. CASE f = b
        BY <3>1, <3>2, <1>6 DEF MarkerHashes
      <3>3. CASE f \in Calls
        BY <3>3, <2>1 DEF OwnedInv
      <3> QED BY <3>2, <3>3, <1>5
    <2>4. \A gone \in SUBSET before :
            ClosedUnderOwnership(gone) => visited \cap before \subseteq gone
      BY <2>1 DEF OwnedInv
    <2> QED BY <2>1, <2>2, <2>3, <2>4, <1>7 DEF OwnedInv, ClosedUnderOwnership, Refers
  <1> QED BY <1>3, <1>8, <1>9, <1>10 DEF ReportInv

\* The entry goes, if it is still there; what it refers to waits on the list of the
\* call, and nothing else was named by it alone.
LEMMA DeleteReport ==
  ASSUME ReportInv, DeleteEntry
  PROVE  ReportInv'
  <1>1. PICK a : a = Active
    OBVIOUS
  <1>2. PICK b : b = [key |-> a.key, phase |-> "nested", todo |-> a.todo]
    OBVIOUS
  <1>3. TypeOK /\ TypeOK'
    BY DeleteEntryType DEF ReportInv
  <1>4. /\ a \in Calls /\ a \in Frame /\ a.phase = "delete" /\ a.key \in visited
        /\ \A f \in Calls : f.key = a.key => f = a
    BY <1>1, <1>3, OneCallEach DEF DeleteEntry, InPhase
  <1>5. Calls' = (Calls \ {a}) \cup {b}
    BY <1>1, <1>2, <1>3, DeleteCalls
  <1>6. b.key = a.key /\ b.phase = "nested" /\ b.todo = a.todo
    BY <1>2
  <1>7. /\ UNCHANGED <<refs, visited, skipped, done, before, stored, lost>> /\ stack # <<>>
        /\ live' = live \ {a.key} /\ deleted' = deleted \cup (live \cap {a.key})
    BY <1>1 DEF DeleteEntry, InPhase, others
  <1>8. CallsInv'
    BY <1>5, <1>6, <1>7 DEF ReportInv, CallsInv
  <1>9. KeptInv'
    <2> SUFFICES ASSUME lost = {} PROVE KeptInv'
      BY <1>7 DEF KeptInv
    <2>1. KeptInv
      BY DEF ReportInv
    <2>2. before \ deleted' \subseteq live'
      BY <2>1, <1>7 DEF KeptInv
    <2>3. ASSUME NEW n \in (visited \cap before) \ deleted'
          PROVE  \E f \in Calls' : f.key = n /\ f.phase \in {"read", "delete"}
      <3>1. n \in live /\ n # a.key
        BY <2>1, <2>3, <1>7 DEF KeptInv
      <3>2. PICK f \in Calls : f.key = n /\ f.phase \in {"read", "delete"}
        BY <2>1, <2>3, <1>7 DEF KeptInv
      <3> QED BY <3>1, <3>2, <1>5
    <2>4. ASSUME NEW n \in skipped \ visited PROVE StillNamed(n)'
      <3>1. CASE \E f \in Calls : f.phase \in {"delete", "nested"} /\ n \in f.todo
        BY <3>1, <1>5, <1>6 DEF StillNamed
      <3>2. CASE \E k \in live \ {n} : Refers(k, n) /\ k \notin visited
        BY <3>2, <1>4, <1>7 DEF StillNamed, Refers
      <3>3. CASE \E k \in live \ {n} :
                   Refers(k, n) /\ \E f \in Calls : f.key = k /\ f.phase = "read"
        <4>1. PICK k \in live \ {n}, f \in Calls : Refers(k, n) /\ f.key = k /\ f.phase = "read"
          BY <3>3
        <4>2. f # a /\ k # a.key
          BY <4>1, <1>4
        <4>3. f \in Calls' /\ k \in live' \ {n}
          BY <4>1, <4>2, <1>5, <1>7
        <4> QED BY <4>1, <4>3, <1>7 DEF StillNamed, Refers
      <3> QED BY <2>1, <2>4, <3>1, <3>2, <3>3 DEF KeptInv, StillNamed
    <2> QED BY <2>2, <2>3, <2>4, <1>7 DEF KeptInv
  <1>10. OwnedInv'
    <2> SUFFICES ASSUME stored = {}, lost = {} PROVE OwnedInv'
      BY <1>7 DEF OwnedInv
    <2>1. OwnedInv
      BY DEF ReportInv
    <2>2. live' = before \ deleted' /\ deleted' \subseteq before
      BY <2>1, <1>7 DEF OwnedInv
    <2>3. ASSUME NEW d \in deleted', NEW n \in Keys, Refers(d, n)
          PROVE  n \in visited \cup skipped \/ \E f \in Calls' : n \in f.todo
      <3>1. CASE d \in deleted
        BY <3>1, <2>1, <2>3, <1>5, <1>6 DEF OwnedInv
      <3>2. CASE d = a.key /\ d \in live
        <4>1. a.todo = refs[a.key]
          BY <3>2, <2>1, <1>4 DEF OwnedInv
        <4> QED BY <4>1, <3>2, <2>3, <1>5, <1>6 DEF Refers
      <3> QED BY <2>3, <3>1, <3>2, <1>7
    <2>4. \A f \in Calls' :
            /\ f.todo \subseteq refs[f.key] /\ (f.todo # {} => f.key \in before)
            /\ f.phase = "delete" /\ f.key \in live' => f.todo = refs[f.key]
      <3>1. \A f \in Calls :
              /\ f.todo \subseteq refs[f.key] /\ (f.todo # {} => f.key \in before)
              /\ f.phase = "delete" /\ f.key \in live => f.todo = refs[f.key]
        BY <2>1 DEF OwnedInv
      <3> QED BY <3>1, <1>4, <1>5, <1>6, <1>7
    <2>5. \A gone \in SUBSET before :
            ClosedUnderOwnership(gone) => visited \cap before \subseteq gone
      BY <2>1 DEF OwnedInv
    <2> QED BY <2>1, <2>2, <2>3, <2>4, <2>5, <1>7 DEF OwnedInv, ClosedUnderOwnership, Refers
  <1> QED BY <1>3, <1>8, <1>9, <1>10 DEF ReportInv

\* A nested hash is taken off the list: considered before, passed over or followed.
LEMMA NestedReport ==
  ASSUME ReportInv, NextNested
  PROVE  ReportInv'
  <1>1. PICK a : a = Active
    OBVIOUS
  <1>2. TypeOK /\ TypeOK' /\ stack # <<>>
    BY NextNestedType DEF ReportInv, NextNested, InPhase
  <1>3. PICK n \in a.todo : NestedVisited(n) \/ KeepShared(n) \/ Follow(n)
    BY <1>1 DEF NextNested
  <1>4. PICK b : b = [key |-> a.key, phase |-> "nested", todo |-> a.todo \ {n}]
    OBVIOUS
  <1>5. /\ a \in Calls /\ a \in Frame /\ a.phase = "nested" /\ a.key \in visited
        /\ a.todo \subseteq Keys
        /\ \A f \in Calls : f.key = a.key => f = a
    BY <1>1, <1>2, OneCallEach, ActiveType DEF NextNested, InPhase
  <1>6. b.key = a.key /\ b.phase = "nested" /\ b.todo = a.todo \ {n} /\ n \in Keys
    BY <1>4, <1>5
  <1>7. PICK R : R = (Calls \ {a}) \cup {b}
    OBVIOUS
  <1>8. Frames(Forget(n)) = R
    BY <1>1, <1>2, <1>4, <1>5, <1>6, <1>7, ForgetCalls
  <1>9. UNCHANGED <<refs, live, deleted, done, before, stored, lost>>
    BY DEF NextNested, others
  <1>10. PICK new : new = IF Follow(n) THEN {[key |-> n, phase |-> "read", todo |-> {}]} ELSE {}
    OBVIOUS
  <1>11. Calls' = R \cup new
    <2>1. CASE Follow(n)
      BY <2>1, <1>2, <1>6, <1>8, <1>10, FollowCalls
    <2>2. CASE ~Follow(n)
      <3>1. stack' = Forget(n)
        BY <2>2, <1>3 DEF NestedVisited, KeepShared
      <3> QED BY <2>2, <3>1, <1>8, <1>10 DEF Calls
    <2> QED BY <2>1, <2>2
  <1>12. \A f \in new : f.key = n /\ f.phase = "read" /\ f.todo = {} /\ Follow(n)
    BY <1>10
  <1>13. /\ visited \subseteq visited' /\ visited' \subseteq visited \cup {n}
         /\ skipped \subseteq skipped' /\ skipped' \subseteq skipped \cup {n}
         /\ n \in visited' \cup skipped'
         /\ n \in visited' \ visited => Follow(n)
    BY <1>3 DEF NestedVisited, KeepShared, Follow
  <1>14. CallsInv'
    <2>1. ~done'
      BY <1>2, <1>9 DEF ReportInv, CallsInv
    <2> QED BY <2>1, <1>5, <1>6, <1>7, <1>11, <1>12, <1>13 DEF ReportInv, CallsInv
  <1>15. KeptInv'
    <2> SUFFICES ASSUME lost = {} PROVE KeptInv'
      BY <1>9 DEF KeptInv
    <2>1. KeptInv
      BY DEF ReportInv
    <2>2. ASSUME NEW m \in (visited' \cap before) \ deleted
          PROVE  \E f \in Calls' : f.key = m /\ f.phase \in {"read", "delete"}
      <3>1. CASE m \in visited
        <4>1. PICK f \in Calls : f.key = m /\ f.phase \in {"read", "delete"}
          BY <3>1, <2>1, <2>2 DEF KeptInv
        <4>2. f # a
          BY <4>1, <1>5
        <4> QED BY <4>1, <4>2, <1>7, <1>11
      <3>2. CASE m \notin visited
        <4>1. m = n /\ Follow(n)
          BY <3>2, <2>2, <1>13
        <4>2. [key |-> n, phase |-> "read", todo |-> {}] \in Calls'
          BY <4>1, <1>10, <1>11
        <4> QED BY <4>1, <4>2
      <3> QED BY <3>1, <3>2
    <2>3. ASSUME NEW m \in skipped' \ visited' PROVE StillNamed(m)'
      <3>1. CASE m = n
        <4>1. CoReferenced(n)
          BY <3>1, <2>3, <1>3 DEF NestedVisited, KeepShared, Follow
        <4>2. visited' = visited
          BY <3>1, <2>3, <1>13
        <4> QED BY <3>1, <4>1, <4>2, <1>9 DEF CoReferenced, StillNamed, Refers
      <3>2. CASE m # n
        <4>1. StillNamed(m)
          BY <3>2, <2>1, <2>3, <1>13 DEF KeptInv
        <4>2. CASE \E f \in Calls : f.phase \in {"delete", "nested"} /\ m \in f.todo
          <5>1. PICK f \in Calls : f.phase \in {"delete", "nested"} /\ m \in f.todo
            BY <4>2
          <5>2. CASE f = a
            <6>1. m \in b.todo /\ b \in Calls'
              BY <5>1, <5>2, <3>2, <1>6, <1>7, <1>11
            <6> QED BY <6>1, <1>6 DEF StillNamed
          <5>3. CASE f # a
            <6>1. f \in Calls'
              BY <5>3, <1>7, <1>11
            <6> QED BY <5>1, <6>1 DEF StillNamed
          <5> QED BY <5>2, <5>3
        <4>3. CASE \E k \in live \ {m} : Refers(k, m) /\ k \notin visited
          <5>1. PICK k \in live \ {m} : Refers(k, m) /\ k \notin visited
            BY <4>3
          <5>2. CASE k \notin visited'
            BY <5>1, <5>2, <1>9 DEF StillNamed, Refers
          <5>3. CASE k \in visited'
            <6>1. k = n /\ Follow(n)
              BY <5>1, <5>3, <1>13
            <6>2. [key |-> n, phase |-> "read", todo |-> {}] \in Calls'
              BY <6>1, <1>10, <1>11
            <6> QED BY <5>1, <6>1, <6>2, <1>9 DEF StillNamed, Refers
          <5> QED BY <5>2, <5>3
        <4>4. CASE \E k \in live \ {m} :
                     Refers(k, m) /\ \E f \in Calls : f.key = k /\ f.phase = "read"
          <5>1. PICK k \in live \ {m}, f \in Calls : Refers(k, m) /\ f.key = k /\ f.phase = "read"
            BY <4>4
          <5>2. f \in Calls'
            BY <5>1, <1>5, <1>7, <1>11
          <5> QED BY <5>1, <5>2, <1>9 DEF StillNamed, Refers
        <4> QED BY <4>1, <4>2, <4>3, <4>4 DEF StillNamed
      <3> QED BY <3>1, <3>2
    <2> QED BY <2>1, <2>2, <2>3, <1>9 DEF KeptInv
  <1>16. OwnedInv'
    <2> SUFFICES ASSUME stored = {}, lost = {} PROVE OwnedInv'
      BY <1>9 DEF OwnedInv
    <2>1. OwnedInv
      BY DEF ReportInv
    <2>2. ASSUME NEW d \in deleted, NEW m \in Keys, Refers(d, m)
          PROVE  m \in visited' \cup skipped' \/ \E f \in Calls' : m \in f.todo
      <3>1. m \in visited \cup skipped \/ \E f \in Calls : m \in f.todo
        BY <2>1, <2>2 DEF OwnedInv
      <3>2. CASE m = n
        BY <3>2, <1>13
      <3>3. CASE m # n /\ \E f \in Calls : m \in f.todo
        <4>1. PICK f \in Calls : m \in f.todo
          BY <3>3
        <4>2. CASE f = a
          BY <3>3, <4>1, <4>2, <1>6, <1>7, <1>11
        <4>3. CASE f # a
          BY <4>1, <4>3, <1>7, <1>11
        <4> QED BY <4>2, <4>3
      <3> QED BY <3>1, <3>2, <3>3, <1>13
    <2>3. \A f \in Calls :
            /\ f.todo \subseteq refs[f.key] /\ (f.todo # {} => f.key \in before)
            /\ f.phase = "delete" /\ f.key \in live => f.todo = refs[f.key]
      BY <2>1 DEF OwnedInv
    <2>4. ASSUME NEW f \in Calls'
          PROVE  /\ f.todo \subseteq refs[f.key] /\ (f.todo # {} => f.key \in before)
                 /\ f.phase = "delete" /\ f.key \in live => f.todo = refs[f.key]
      <3>1. CASE f = b
        BY <3>1, <2>3, <1>5, <1>6
      <3>2. CASE f \in Calls
        BY <3>2, <2>3
      <3>3. CASE f \in new
        BY <3>3, <1>12
      <3> QED BY <3>1, <3>2, <3>3, <1>7, <1>11
    <2>5. a.key \in before /\ Refers(a.key, n)
      BY <2>3, <1>3, <1>5 DEF Refers
    <2>6. ASSUME NEW gone \in SUBSET before, ClosedUnderOwnership(gone)
          PROVE  visited' \cap before \subseteq gone
      <3>1. visited \cap before \subseteq gone
        BY <2>1, <2>6 DEF OwnedInv
      <3>2. ASSUME n \in before, n \notin gone, Follow(n) PROVE FALSE
        <4>1. a.key \in gone
          BY <3>1, <2>5, <1>5
        <4>2. PICK k \in before \ (gone \cup {n}) : Refers(k, n)
          BY <2>5, <2>6, <3>2, <4>1 DEF ClosedUnderOwnership
        <4>3. k \notin visited /\ k # n
          BY <3>1, <4>2
        <4>4. k \in live
          <5>1. deleted \subseteq visited
            BY <1>2 DEF TypeOK
          <5> QED BY <5>1, <4>2, <4>3, <2>1 DEF OwnedInv
        <4> QED BY <4>2, <4>3, <4>4, <3>2 DEF Follow, CoReferenced
      <3> QED BY <3>1, <3>2, <1>13
    <2>7. Top \notin before => visited' = {Top}
      <3>1. ASSUME Top \notin before PROVE FALSE
        <4>1. visited = {Top}
          BY <3>1, <2>1 DEF OwnedInv
        <4> QED BY <3>1, <4>1, <2>5, <1>5
      <3> QED BY <3>1
    <2> QED BY <2>1, <2>2, <2>4, <2>6, <2>7, <1>9 DEF OwnedInv, ClosedUnderOwnership, Refers
  <1> QED BY <1>2, <1>14, <1>15, <1>16 DEF ReportInv

\* A call with nothing left to consider ends; the outermost one makes the report.
LEMMA ReturnReport ==
  ASSUME ReportInv, Return
  PROVE  ReportInv'
  <1>1. PICK a : a = Active
    OBVIOUS
  <1>2. TypeOK /\ TypeOK' /\ stack # <<>>
    BY ReturnType DEF ReportInv, Return, InPhase
  <1>3. a \in Calls /\ a.phase = "nested" /\ a.todo = {}
    BY <1>1, <1>2, OneCallEach DEF Return, InPhase
  <1>4. Calls' = Calls \ {a} /\ (done' => stack' = <<>> /\ skipped' \cap deleted' = {})
    BY <1>1, <1>2, ReturnCalls
  <1>5. /\ UNCHANGED <<refs, live, visited, deleted, before, stored, lost>>
        /\ skipped' \subseteq skipped /\ skipped \subseteq skipped' \cup deleted
    BY DEF Return, others
  <1>6. deleted \subseteq visited
    BY <1>2 DEF TypeOK
  <1>7. CallsInv'
    BY <1>4, <1>5 DEF ReportInv, CallsInv
  <1>8. KeptInv'
    <2> SUFFICES ASSUME lost = {} PROVE KeptInv'
      BY <1>5 DEF KeptInv
    <2>1. ASSUME NEW n \in (visited \cap before) \ deleted
          PROVE  \E f \in Calls' : f.key = n /\ f.phase \in {"read", "delete"}
      <3>1. PICK f \in Calls : f.key = n /\ f.phase \in {"read", "delete"}
        BY <2>1 DEF ReportInv, KeptInv
      <3> QED BY <3>1, <1>3, <1>4
    <2>2. ASSUME NEW n \in skipped' \ visited PROVE StillNamed(n)'
      <3>1. StillNamed(n)
        BY <2>2, <1>5 DEF ReportInv, KeptInv
      <3>2. CASE \E f \in Calls : f.phase \in {"delete", "nested"} /\ n \in f.todo
        BY <3>2, <1>3, <1>4 DEF StillNamed
      <3>3. CASE \E k \in live \ {n} : Refers(k, n) /\ k \notin visited
        BY <3>3, <1>5 DEF StillNamed, Refers
      <3>4. CASE \E k \in live \ {n} :
                   Refers(k, n) /\ \E f \in Calls : f.key = k /\ f.phase = "read"
        BY <3>4, <1>3, <1>4, <1>5 DEF StillNamed, Refers
      <3> QED BY <3>1, <3>2, <3>3, <3>4 DEF StillNamed
    <2> QED BY <2>1, <2>2, <1>5 DEF ReportInv, KeptInv
  <1>9. OwnedInv'
    <2> SUFFICES ASSUME stored = {}, lost = {} PROVE OwnedInv'
      BY <1>5 DEF OwnedInv
    <2>1. OwnedInv
      BY DEF ReportInv
    <2>2. \A d \in deleted, n \in Keys :
            Refers(d, n) => n \in visited \cup skipped' \/ \E f \in Calls' : n \in f.todo
      BY <2>1, <1>3, <1>4, <1>5, <1>6 DEF OwnedInv
    <2> QED BY <2>1, <2>2, <1>4, <1>5 DEF OwnedInv, ClosedUnderOwnership, Refers
  <1> QED BY <1>2, <1>7, <1>8, <1>9 DEF ReportInv

\* Other callers end what is claimed of a purge left alone; storing an entry takes
\* none away.
LEMMA OthersReport ==
  ASSUME ReportInv, NEW k \in Keys, OtherStores(k) \/ OtherLoses(k)
  PROVE  ReportInv'
  <1>1. TypeOK'
    BY OthersType DEF ReportInv
  <1>2. UNCHANGED <<refs, stack, visited, deleted, skipped, done, before>>
    BY DEF OtherStores, OtherLoses, outcome
  <1>3. Calls' = Calls
    BY <1>2 DEF Calls
  <1>4. CallsInv'
    BY <1>2, <1>3 DEF ReportInv, CallsInv
  <1>5. OwnedInv'
    <2>1. stored' # {} \/ lost' # {}
      BY DEF OtherStores, OtherLoses
    <2> QED BY <2>1 DEF OwnedInv
  <1>6. KeptInv'
    <2>1. CASE OtherStores(k)
      <3>1. live \subseteq live' /\ lost' = lost
        BY <2>1 DEF OtherStores
      <3>2. \A n : StillNamed(n) => StillNamed(n)'
        BY <3>1, <1>2, <1>3 DEF StillNamed, Refers
      <3> QED BY <3>1, <3>2, <1>2, <1>3 DEF ReportInv, KeptInv
    <2>2. CASE OtherLoses(k)
      BY <2>2 DEF OtherLoses, KeptInv
    <2> QED BY <2>1, <2>2
  <1> QED BY <1>1, <1>4, <1>5, <1>6 DEF ReportInv

\* A purge begins with one call, for the hash it was given.
LEMMA ReportInit == Init => ReportInv
  <1> SUFFICES ASSUME Init PROVE ReportInv
    OBVIOUS
  <1>1. TypeOK
    BY InitType
  <1>2. PICK top : top = TopFrame
    OBVIOUS
  <1>3. top.key = Top /\ top.phase = "read" /\ top.todo = {}
    BY <1>2 DEF TopFrame
  <1>4. Calls = {top}
    BY <1>2 DEF Init, Calls, Frames
  <1>5. /\ visited = {Top} /\ deleted = {} /\ skipped = {} /\ done = FALSE
        /\ before = live /\ stored = {} /\ lost = {}
    BY DEF Init
  <1>6. CallsInv /\ KeptInv
    BY <1>3, <1>4, <1>5 DEF CallsInv, KeptInv
  <1>7. OwnedInv
    <2>1. \A gone \in SUBSET before : ClosedUnderOwnership(gone) => visited \cap before \subseteq gone
      BY <1>5 DEF ClosedUnderOwnership
    <2> QED BY <2>1, <1>3, <1>4, <1>5 DEF OwnedInv
  <1> QED BY <1>1, <1>6, <1>7 DEF ReportInv

\* One case per action.
LEMMA ReportNext == ReportInv /\ [Next]_vars => ReportInv'
  <1> SUFFICES ASSUME ReportInv, [Next]_vars PROVE ReportInv'
    OBVIOUS
  <1>1. CASE UNCHANGED vars
    <2>1. TypeOK'
      BY <1>1, StutterType DEF ReportInv
    <2>2. \A n : StillNamed(n) => StillNamed(n)'
      BY <1>1 DEF vars, outcome, others, StillNamed, Calls, Refers
    <2> QED BY <1>1, <2>1, <2>2 DEF vars, outcome, others, ReportInv, CallsInv, KeptInv, OwnedInv, Calls,
                      ClosedUnderOwnership, Refers
  <1> QED BY <1>1, ReadReport, DeleteReport, NestedReport, ReturnReport, OthersReport
          DEF Next, Cascade

\* The report of a purge tells the truth: left alone, it has deleted exactly what
\* the purged entry owns, directly or through others; and as long as nobody else
\* loses an entry, what it calls kept is there and another entry refers to it.
THEOREM CascadeReportsTruly == Spec => []ReportIsTrue
  <1>1. ReportInv => ReportIsTrue
    <2> SUFFICES ASSUME ReportInv PROVE ReportIsTrue
      OBVIOUS
    <2>1. done => Calls = {}
      <3>1. Len(<<>>) = 0
        OBVIOUS
      <3> QED BY <3>1 DEF ReportInv, CallsInv, Calls, Frames
    <2>2. ASSUME done, lost = {}
          PROVE  /\ before \ deleted \subseteq live
                 /\ visited \cap before \subseteq deleted
                 /\ \A n \in skipped \ visited : \E k \in live \ {n} : Refers(k, n) /\ k \notin visited
      BY <2>1, <2>2 DEF ReportInv, KeptInv, StillNamed
    <2>3. TypeOK /\ deleted \subseteq visited
      BY DEF ReportInv, TypeOK
    <2>4. KeptIsShared
      <3> SUFFICES ASSUME done, lost = {}, NEW n \in (skipped \cap before) \ stored
                   PROVE  n \in live /\ \E k \in live \ {n} : Refers(k, n)
        BY DEF KeptIsShared
      <3>1. n \notin deleted
        BY DEF ReportInv, CallsInv
      <3> QED BY <2>2, <3>1
    <2>5. PurgesExactlyOwned
      <3> SUFFICES ASSUME done, stored = {}, lost = {}
                   PROVE  /\ deleted = IF Top \in before THEN Owned ELSE {}
                          /\ live = before \ deleted
        BY DEF PurgesExactlyOwned
      <3>1. OwnedInv
        BY DEF ReportInv
      <3>2. live = before \ deleted /\ deleted \subseteq before
        BY <3>1 DEF OwnedInv
      <3>3. CASE Top \notin before
        BY <3>1, <3>2, <3>3, <2>3 DEF OwnedInv
      <3>4. CASE Top \in before
        <4>1. deleted \subseteq Owned
          BY <3>1, <3>2, <2>3 DEF OwnedInv, Owned
        <4>2. ClosedUnderOwnership(deleted)
          <5>1. Top \in deleted
            BY <3>4, <2>2 DEF ReportInv, CallsInv
          <5>2. ASSUME NEW n \in before \ deleted, NEW d \in deleted, Refers(d, n)
                PROVE  \E k \in before \ (deleted \cup {n}) : Refers(k, n)
            <6>1. n \in Keys
              BY <2>3 DEF TypeOK
            <6>2. n \in visited \cup skipped
              BY <3>1, <2>1, <5>2, <6>1 DEF OwnedInv
            <6>3. n \in skipped \ visited
              BY <6>2, <2>2
            <6>4. PICK k \in live \ {n} : Refers(k, n)
              BY <6>3, <2>2
            <6> QED BY <6>4, <3>2
          <5> QED BY <5>1, <5>2 DEF ClosedUnderOwnership
        <4>3. Owned \subseteq deleted
          BY <4>2, <3>2 DEF Owned
        <4> QED BY <3>4, <4>1, <4>3, <3>2
      <3> QED BY <3>3, <3>4, <3>2
    <2> QED BY <2>4, <2>5 DEF ReportIsTrue
  <1> QED BY <1>1, ReportInit, ReportNext, PTL DEF Spec
=============================================================================
