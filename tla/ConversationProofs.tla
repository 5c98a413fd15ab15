-------------------------- MODULE ConversationProofs --------------------------
(***************************************************************************)
(* What a host may count on over every turn of a conversation: the prefix    *)
(* it has frozen keeps its bytes, every content that took another's place    *)
(* can be undone from the store, and what must reach the model verbatim      *)
(* does.  For any exchanges, originals, windows and breakpoints.             *)
(*                                                                         *)
(* The argument is one message at a time.  Sound is what a message owes to   *)
(* its own history, and it holds of the messages the host keeps, of those    *)
(* it was returned and of the draft alike, because the host may extend       *)
(* either of the first two.                                                 *)
(*                                                                         *)
(* Two things are between messages.  ScanInv is the dedup pass in the middle *)
(* of its scan: whatever may still be pointed at is behind it and as it was  *)
(* passed in.  WhyInv is what makes a read overtaken: an edit of its file or *)
(* a read that covers it, which stays there, whatever becomes of it.         *)
(***************************************************************************)
EXTENDS Conversation, SequenceTheorems, FiniteSetTheorems, NaturalsInduction,
        WellFoundedInduction, TLAPS

Sequence(s) == \E S : s \in Seq(S)

\* Traced, of a store that holds the contents kept.
TracedIn(m, kept) ==
  /\ m.trail[1].form = "raw" /\ m.trail[Len(m.trail)] = m.content
  /\ \A k \in 1..(Len(m.trail) - 1) :
       m.trail[k] \in kept /\ m.trail[k + 1].of = m.trail[k]

\* A message and what has been done to it by callers of one mode.  The call it
\* answers stands before it, which makes a gate on the call's index one on its own.
Sound(m, i, mode, kept) ==
  /\ Sequence(m.trail) /\ Len(m.trail) > 0
  /\ TracedIn(m, kept)
  /\ mode = "compress" /\ m.failed /\ m.shape # "string" => Len(m.trail) = 1
  /\ m.content.form = "crushed" => m.content.of.form = "raw"
  /\ IsRetrieval(m) => \A k \in DOMAIN m.trail : m.trail[k].form # "crushed"
  /\ m.turn < i /\ m.turn \in Nat

AllSound(msgs, mode, kept) ==
  Sequence(msgs) /\ \A i \in 1..Len(msgs) : Sound(msgs[i], i, mode, kept)

MessagesSound ==
  /\ AllSound(history, entry, store)
  /\ AllSound(sent, entry, store)
  /\ AllSound(draft, entry, store)

IInv ==
  /\ MessagesSound
  /\ Len(draft) = Len(history)
  /\ at \in Nat /\ (phase # "host" => at > 0)
  /\ frozen \in 0..Len(history)
  /\ FrozenUntouched

-----------------------------------------------------------------------------
\* The first content of a message is what the tool returned.
LEMMA FreshIsSound ==
  ASSUME NEW shape, NEW turn \in Nat, NEW call, NEW failed, NEW original, NEW i \in Nat,
         NEW mode, NEW kept, turn < i
  PROVE  Sound(Message(shape, turn, call, failed, original), i, mode, kept)
<1> DEFINE m == Message(shape, turn, call, failed, original)
<1>1. /\ m.content = Raw(original) /\ m.trail = <<Raw(original)>>
      /\ m.turn = turn
  BY DEF Message
<1>2. Raw(original).form = "raw"
  BY DEF Raw
<1>3. m.trail \in Seq({Raw(original)}) /\ Len(m.trail) = 1 /\ m.trail[1] = Raw(original)
  BY <1>1
<1>4. Sequence(m.trail)
  BY <1>3 DEF Sequence
<1>5. TracedIn(m, kept)
  BY <1>1, <1>2, <1>3 DEF TracedIn
<1>6. \A k \in DOMAIN m.trail : m.trail[k].form # "crushed"
  BY <1>2, <1>3
<1> HIDE DEF m
<1> QED
  BY <1>1, <1>2, <1>3, <1>4, <1>5, <1>6 DEF Sound, m

\* A content that takes another's place, which is stored, leaves the message sound
\* if it is no crushed one where none may be.
LEMMA ReplacedIsSound ==
  ASSUME NEW m, NEW i, NEW mode, NEW kept, Sound(m, i, mode, kept),
         NEW c, c.of = m.content,
         NEW more, m.content \in more, kept \subseteq more,
         ~(mode = "compress" /\ m.failed /\ m.shape # "string"),
         c.form = "crushed" => m.content.form = "raw" /\ ~IsRetrieval(m)
  PROVE  Sound(Becomes(m, c), i, mode, more)
<1> DEFINE b == Becomes(m, c)
           n == Len(m.trail)
<1>1. /\ b.content = c /\ b.trail = Append(m.trail, c) /\ b.turn = m.turn
      /\ b.failed = m.failed /\ b.shape = m.shape /\ b.call = m.call
  BY DEF Becomes
<1>2. PICK S : m.trail \in Seq(S)
  BY DEF Sound, Sequence
<1>3. m.trail \in Seq(S \cup {c})
  BY <1>2
<1>4. /\ n \in Nat /\ n > 0 /\ b.trail \in Seq(S \cup {c}) /\ Len(b.trail) = n + 1
      /\ \A k \in 1..n : b.trail[k] = m.trail[k]
      /\ b.trail[n + 1] = c
  BY <1>1, <1>2, <1>3 DEF Sound
<1>5. Sequence(b.trail)
  BY <1>4 DEF Sequence
<1>6. /\ m.trail[1].form = "raw" /\ m.trail[n] = m.content
      /\ \A k \in 1..(n - 1) : m.trail[k] \in kept /\ m.trail[k + 1].of = m.trail[k]
  BY DEF Sound, TracedIn
<1>7. b.trail[1].form = "raw" /\ b.trail[Len(b.trail)] = b.content
  BY <1>1, <1>4, <1>6
<1>8. ASSUME NEW k \in 1..(Len(b.trail) - 1)
      PROVE  b.trail[k] \in more /\ b.trail[k + 1].of = b.trail[k]
  <2>1. CASE k = n
    BY <2>1, <1>4, <1>6
  <2>2. CASE k # n
    BY <2>2, <1>4, <1>6
  <2> QED
    BY <2>1, <2>2
<1>9. IsRetrieval(b) => \A k \in DOMAIN b.trail : b.trail[k].form # "crushed"
  <2>1. IsRetrieval(b) <=> IsRetrieval(m)
    BY <1>1 DEF IsRetrieval
  <2>2. DOMAIN b.trail = 1..(n + 1) /\ DOMAIN m.trail = 1..n
    BY <1>2, <1>4
  <2>3. IsRetrieval(m) => \A k \in 1..n : m.trail[k].form # "crushed"
    BY <2>2 DEF Sound
  <2> QED
    BY <2>1, <2>2, <2>3, <1>4
<1>10. m.turn < i /\ m.turn \in Nat
  BY DEF Sound
<1> HIDE DEF b
<1>11. TracedIn(b, more)
  BY <1>7, <1>8 DEF TracedIn
<1>12. b.content.form = "crushed" => b.content.of.form = "raw"
  BY <1>1
<1> QED
  BY <1>1, <1>4, <1>5, <1>9, <1>10, <1>11, <1>12 DEF Sound, b

\* A store that grows leaves a sound message sound.
LEMMA KeptIsSound ==
  ASSUME NEW msgs, NEW mode, NEW kept, AllSound(msgs, mode, kept),
         NEW more, kept \subseteq more
  PROVE  AllSound(msgs, mode, more)
<1>1. ASSUME NEW i \in 1..Len(msgs)
      PROVE  Sound(msgs[i], i, mode, more)
  <2> DEFINE m == msgs[i]
  <2>1. Sound(m, i, mode, kept)
    BY DEF AllSound
  <2> HIDE DEF m
  <2>2. TracedIn(m, more)
    BY <2>1 DEF Sound, TracedIn
  <2>3. Sound(m, i, mode, more)
    BY <2>1, <2>2 DEF Sound
  <2> QED
    BY <2>3 DEF m
<1> QED
  BY <1>1 DEF AllSound

Put(msgs, i, b) == [msgs EXCEPT ![i] = b]

\* A sound list with one message exchanged for a sound one.
LEMMA ExceptIsSound ==
  ASSUME NEW msgs, NEW mode, NEW kept, AllSound(msgs, mode, kept),
         NEW i \in 1..Len(msgs), NEW b, Sound(b, i, mode, kept)
  PROVE  /\ AllSound(Put(msgs, i, b), mode, kept)
         /\ Len(Put(msgs, i, b)) = Len(msgs)
         /\ \A j \in 1..Len(msgs) : j # i => Put(msgs, i, b)[j] = msgs[j]
<1> DEFINE new == Put(msgs, i, b)
<1>1. PICK S : msgs \in Seq(S)
  BY DEF AllSound, Sequence
<1>2. msgs \in Seq(S \cup {b})
  BY <1>1
<1>3. /\ new \in Seq(S \cup {b}) /\ Len(new) = Len(msgs) /\ new[i] = b
      /\ \A j \in 1..Len(msgs) : j # i => new[j] = msgs[j]
  BY <1>2 DEF Put
<1> HIDE DEF new
<1>4. AllSound(new, mode, kept)
  BY <1>3 DEF AllSound, Sequence
<1> QED
  BY <1>3, <1>4 DEF new

-----------------------------------------------------------------------------
\* A pass replaces the message it has come to.
LEMMA DraftReplaced ==
  ASSUME IInv, phase # "host", at <= Len(draft), at > frozen,
         NEW c, c.of = Unit, Stored(c),
         UNCHANGED <<conversation, phase>>, at' = at + 1,
         ~(entry = "compress" /\ Current.failed /\ Current.shape # "string"),
         c.form = "crushed" => Unit.form = "raw" /\ ~IsRetrieval(Current)
  PROVE  IInv'
<1>1. PICK S : draft \in Seq(S)
  BY DEF IInv, MessagesSound, AllSound, Sequence
<1>2. at \in 1..Len(draft)
  BY <1>1 DEF IInv
<1>3. Sound(Current, at, entry, store)
  BY <1>2 DEF IInv, MessagesSound, AllSound, Current
<1>4. /\ draft' = [draft EXCEPT ![at] = Becomes(Current, c)]
      /\ store \subseteq store' /\ Unit \in store' /\ entry' = entry
      /\ history' = history /\ sent' = sent /\ frozen' = frozen
  BY DEF Stored, conversation
<1>5. Sound(Becomes(Current, c), at, entry, store')
  BY <1>3, <1>4, ReplacedIsSound DEF Unit
<1>6. /\ AllSound(history, entry, store') /\ AllSound(sent, entry, store')
      /\ AllSound(draft, entry, store')
  BY <1>4, KeptIsSound DEF IInv, MessagesSound
<1>7. /\ AllSound(draft', entry, store') /\ Len(draft') = Len(draft)
      /\ \A j \in 1..Len(draft) : j # at => draft'[j] = draft[j]
  <2>1. PICK b : b = Becomes(Current, c)
    OBVIOUS
  <2>2. Sound(b, at, entry, store') /\ draft' = Put(draft, at, b)
    BY <2>1, <1>4, <1>5 DEF Put
  <2> QED
    BY <2>2, <1>2, <1>6, ExceptIsSound
<1>8. MessagesSound'
  BY <1>4, <1>6, <1>7 DEF MessagesSound
<1>9. FrozenUntouched'
  BY <1>1, <1>4, <1>7 DEF IInv, FrozenUntouched
<1> QED
  BY <1>2, <1>4, <1>7, <1>8, <1>9 DEF IInv

\* A pass leaves it as it is.
LEMMA DraftKept ==
  ASSUME IInv, UNCHANGED <<conversation, draft, store>>,
         at' \in Nat, at' > 0
  PROVE  IInv'
BY DEF IInv, MessagesSound, FrozenUntouched, conversation

\* The end of a call gives the host the draft or its own messages back.
LEMMA CallEnds ==
  ASSUME IInv, NEW result, Ends(result), result = draft \/ result = history
  PROVE  IInv'
<1>1. /\ phase' = "host" /\ at' = 0 /\ frozen' = 0 /\ sent' = result
      /\ draft' = history /\ history' = history
      /\ entry' = entry /\ store' = store
  BY DEF Ends
<1>2. PICK S : history \in Seq(S)
  BY DEF IInv, MessagesSound, AllSound, Sequence
<1> QED
  BY <1>1, <1>2 DEF IInv, MessagesSound, FrozenUntouched

-----------------------------------------------------------------------------
\* The host's next message and the results of its calls stand after the call.
LEMMA ExtendedIsSound ==
  ASSUME NEW msgs, NEW mode, NEW kept, AllSound(msgs, mode, kept),
         NEW exchange \in Exchanges
  PROVE  AllSound(Extended(msgs, exchange), mode, kept)
<1> DEFINE n == Len(msgs)
           turn == n + 1
           text == Message("text", 0, NoCall, FALSE, Prose)
           result(k) == Message(exchange[k].shape, turn, exchange[k].call,
                                exchange[k].failed, exchange[k].original)
           results == [k \in DOMAIN exchange |-> result(k)]
           R == {result(k) : k \in DOMAIN exchange}
<1>1. PICK S : msgs \in Seq(S)
  BY DEF AllSound, Sequence
<1>2. n \in Nat
  BY <1>1
<1>3. PICK l \in Nat : DOMAIN exchange = 1..l
  BY ConversationAssumption
<1>4. results \in Seq(R) /\ Len(results) = l
  <2> HIDE DEF result
  <2>1. results \in [1..l -> R]
    BY <1>3
  <2> QED
    BY <2>1, <1>3
<1>5. Sound(text, turn, mode, kept)
  <2>1. turn \in Nat /\ 0 < turn
    BY <1>2
  <2> QED
    BY <2>1, FreshIsSound
<1>6. ASSUME NEW k \in 1..l
      PROVE  Sound(results[k], turn + k, mode, kept)
  <2>1. turn \in Nat /\ turn + k \in Nat /\ turn < turn + k
    BY <1>2, <1>3
  <2>2. results[k] = result(k)
    BY <1>3
  <2> QED
    BY <2>1, <2>2, FreshIsSound
<1>7. \A i \in 1..n : Sound(msgs[i], i, mode, kept)
  BY DEF AllSound
<1> DEFINE all == S \cup {text} \cup R
           whole == Append(msgs, text) \o results
<1>8. Extended(msgs, exchange) = whole
  BY DEF Extended
<1> HIDE DEF text, results, R, result
<1>9. msgs \in Seq(all) /\ results \in Seq(all) /\ text \in all
  BY <1>1, <1>4
<1>10. /\ whole \in Seq(all) /\ Len(whole) = turn + l
       /\ \A i \in 1..n : whole[i] = msgs[i]
       /\ whole[turn] = text
       /\ \A k \in 1..l : whole[turn + k] = results[k]
  BY <1>2, <1>3, <1>4, <1>9
<1> HIDE DEF whole, all, n
<1>11. ASSUME NEW i \in 1..(turn + l)
       PROVE  Sound(whole[i], i, mode, kept)
  <2>1. CASE i \in 1..n
    BY <2>1, <1>7, <1>10
  <2>2. CASE i = turn
    BY <2>2, <1>5, <1>10
  <2>3. CASE i > turn
    <3>1. i - turn \in 1..l /\ i = turn + (i - turn)
      BY <2>3, <1>2, <1>3
    <3>2. Sound(results[i - turn], turn + (i - turn), mode, kept)
      BY <3>1, <1>6
    <3>3. whole[turn + (i - turn)] = results[i - turn]
      BY <3>1, <1>10
    <3> QED
      BY <3>1, <3>2, <3>3
  <2> QED
    BY <2>1, <2>2, <2>3, <1>2, <1>3
<1> QED
  BY <1>8, <1>10, <1>11 DEF AllSound, Sequence

\* A call extends a sound list.
LEMMA CallStep ==
  ASSUME IInv, NEW exchange \in Exchanges, NEW base, base = history \/ base = sent,
         Call(exchange, base)
  PROVE  IInv'
<1>1. AllSound(base, entry, store)
  BY DEF IInv, MessagesSound
<1>2. AllSound(Extended(base, exchange), entry, store)
  BY <1>1, ExtendedIsSound
<1>3. /\ history' = Extended(base, exchange) /\ draft' = history'
      /\ frozen' \in Breakpoints(history') /\ at' = 1
      /\ sent' = sent /\ entry' = entry /\ store' = store
  BY DEF Call
<1>4. MessagesSound'
  BY <1>2, <1>3 DEF IInv, MessagesSound
<1>5. frozen' \in 0..Len(history')
  <2>1. PICK S : history' \in Seq(S)
    BY <1>2, <1>3 DEF AllSound, Sequence
  <2> QED
    BY <1>3, <2>1 DEF Breakpoints
<1> QED
  BY <1>3, <1>4, <1>5 DEF IInv, FrozenUntouched

-----------------------------------------------------------------------------
\* The dedup pass replaces outputs behind the breakpoint that did not fail.
LEMMA DedupStep ==
  ASSUME IInv, DedupSkip \/ DedupExact \/ DedupNear \/ DedupRegister \/ DedupDone
  PROVE  IInv'
<1>1. ASSUME Deduping
      PROVE  phase # "host" /\ at <= Len(draft) /\ at + 1 \in Nat /\ at + 1 > 0
  BY <1>1 DEF Deduping, IInv
<1>2. IsUnit => ~Current.failed
  BY DEF IsUnit
<1>3. Replaceable => at > frozen
  BY DEF Replaceable
<1>4. ASSUME Deduping, Advances, UNCHANGED <<draft, store>>
      PROVE  IInv'
  BY <1>4, <1>1, DraftKept DEF Advances
<1>5. CASE DedupSkip
  BY <1>5, <1>4 DEF DedupSkip, Keeps
<1>6. CASE DedupRegister
  BY <1>6, <1>4 DEF DedupRegister, Keeps
<1>7. CASE DedupExact
  <2> DEFINE c == Duplicate(Unit, FirstOf(Unit).at)
  <2>1. c.of = Unit /\ c.form = "dup"
    BY DEF Duplicate
  <2>2. CASE Replaceable /\ Stored(c)
    <3> HIDE DEF c
    <3> QED
      BY <2>1, <2>2, <1>1, <1>2, <1>3, <1>7, DraftReplaced DEF DedupExact, Advances
  <2>3. CASE UNCHANGED <<draft, store>>
    BY <2>3, <1>4, <1>7 DEF DedupExact
  <2> QED
    BY <2>2, <2>3, <1>7 DEF DedupExact, Keeps, Vetoed
<1>8. CASE DedupNear
  <2> DEFINE c == NearDuplicate(Unit, Best.at, Unit.rows \ Best.rows)
  <2>1. c.of = Unit /\ c.form = "near"
    BY DEF NearDuplicate
  <2>2. CASE Stored(c)
    <3> HIDE DEF c
    <3> QED
      BY <2>1, <2>2, <1>1, <1>2, <1>3, <1>8, DraftReplaced DEF DedupNear, Advances
  <2>3. CASE UNCHANGED <<draft, store>>
    BY <2>3, <1>4, <1>8 DEF DedupNear
  <2> QED
    BY <2>2, <2>3, <1>8 DEF DedupNear, Vetoed
<1>9. CASE DedupDone
  BY <1>9, DraftKept DEF DedupDone, Keeps
<1> QED
  BY <1>5, <1>6, <1>7, <1>8, <1>9

\* A read is replaced only if the call of it stands after the breakpoint, and the
\* read stands after its call.
LEMMA LifecycleKeeps ==
  ASSUME IInv, LifecycleStep \/ LifecycleDone
  PROVE  IInv'
<1>1. CASE LifecycleStep
  <2>1. /\ phase # "host" /\ at <= Len(draft) /\ entry = "pipeline"
        /\ at + 1 \in Nat /\ at + 1 > 0 /\ at > 0
        /\ UNCHANGED <<conversation, phase>> /\ at' = at + 1
    BY <1>1 DEF LifecycleStep, Advances, IInv
  <2> DEFINE state == ReadState(draft, Current, frozen)
             c == Overtaken(state, Unit)
  <2>2. CASE UNCHANGED <<draft, store>>
    BY <2>1, <2>2, DraftKept
  <2>3. CASE IsOvertaken(draft, Current, frozen) /\ Stored(c)
    <3>1. PICK S : draft \in Seq(S)
      BY DEF IInv, MessagesSound, AllSound, Sequence
    <3>2. Sound(Current, at, entry, store)
      BY <2>1, <3>1 DEF IInv, MessagesSound, AllSound, Current
    <3>3. Current.turn > frozen /\ state \in {"stale", "superseded"}
      <4>1. PICK F : history \in Seq(F)
        BY DEF IInv, MessagesSound, AllSound, Sequence
      <4>2. frozen \in Nat /\ Current.turn \in Nat
        BY <3>2, <4>1 DEF IInv, Sound
      <4> QED
        BY <2>3, <4>2 DEF IsOvertaken, ReadState
    <3>4. at > frozen
      <4>1. PICK F : history \in Seq(F)
        BY DEF IInv, MessagesSound, AllSound, Sequence
      <4> QED
        BY <3>2, <3>3, <4>1 DEF IInv, Sound
    <3>5. c.of = Unit /\ c.form # "crushed"
      BY <3>3 DEF Overtaken
    <3> HIDE DEF c
    <3> QED
      BY <2>1, <2>3, <3>4, <3>5, DraftReplaced
  <2> QED
    BY <1>1, <2>2, <2>3 DEF LifecycleStep, Keeps, Vetoed
<1>2. CASE LifecycleDone
  BY <1>2, DraftKept DEF LifecycleDone, Keeps
<1> QED
  BY <1>1, <1>2

\* The gates of strings and of blocks agree on markers and on retrievals.
LEMMA RouteKeeps ==
  ASSUME IInv, RouteStep
  PROVE  IInv'
<1>1. /\ phase # "host" /\ at <= Len(draft)
      /\ at + 1 \in Nat /\ at + 1 > 0
      /\ UNCHANGED <<conversation, phase>> /\ at' = at + 1
  BY DEF RouteStep, Advances, IInv
<1>2. CASE UNCHANGED <<draft, store>>
  BY <1>1, <1>2, DraftKept
<1>3. CASE Compressible(draft, at, frozen, analysis) /\ Stored(Crushed(Unit))
  <2>1. at > frozen /\ ~IsRetrieval(Current) /\ Unit.form = "raw"
    BY <1>3 DEF Compressible, StringKept, BlockKept, Excluded, Pinned, Current, Unit
  <2>2. ~(Current.failed /\ Current.shape # "string")
    BY <1>3 DEF Compressible, BlockKept, Current
  <2>3. Crushed(Unit).of = Unit
    BY DEF Crushed
  <2> QED
    BY <1>1, <1>3, <2>1, <2>2, <2>3, DraftReplaced
<1> QED
  BY <1>2, <1>3 DEF RouteStep, Keeps, Vetoed

-----------------------------------------------------------------------------
\* A conversation starts with one text.
LEMMA ConversationInit == Init => IInv
<1> SUFFICES ASSUME Init PROVE IInv
  OBVIOUS
<1> DEFINE text == Message("text", 0, NoCall, FALSE, Prose)
<1>1. Sound(text, 1, entry, store)
  <2>1. ASSUME NEW failed
        PROVE  Sound(Message("text", 0, NoCall, failed, Prose), 1, entry, store)
    BY FreshIsSound
  <2> QED
    BY <2>1
<1>2. /\ history = <<text>> /\ sent = history /\ draft = history
      /\ phase = "host" /\ at = 0 /\ frozen = 0
  BY DEF Init
<1> HIDE DEF text
<1>3. <<text>> \in Seq({text}) /\ Len(<<text>>) = 1 /\ <<text>>[1] = text
  OBVIOUS
<1>4. AllSound(<<text>>, entry, store)
  <2>1. ASSUME NEW i \in 1..Len(<<text>>)
        PROVE  Sound(<<text>>[i], i, entry, store)
    <3>1. i = 1
      BY <1>3
    <3> QED
      BY <3>1, <1>1, <1>3
  <2>2. Sequence(<<text>>)
    BY <1>3 DEF Sequence
  <2> QED
    BY <2>1, <2>2 DEF AllSound
<1> QED
  BY <1>2, <1>3, <1>4 DEF IInv, MessagesSound, FrozenUntouched

\* Every action keeps the messages sound and the prefix as it was.
LEMMA ConversationStep == IInv /\ [Next]_vars => IInv'
<1> SUFFICES ASSUME IInv, [Next]_vars PROVE IInv'
  OBVIOUS
<1>1. ASSUME NEW exchange \in Exchanges, Call(exchange, history) \/ Call(exchange, sent)
      PROVE  IInv'
  BY <1>1, CallStep
<1>2. CASE DedupSkip \/ DedupExact \/ DedupNear \/ DedupRegister \/ DedupDone
  BY <1>2, DedupStep
<1>3. CASE LifecycleStep \/ LifecycleDone
  BY <1>3, LifecycleKeeps
<1>4. CASE RouteStep
  BY <1>4, RouteKeeps
<1>5. CASE Return
  BY <1>5, CallEnds DEF Return
<1>6. CASE FailOpen
  BY <1>6, CallEnds DEF FailOpen
<1>7. CASE UNCHANGED vars
  BY <1>7 DEF vars, conversation, IInv, MessagesSound, FrozenUntouched
<1> QED
  BY <1>1, <1>2, <1>3, <1>4, <1>5, <1>6, <1>7 DEF Next, Pass

\* IInv is inductive.
LEMMA ConversationInvariant == Spec => []IInv
BY ConversationInit, ConversationStep, PTL DEF Spec

\* What the provider has cached is not touched by any pass of any call, for any
\* breakpoints, windows and tools.
THEOREM CallsLeaveThePrefix == Spec => []FrozenUntouched
<1>1. IInv => FrozenUntouched
  BY DEF IInv
<1> QED
  BY <1>1, ConversationInvariant, PTL

\* Over any number of turns and passes, what a tool returned can be had back from
\* the store, one marker at a time.
THEOREM CallsAreRecoverable == Spec => []Recoverable
<1>1. IInv => Recoverable
  <2> SUFFICES ASSUME IInv, NEW i \in DOMAIN draft PROVE Traced(draft[i])
    BY DEF Recoverable
  <2>1. PICK S : draft \in Seq(S)
    BY DEF IInv, MessagesSound, AllSound, Sequence
  <2>2. TracedIn(draft[i], store)
    BY <2>1 DEF IInv, MessagesSound, AllSound, Sound
  <2> QED
    BY <2>2 DEF TracedIn, Traced
<1> QED
  BY <1>1, ConversationInvariant, PTL

\* Failures that say so, markers and retrieved contents reach the model as the
\* gates of all the passes together promise.
THEOREM CallsKeepVerbatim == Spec => []VerbatimKept
<1>1. IInv => VerbatimKept
  <2> SUFFICES ASSUME IInv PROVE VerbatimKept
    OBVIOUS
  <2>1. PICK S : draft \in Seq(S)
    BY DEF IInv, MessagesSound, AllSound, Sequence
  <2>2. \A i \in DOMAIN draft : Sound(draft[i], i, entry, store)
    BY <2>1 DEF IInv, MessagesSound, AllSound
  <2>3. FailedBlocksVerbatim
    BY <2>2 DEF Sound, FailedBlocksVerbatim
  <2>4. NeverRecompressed
    BY <2>2 DEF Sound, NeverRecompressed
  <2>5. RetrievedNotCompressed
    BY <2>2 DEF Sound, RetrievedNotCompressed
  <2> QED
    BY <2>3, <2>4, <2>5 DEF VerbatimKept
<1> QED
  BY <1>1, ConversationInvariant, PTL

-----------------------------------------------------------------------------
(* The dedup pass.                                                         *)

\* Every set of naturals that is not empty has a least member.
LEMMA LeastNatural ==
  ASSUME NEW S \in SUBSET Nat, S # {}
  PROVE  \E n \in S : \A m \in S : n <= m
<1> DEFINE R == OpToRel(<, Nat)
<1> DEFINE Q == {ss \in Nat \X Nat : ss[1] < ss[2]}
<1>1. R = Q
  BY Zenon DEF OpToRel
<1>2. IsWellFoundedOn(Q, Nat)
  BY <1>1, NatLessThanWellFounded, Zenon
<1>3. \E n \in S : \A m \in S : ~(<<m, n>> \in Q)
  <2> HIDE DEF Q
  <2> QED BY <1>2, WFMin, Zenon
<1>4. PICK n \in S : \A m \in S : ~(<<m, n>> \in Q)
  BY <1>3
<1>5. ASSUME NEW m \in S PROVE n <= m
  <2>1. <<m, n>> \in Nat \X Nat /\ <<m, n>>[1] = m /\ <<m, n>>[2] = n
    OBVIOUS
  <2>2. ~(m < n)
    BY <1>4, <2>1
  <2> QED BY <2>2
<1> QED BY <1>5

\* What a content owes: its rows can be counted, and a pointer stands for a
\* content that is no pointer.
ContentOK(c) == IsFiniteSet(c.rows) /\ (c.form = "dup" => Long(c.of))
ContentsOK(msgs) == \A i \in 1..Len(msgs) : ContentOK(msgs[i].content)

\* A pointer in place of what the host still has as it was names an earlier message
\* of the host's with that content, which the store holds.
PointsBack(msgs) ==
  \A i \in 1..Len(msgs) :
    LET c == msgs[i].content
    IN  c.form = "dup" /\ c.of = history[i].content =>
          /\ c.of \in store
          /\ c.at \in 1..(i - 1)
          /\ history[c.at].content = c.of

\* Of the scan: what lies ahead is as it was passed in, and so is what may be
\* pointed at, which is behind.
Kept(i) == i \in 1..(at - 1) /\ draft[i] = history[i]

SeenOK ==
  /\ \A first \in seen : Kept(first.at) /\ draft[first.at].content = first.content
  /\ \A first, other \in seen : first.content = other.content => first = other

SourcesOK ==
  /\ Sequence(sources) /\ Len(sources) <= MaxSources
  /\ \A k \in 1..Len(sources) :
       Kept(sources[k].at) /\ draft[sources[k].at].content.rows = sources[k].rows

Pointing ==
  \A i \in 1..(at - 1) :
    LET c == draft[i].content
    IN  c # history[i].content =>
          /\ c.at \in 1..(i - 1) /\ draft[c.at] = history[c.at]
          /\ IF c.form = "dup" THEN c.of = draft[c.at].content
             ELSE c.of.rows \ c.rows \subseteq draft[c.at].content.rows

Scanning ==
  /\ \A i \in at..Len(draft) : draft[i] = history[i]
  /\ SeenOK /\ SourcesOK
  /\ Pointing

Bounded ==
  /\ phase \in {"host", "dedup", "lifecycle", "route"}
  /\ entry \in {"compress", "pipeline"} /\ analysis \in BOOLEAN
  /\ Len(sent) <= Len(history)
  /\ at <= Len(draft) + 1
  /\ warned \subseteq 1..frozen
  /\ turns \in 0..MaxTurns /\ vetoes \in 0..MaxVetoes

Warned ==
  phase # "host" /\ entry = "compress" =>
    \A i \in 1..frozen \cap DOMAIN sent :
      LET c == sent[i].content
      IN  c.form = "dup" /\ c.of = history[i].content
            /\ Flat(history[i]) /\ Flat(history[c.at]) => i \in warned

ScanInv ==
  /\ Bounded /\ Warned
  /\ ContentsOK(history) /\ ContentsOK(sent) /\ ContentsOK(draft)
  /\ PointsBack(sent) /\ PointsBack(draft)
  /\ phase = "host" => draft = history
  /\ IF phase = "dedup" THEN Scanning ELSE seen = {} /\ sources = <<>>

-----------------------------------------------------------------------------
\* The contents the passes make.
LEMMA ContentsMade ==
  ASSUME NEW c, IsFiniteSet(c.rows), NEW index, NEW changed \in SUBSET c.rows,
         NEW form \in {"stale", "superseded"}
  PROVE  /\ Long(c) => ContentOK(Duplicate(c, index))
         /\ ContentOK(NearDuplicate(c, index, changed))
         /\ ContentOK(Overtaken(form, c))
         /\ ContentOK(Crushed(c))
<1>1. IsFiniteSet({})
  BY FS_EmptySet
<1>2. ASSUME NEW S, IsFiniteSet(S), NEW x PROVE IsFiniteSet(S \cup {x})
  BY <1>2, FS_AddElement
<1>3. IsFiniteSet(changed) /\ IsFiniteSet(c.rows \cap KeptRows)
  BY FS_Subset
<1>4. Long(c) => ContentOK(Duplicate(c, index))
  BY <1>1 DEF ContentOK, Duplicate
<1>5. ContentOK(NearDuplicate(c, index, changed))
  BY <1>2, <1>3 DEF ContentOK, NearDuplicate
<1>6. ContentOK(Overtaken(form, c))
  BY <1>1 DEF ContentOK, Overtaken
<1>7. ContentOK(Crushed(c))
  BY <1>1, <1>2, <1>3 DEF ContentOK, Crushed
<1> QED BY <1>4, <1>5, <1>6, <1>7

\* A pointer does not stand for itself.
LEMMA NoSelfPointer ==
  ASSUME NEW c, ContentOK(c), c.form = "dup", c.of = c
  PROVE  FALSE
BY DEF ContentOK, Long

\* A list that is the host's own has nothing to point back from.
LEMMA OwnPointsBack ==
  ASSUME ContentsOK(history)
  PROVE  PointsBack(history)
BY NoSelfPointer DEF PointsBack, ContentsOK

\* A replacement changes the message the pass has come to, and it alone.
LEMMA OneReplaced ==
  ASSUME IInv, at \in 1..Len(draft), NEW c, Stored(c)
  PROVE  /\ Len(draft') = Len(draft)
         /\ draft'[at].content = c
         /\ draft'[at].shape = Current.shape /\ draft'[at].turn = Current.turn
         /\ draft'[at].call = Current.call
         /\ \A j \in 1..Len(draft) : j # at => draft'[j] = draft[j]
         /\ store' = store \cup {Unit}
<1>1. PICK S : draft \in Seq(S)
  BY DEF IInv, MessagesSound, AllSound, Sequence
<1>2. PICK b : b = Becomes(Current, c)
  OBVIOUS
<1>3. b.content = c /\ b.shape = Current.shape /\ b.turn = Current.turn /\ b.call = Current.call
  BY <1>2 DEF Becomes
<1>4. draft \in Seq(S \cup {b}) /\ draft' = [draft EXCEPT ![at] = b]
  BY <1>1, <1>2 DEF Stored
<1>5. Len(draft') = Len(draft) /\ draft'[at] = b /\ \A j \in 1..Len(draft) : j # at => draft'[j] = draft[j]
  BY <1>4
<1> QED BY <1>3, <1>5 DEF Stored

\* The index is a number, and so are the lengths.
LEMMA Numbers ==
  ASSUME IInv
  PROVE  /\ Len(draft) \in Nat /\ Len(history) \in Nat /\ Len(sent) \in Nat
         /\ DOMAIN draft = 1..Len(draft) /\ DOMAIN history = 1..Len(history)
         /\ DOMAIN sent = 1..Len(sent)
         /\ Len(draft) = Len(history) /\ at \in Nat
<1>1. \A s : Sequence(s) => Len(s) \in Nat /\ DOMAIN s = 1..Len(s)
  BY LenProperties DEF Sequence
<1> QED BY <1>1 DEF IInv, MessagesSound, AllSound

-----------------------------------------------------------------------------
\* A pass that leaves the messages as they are, and one that replaces one.
LEMMA ContentsKept ==
  ASSUME ScanInv, UNCHANGED <<history, sent, draft, store>>
  PROVE  ContentsOK(history)' /\ ContentsOK(sent)' /\ ContentsOK(draft)'
         /\ PointsBack(sent)' /\ PointsBack(draft)'
BY DEF ScanInv, ContentsOK, PointsBack

\* The replacement, if it is a pointer, points at what the host has there.
LEMMA ContentsReplaced ==
  ASSUME IInv, ScanInv, at \in 1..Len(draft), UNCHANGED <<history, sent>>,
         NEW c, ContentOK(c), Stored(c),
         c.form = "dup" => c.of = Unit /\ c.at \in 1..(at - 1) /\ history[c.at].content = Unit
  PROVE  ContentsOK(history)' /\ ContentsOK(sent)' /\ ContentsOK(draft)'
         /\ PointsBack(sent)' /\ PointsBack(draft)'
<1>1. /\ Len(draft') = Len(draft) /\ draft'[at].content = c
      /\ \A j \in 1..Len(draft) : j # at => draft'[j] = draft[j]
      /\ store' = store \cup {Unit}
  BY OneReplaced
<1>2. ContentsOK(history)' /\ ContentsOK(sent)'
  BY DEF ScanInv, ContentsOK
<1>3. ContentsOK(draft)'
  BY <1>1 DEF ScanInv, ContentsOK
<1>4. PointsBack(sent)'
  BY <1>1 DEF ScanInv, PointsBack
<1>5. PointsBack(draft)'
  <2> SUFFICES ASSUME NEW i \in 1..Len(draft), NEW d, d = draft'[i].content,
                      d.form = "dup", d.of = history[i].content
               PROVE  d.of \in store' /\ d.at \in 1..(i - 1) /\ history[d.at].content = d.of
    BY <1>1 DEF PointsBack
  <2>1. CASE i = at
    BY <2>1, <1>1
  <2>2. CASE i # at
    BY <2>2, <1>1 DEF ScanInv, PointsBack
  <2> QED BY <2>1, <2>2
<1> QED BY <1>2, <1>3, <1>4, <1>5

\* What stays of the bounds and of the warning while the passes run.
LEMMA RestKept ==
  ASSUME ScanInv, UNCHANGED conversation, phase # "host",
         phase' \in {"dedup", "lifecycle", "route"}, at' <= Len(draft') + 1,
         vetoes' = vetoes \/ (vetoes < MaxVetoes /\ vetoes' = vetoes + 1)
  PROVE  Bounded' /\ Warned'
<1>1. MaxVetoes \in Nat
  BY ConversationAssumption
<1> QED BY <1>1 DEF ScanInv, Bounded, Warned, conversation

\* The scan has gone on by one message.
LEMMA ScanGoesOn ==
  ASSUME IInv, Scanning, at \in 1..Len(draft), phase = "dedup", phase' = "dedup",
         history' = history, at' = at + 1, Len(draft') = Len(draft),
         \A j \in 1..Len(draft) : j # at => draft'[j] = draft[j],
         NEW c, c = draft'[at].content,
         c # history[at].content =>
           /\ Kept(c.at)
           /\ IF c.form = "dup" THEN c.of = draft[c.at].content
              ELSE c.of.rows \ c.rows \subseteq draft[c.at].content.rows
  PROVE  /\ \A i \in at'..Len(draft') : draft'[i] = history'[i]
         /\ Pointing'
         /\ \A i : Kept(i) => Kept(i)' /\ draft'[i] = draft[i]
<1>1. \A i : Kept(i) => Kept(i)' /\ draft'[i] = draft[i]
  BY Numbers DEF Kept
<1>2. \A i \in at'..Len(draft') : draft'[i] = history'[i]
  BY Numbers DEF Scanning
<1>3. ASSUME NEW i \in 1..at, NEW d, d = draft'[i].content, d # history[i].content
      PROVE  /\ d.at \in 1..(i - 1) /\ draft'[d.at] = history[d.at]
             /\ IF d.form = "dup" THEN d.of = draft'[d.at].content
                ELSE d.of.rows \ d.rows \subseteq draft'[d.at].content.rows
  <2>1. CASE i = at
    <3>1. Kept(d.at)
      BY <2>1, <1>3
    <3>2. d.at \in 1..(at - 1) /\ draft'[d.at] = draft[d.at] /\ draft[d.at] = history[d.at]
      BY <3>1, <1>1 DEF Kept
    <3> QED BY <2>1, <1>3, <3>2
  <2>2. CASE i # at
    <3>1. i \in 1..(at - 1) /\ d = draft[i].content
      BY <2>2, <1>3, Numbers
    <3>2. /\ d.at \in 1..(i - 1) /\ draft[d.at] = history[d.at]
          /\ IF d.form = "dup" THEN d.of = draft[d.at].content
             ELSE d.of.rows \ d.rows \subseteq draft[d.at].content.rows
      BY <3>1, <1>3 DEF Scanning, Pointing
    <3>3. draft'[d.at] = draft[d.at]
      BY <3>1, <3>2, Numbers
    <3> QED BY <3>2, <3>3
  <2> QED BY <2>1, <2>2
<1>4. Pointing'
  <2>1. at' - 1 = at
    BY Numbers
  <2> QED BY <1>3, <2>1 DEF Pointing
<1> QED BY <1>1, <1>2, <1>4

\* What may be pointed at stays so.
LEMMA ScanUnchanged ==
  ASSUME SeenOK, SourcesOK, UNCHANGED scan,
         \A i : Kept(i) => Kept(i)' /\ draft'[i] = draft[i]
  PROVE  SeenOK' /\ SourcesOK'
BY DEF SeenOK, SourcesOK, scan

\* A unit kept verbatim joins what may be pointed at, and the oldest array goes.
LEMMA ScanRegisters ==
  ASSUME IInv, SeenOK, SourcesOK, at \in 1..Len(draft), at' = at + 1,
         draft[at] = history[at], UNCHANGED <<draft, history>>, ~Seen(Unit), Registers,
         \A i : Kept(i) => Kept(i)' /\ draft'[i] = draft[i]
  PROVE  SeenOK' /\ SourcesOK'
<1>0. PICK n : n = at
  OBVIOUS
<1>1. Kept(n)' /\ draft'[n] = Current
  BY <1>0, Numbers DEF Kept, Current
<1>2. SeenOK'
  <2>1. seen' = seen \cup {[content |-> Unit, at |-> n]}
    BY <1>0 DEF Registers
  <2>2. \A first \in seen : first.content # Unit
    BY DEF Seen
  <2>3. ASSUME NEW first \in seen'
        PROVE  Kept(first.at)' /\ draft'[first.at].content = first.content
    <3>1. CASE first \in seen
      BY <3>1 DEF SeenOK
    <3>2. CASE first = [content |-> Unit, at |-> n]
      BY <3>2, <1>1 DEF Unit
    <3> QED BY <2>1, <3>1, <3>2
  <2>4. \A first, other \in seen' : first.content = other.content => first = other
    BY <2>1, <2>2 DEF SeenOK
  <2> QED BY <2>3, <2>4 DEF SeenOK
<1>3. SourcesOK'
  <2>1. CASE Unit.rows = {}
    BY <2>1 DEF SourcesOK, Registers
  <2>2. CASE Unit.rows # {}
    <3>1. PICK source : source = [at |-> n, rows |-> Unit.rows]
      OBVIOUS
    <3>2. PICK S : sources \in Seq(S)
      BY DEF SourcesOK, Sequence
    <3>3. PICK all : all = Append(sources, source)
      OBVIOUS
    <3>4. sources \in Seq(S \cup {source})
      BY <3>2
    <3>5. /\ all \in Seq(S \cup {source}) /\ Len(all) = Len(sources) + 1 /\ Len(sources) \in Nat
          /\ all[Len(sources) + 1] = source
          /\ \A k \in 1..Len(sources) : all[k] = sources[k]
      BY <3>3, <3>4, AppendProperties, LenProperties
    <3>6. \A k \in 1..Len(all) : Kept(all[k].at)' /\ draft'[all[k].at].content.rows = all[k].rows
      <4> TAKE k \in 1..Len(all)
      <4>1. CASE k = Len(sources) + 1
        BY <4>1, <3>1, <3>5, <1>1 DEF Unit
      <4>2. CASE k # Len(sources) + 1
        <5>1. k \in 1..Len(sources) /\ all[k] = sources[k]
          BY <4>2, <3>5
        <5> QED BY <5>1 DEF SourcesOK
      <4> QED BY <4>1, <4>2
    <3>7. sources' = IF Len(all) > MaxSources THEN Tail(all) ELSE all
      BY <1>0, <2>2, <3>1, <3>3 DEF Registers, Capped
    <3>8. MaxSources \in Nat
      BY ConversationAssumption
    <3>9. CASE Len(all) > MaxSources
      <4>1. all # <<>>
        BY <3>5, EmptySeq
      <4>2. /\ Tail(all) \in Seq(S \cup {source}) /\ Len(Tail(all)) = Len(all) - 1
            /\ \A k \in 1..Len(Tail(all)) : Tail(all)[k] = all[k + 1]
        BY <4>1, <3>5, HeadTailProperties
      <4>3. \A k \in 1..Len(Tail(all)) : k + 1 \in 1..Len(all)
        BY <4>2, <3>5
      <4> QED BY <3>5, <3>6, <3>7, <3>8, <3>9, <4>2, <4>3 DEF SourcesOK, Sequence
    <3>10. CASE ~(Len(all) > MaxSources)
      BY <3>5, <3>6, <3>7, <3>8, <3>10 DEF SourcesOK, Sequence
    <3> QED BY <3>9, <3>10
  <2> QED BY <2>1, <2>2
<1> QED BY <1>2, <1>3

\* There is an earliest source among those that share most rows.
LEMMA BestIsASource ==
  ASSUME IsFiniteSet(Unit.rows), SourcesOK, sources # <<>>
  PROVE  \E k \in 1..Len(sources) : Best = sources[k]
<1>1. PICK S : sources \in Seq(S)
  BY DEF SourcesOK, Sequence
<1>2. PICK n : n = Len(sources)
  OBVIOUS
<1>3. n \in Nat /\ DOMAIN sources = 1..n /\ n # 0
  BY <1>1, <1>2, EmptySeq
<1>4. PICK total : total = Cardinality(Unit.rows)
  OBVIOUS
<1>5. \A x : Shared(x) \in Nat /\ Shared(x) <= total
  <2> TAKE x
  <2>1. Unit.rows \cap x.rows \subseteq Unit.rows
    OBVIOUS
  <2>2. PICK both : both = Unit.rows \cap x.rows
    OBVIOUS
  <2>3. /\ IsFiniteSet(both) /\ Cardinality(both) <= Cardinality(Unit.rows)
        /\ Cardinality(both) \in Nat
    BY <2>1, <2>2, FS_Subset, FS_CardinalityType
  <2> QED BY <2>2, <2>3, <1>4 DEF Shared
<1>6. total \in Nat
  BY <1>4, FS_CardinalityType
<1>7. \A k \in 1..n : sources[k].at \in Nat
  BY <1>2 DEF SourcesOK, Kept
<1>8. PICK d \in {total - Shared(sources[k]) : k \in 1..n} :
        \A e \in {total - Shared(sources[k]) : k \in 1..n} : d <= e
  <2> DEFINE D == {total - Shared(sources[k]) : k \in 1..n}
  <2>1. \A k \in 1..n : total - Shared(sources[k]) \in Nat
    <3> TAKE k \in 1..n
    <3>1. PICK s : s = Shared(sources[k])
      OBVIOUS
    <3>2. s \in Nat /\ s <= total
      BY <3>1, <1>5
    <3> QED BY <3>1, <3>2, <1>6
  <2>2. D \in SUBSET Nat
    BY <2>1
  <2>3. 1 \in 1..n
    BY <1>3
  <2>4. total - Shared(sources[1]) \in D
    BY <2>3
  <2> HIDE DEF D
  <2>5. \E e \in D : \A f \in D : e <= f
    BY <2>2, <2>4, LeastNatural
  <2> QED BY <2>5 DEF D
<1>9. PICK most : most = total - d
  OBVIOUS
<1>10. PICK k0 \in 1..n : d = total - Shared(sources[k0])
  BY <1>8
<1>11. Shared(sources[k0]) = most
  BY <1>5, <1>6, <1>9, <1>10
<1>12. \A k \in 1..n : Shared(sources[k]) <= most
  <2> TAKE k \in 1..n
  <2>1. PICK s : s = Shared(sources[k])
    OBVIOUS
  <2>2. d <= total - s
    BY <2>1, <1>8
  <2>3. s \in Nat /\ most \in Nat
    BY <2>1, <1>5, <1>11
  <2>4. d \in Nat
    <3>1. PICK t : t = Shared(sources[k0])
      OBVIOUS
    <3>2. t \in Nat /\ t <= total /\ d = total - t
      BY <3>1, <1>5, <1>10
    <3> QED BY <3>2, <1>6
  <2> QED BY <2>1, <2>2, <2>3, <2>4, <1>6, <1>9
<1>13. PICK k1 \in {k \in 1..n : Shared(sources[k]) = most} :
         \A k \in {k \in 1..n : Shared(sources[k]) = most} : sources[k1].at <= sources[k].at
  <2> DEFINE K == {k \in 1..n : Shared(sources[k]) = most}
             E == {sources[k].at : k \in K}
  <2>1. k0 \in K /\ K \subseteq 1..n
    BY <1>10, <1>11
  <2> HIDE DEF K
  <2>2. E \in SUBSET Nat /\ sources[k0].at \in E
    BY <2>1, <1>7
  <2> HIDE DEF E
  <2>3. \E e \in E : \A f \in E : e <= f
    BY <2>2, LeastNatural
  <2> QED BY <2>3, Zenon DEF E, K
<1>14. k1 \in 1..n /\ Shared(sources[k1]) = most
  BY <1>13
<1>15. \A k \in 1..n :
         \/ Shared(sources[k1]) > Shared(sources[k])
         \/ Shared(sources[k1]) = Shared(sources[k]) /\ sources[k1].at <= sources[k].at
  <2> TAKE k \in 1..n
  <2>1. Shared(sources[k]) = most => sources[k1].at <= sources[k].at
    BY <1>13
  <2>2. Shared(sources[k]) # most => most > Shared(sources[k])
    BY <1>5, <1>11, <1>12
  <2> QED BY <2>1, <2>2, <1>14
<1>16. \E source \in {sources[k] : k \in 1..n} :
         \A k \in 1..n :
            \/ Shared(source) > Shared(sources[k])
            \/ Shared(source) = Shared(sources[k]) /\ source.at <= sources[k].at
  <2> WITNESS sources[k1] \in {sources[k] : k \in 1..n}
  <2> QED BY <1>15
<1>17. Best \in {sources[k] : k \in 1..n}
  BY <1>3, <1>16, Zenon DEF Best
<1> QED BY <1>17, <1>2

\* The scan keeps the message it has come to, or puts a pointer in its place.
LEMMA ScanStepKeeps ==
  ASSUME IInv, ScanInv, Deduping, Advances, UNCHANGED <<draft, store>>,
         vetoes' = vetoes \/ (vetoes < MaxVetoes /\ vetoes' = vetoes + 1),
         UNCHANGED scan \/ (~Seen(Unit) /\ Registers)
  PROVE  ScanInv'
<1>1. /\ at \in 1..Len(draft) /\ phase = "dedup" /\ phase' = "dedup" /\ at' = at + 1
      /\ history' = history /\ sent' = sent /\ UNCHANGED conversation
  BY Numbers DEF Deduping, Advances, IInv, conversation
<1>2. Scanning /\ draft[at] = history[at]
  BY <1>1, Numbers DEF ScanInv, Scanning
<1>3. at' <= Len(draft') + 1
  BY <1>1, Numbers
<1>4. Bounded' /\ Warned'
  BY <1>1, <1>3, RestKept
<1>5. /\ \A i \in at'..Len(draft') : draft'[i] = history'[i]
      /\ Pointing'
      /\ \A i : Kept(i) => Kept(i)' /\ draft'[i] = draft[i]
  <2>1. PICK c : c = draft'[at].content
    OBVIOUS
  <2>2. c = history[at].content
    BY <2>1, <1>2
  <2> QED BY <1>1, <1>2, <2>1, <2>2, ScanGoesOn
<1>6. SeenOK' /\ SourcesOK'
  <2>1. SeenOK /\ SourcesOK
    BY <1>2 DEF Scanning
  <2>2. CASE UNCHANGED scan
    BY <2>1, <2>2, <1>5, ScanUnchanged
  <2>3. CASE ~Seen(Unit) /\ Registers
    BY <2>1, <2>3, <1>1, <1>2, <1>5, ScanRegisters
  <2> QED BY <2>2, <2>3
<1>7. Scanning'
  BY <1>5, <1>6 DEF Scanning
<1>8. /\ ContentsOK(history)' /\ ContentsOK(sent)' /\ ContentsOK(draft)'
      /\ PointsBack(sent)' /\ PointsBack(draft)'
  BY <1>1, ContentsKept
<1> QED BY <1>1, <1>4, <1>7, <1>8 DEF ScanInv

\* The scan puts a pointer in the place of the message it has come to.
LEMMA ScanStepReplaces ==
  ASSUME IInv, ScanInv, Deduping, Advances, UNCHANGED scan,
         NEW c, ContentOK(c), Stored(c), c.of = Unit, Kept(c.at),
         IF c.form = "dup" THEN Unit = draft[c.at].content
         ELSE Unit.rows \ c.rows \subseteq draft[c.at].content.rows
  PROVE  ScanInv'
<1>1. /\ at \in 1..Len(draft) /\ phase = "dedup" /\ phase' = "dedup" /\ at' = at + 1
      /\ history' = history /\ sent' = sent /\ UNCHANGED conversation
  BY Numbers DEF Deduping, Advances, IInv, conversation
<1>2. Scanning /\ draft[at] = history[at]
  BY <1>1, Numbers DEF ScanInv, Scanning
<1>3. /\ Len(draft') = Len(draft) /\ draft'[at].content = c
      /\ \A j \in 1..Len(draft) : j # at => draft'[j] = draft[j]
      /\ vetoes' = vetoes
  BY <1>1, OneReplaced DEF Stored
<1>4. at' <= Len(draft') + 1
  BY <1>1, <1>3, Numbers
<1>5. Bounded' /\ Warned'
  BY <1>1, <1>3, <1>4, RestKept
<1>6. /\ \A i \in at'..Len(draft') : draft'[i] = history'[i]
      /\ Pointing'
      /\ \A i : Kept(i) => Kept(i)' /\ draft'[i] = draft[i]
  BY <1>1, <1>2, <1>3, ScanGoesOn
<1>7. SeenOK' /\ SourcesOK'
  BY <1>2, <1>6, ScanUnchanged DEF Scanning
<1>8. Scanning'
  BY <1>6, <1>7 DEF Scanning
<1>9. c.form = "dup" => c.of = Unit /\ c.at \in 1..(at - 1) /\ history[c.at].content = Unit
  BY DEF Kept
<1>10. /\ ContentsOK(history)' /\ ContentsOK(sent)' /\ ContentsOK(draft)'
       /\ PointsBack(sent)' /\ PointsBack(draft)'
  BY <1>1, <1>9, ContentsReplaced
<1> QED BY <1>1, <1>5, <1>8, <1>10 DEF ScanInv

\* Every step of the scan keeps what it relies on.
LEMMA ScanStep ==
  ASSUME IInv, ScanInv, DedupSkip \/ DedupExact \/ DedupNear \/ DedupRegister
  PROVE  ScanInv'
<1>1. Deduping /\ Advances
  BY DEF DedupSkip, DedupExact, DedupNear, DedupRegister
<1>2. /\ at \in 1..Len(draft) /\ Scanning
  BY <1>1, Numbers DEF Deduping, IInv, ScanInv
<1>3. ContentOK(Unit)
  BY <1>2 DEF ScanInv, ContentsOK, Unit, Current
<1>4. CASE DedupSkip
  BY <1>1, <1>4, ScanStepKeeps DEF DedupSkip, Keeps
<1>5. CASE DedupRegister
  BY <1>1, <1>5, ScanStepKeeps DEF DedupRegister, Keeps
<1>6. CASE DedupExact
  <2>1. CASE Stored(Duplicate(Unit, FirstOf(Unit).at))
    <3>1. PICK first : first = FirstOf(Unit)
      OBVIOUS
    <3>2. first \in seen /\ first.content = Unit
      BY <3>1, <1>6 DEF DedupExact, Seen, FirstOf
    <3>3. Kept(first.at) /\ draft[first.at].content = Unit
      BY <3>2, <1>2 DEF Scanning, SeenOK
    <3>4. PICK c : c = Duplicate(Unit, first.at)
      OBVIOUS
    <3>5. c.of = Unit /\ c.at = first.at /\ c.form = "dup"
      BY <3>4 DEF Duplicate
    <3>6. ContentOK(c)
      <4>1. Long(Unit) /\ IsFiniteSet(c.rows)
        BY <1>6, <3>4, FS_EmptySet DEF DedupExact, IsUnit, Duplicate
      <4> QED BY <4>1, <3>5 DEF ContentOK
    <3>7. Stored(c) /\ UNCHANGED scan
      BY <2>1, <3>1, <3>4, <1>6 DEF DedupExact
    <3> QED BY <1>1, <3>3, <3>5, <3>6, <3>7, ScanStepReplaces
  <2>2. CASE Vetoed \/ Keeps
    BY <1>1, <1>6, <2>2, ScanStepKeeps DEF DedupExact, Vetoed, Keeps
  <2> QED BY <1>6, <2>1, <2>2 DEF DedupExact
<1>7. CASE DedupNear
  <2>1. CASE Stored(NearDuplicate(Unit, Best.at, Unit.rows \ Best.rows))
    <3>1. PICK best : best = Best
      OBVIOUS
    <3>2. PICK k \in 1..Len(sources) : best = sources[k]
      BY <3>1, <1>2, <1>3, <1>7, BestIsASource
        DEF DedupNear, NearWorthwhile, Scanning, ContentOK
    <3>3. Kept(best.at) /\ draft[best.at].content.rows = best.rows
      BY <3>2, <1>2 DEF Scanning, SourcesOK
    <3>4. PICK c : c = NearDuplicate(Unit, best.at, Unit.rows \ best.rows)
      OBVIOUS
    <3>5. /\ c.of = Unit /\ c.at = best.at /\ c.form = "near"
          /\ c.rows = (Unit.rows \ best.rows) \cup {Note(Unit, best.at)}
      BY <3>4 DEF NearDuplicate
    <3>6. ContentOK(c)
      <4>1. IsFiniteSet(Unit.rows \ best.rows)
        BY <1>3, FS_Subset DEF ContentOK
      <4>2. IsFiniteSet(c.rows)
        BY <4>1, <3>5, FS_AddElement
      <4> QED BY <4>2, <3>5 DEF ContentOK
    <3>7. Stored(c)
      BY <2>1, <3>1, <3>4
    <3>8. UNCHANGED scan \/ (Registers /\ ~Seen(Unit))
      BY <1>7 DEF DedupNear
    <3>9. Unit.rows \ c.rows \subseteq best.rows
      BY <3>5
    <3>10. CASE UNCHANGED scan
      BY <1>1, <3>3, <3>5, <3>6, <3>7, <3>9, <3>10, ScanStepReplaces
    <3>11. CASE Vetoed
      BY <1>1, <1>7, <3>11, ScanStepKeeps DEF DedupNear, Vetoed
    <3> QED BY <1>7, <3>10, <3>11 DEF DedupNear
  <2>2. CASE Vetoed /\ Registers
    BY <1>1, <1>7, <2>2, ScanStepKeeps DEF DedupNear, Vetoed
  <2> QED BY <1>7, <2>1, <2>2 DEF DedupNear
<1> QED BY <1>4, <1>5, <1>6, <1>7

-----------------------------------------------------------------------------
\* The other passes leave the messages as they are, or put a marker in place of one.
LEMMA PassKeeps ==
  ASSUME IInv, ScanInv, phase # "host", UNCHANGED <<conversation, draft, store>>,
         phase' \in {"lifecycle", "route"}, at' <= Len(draft') + 1,
         vetoes' = vetoes \/ (vetoes < MaxVetoes /\ vetoes' = vetoes + 1),
         seen' = {}, sources' = <<>>
  PROVE  ScanInv'
<1>1. Bounded' /\ Warned'
  BY RestKept
<1>2. /\ ContentsOK(history)' /\ ContentsOK(sent)' /\ ContentsOK(draft)'
      /\ PointsBack(sent)' /\ PointsBack(draft)'
  BY ContentsKept DEF conversation
<1> QED BY <1>1, <1>2 DEF ScanInv

\* A replacement by a later pass.
LEMMA PassReplaces ==
  ASSUME IInv, ScanInv, phase \in {"lifecycle", "route"}, at \in 1..Len(draft),
         UNCHANGED <<conversation, phase, scan>>, at' = at + 1,
         NEW c, ContentOK(c), c.form # "dup", Stored(c)
  PROVE  ScanInv'
<1>1. Len(draft') = Len(draft) /\ vetoes' = vetoes
  BY OneReplaced DEF Stored
<1>2. Bounded' /\ Warned'
  BY <1>1, RestKept, Numbers
<1>3. /\ ContentsOK(history)' /\ ContentsOK(sent)' /\ ContentsOK(draft)'
      /\ PointsBack(sent)' /\ PointsBack(draft)'
  BY ContentsReplaced DEF conversation
<1> QED BY <1>2, <1>3 DEF ScanInv, scan

\* The read lifecycle and the router make no pointer of the dedup pass's.
LEMMA LaterPasses ==
  ASSUME IInv, ScanInv, DedupDone \/ LifecycleStep \/ LifecycleDone \/ RouteStep
  PROVE  ScanInv'
<1>1. 1 <= Len(draft) + 1
  BY Numbers
<1>2. CASE DedupDone
  BY <1>1, <1>2, PassKeeps DEF DedupDone, Keeps
<1>3. CASE LifecycleDone
  BY <1>1, <1>3, PassKeeps DEF LifecycleDone, Keeps, ScanInv, scan
<1>4. ASSUME phase \in {"lifecycle", "route"}, at <= Len(draft), Advances, UNCHANGED scan,
             Keeps \/ Vetoed
      PROVE  ScanInv'
  BY <1>4, PassKeeps, Numbers DEF Advances, Keeps, Vetoed, ScanInv, scan
<1>5. ASSUME phase \in {"lifecycle", "route"}, at <= Len(draft)
      PROVE  at \in 1..Len(draft) /\ ContentOK(Unit)
  <2>1. at \in 1..Len(draft)
    BY <1>5, Numbers DEF IInv
  <2> QED BY <2>1 DEF ScanInv, ContentsOK, Unit, Current
<1>6. CASE LifecycleStep
  <2>1. phase = "lifecycle" /\ at <= Len(draft) /\ Advances /\ UNCHANGED scan
    BY <1>6 DEF LifecycleStep
  <2>2. CASE /\ IsOvertaken(draft, Current, frozen)
             /\ Stored(Overtaken(ReadState(draft, Current, frozen), Unit))
    <3>1. PICK state : state = ReadState(draft, Current, frozen)
      OBVIOUS
    <3>2. state \in {"stale", "superseded"}
      BY <2>2, <3>1 DEF IsOvertaken, ReadState
    <3>3. PICK c : c = Overtaken(state, Unit)
      OBVIOUS
    <3>4. ContentOK(c) /\ c.form # "dup"
      BY <3>2, <3>3, FS_EmptySet DEF Overtaken, ContentOK
    <3>5. UNCHANGED <<conversation, phase, scan>> /\ at' = at + 1
      BY <2>1 DEF Advances
    <3> QED BY <1>5, <2>1, <2>2, <3>1, <3>3, <3>4, <3>5, PassReplaces
  <2>3. CASE Keeps \/ Vetoed
    BY <1>4, <2>1, <2>3
  <2> QED BY <1>6, <2>2, <2>3 DEF LifecycleStep
<1>7. CASE RouteStep
  <2>1. phase = "route" /\ at <= Len(draft) /\ Advances /\ UNCHANGED scan
    BY <1>7 DEF RouteStep
  <2>2. CASE Stored(Crushed(Unit))
    <3>1. PICK c : c = Crushed(Unit)
      OBVIOUS
    <3>2. c.form # "dup"
      BY <3>1 DEF Crushed
    <3>3. IsFiniteSet(c.rows)
      <4>1. IsFiniteSet(Unit.rows \cap KeptRows)
        BY <1>5, <2>1, FS_Subset DEF ContentOK
      <4>2. IsFiniteSet((Unit.rows \cap KeptRows) \cup {Note(Unit, 0)}) /\ IsFiniteSet({})
        BY <4>1, FS_AddElement, FS_EmptySet
      <4> QED BY <4>2, <3>1 DEF Crushed
    <3>4. UNCHANGED <<conversation, phase, scan>> /\ at' = at + 1
      BY <2>1 DEF Advances
    <3> QED BY <1>5, <2>1, <2>2, <3>1, <3>2, <3>3, <3>4, PassReplaces DEF ContentOK
  <2>3. CASE Keeps \/ Vetoed
    BY <1>4, <2>1, <2>3
  <2> QED BY <1>7, <2>2, <2>3 DEF RouteStep
<1> QED BY <1>2, <1>3, <1>6, <1>7

-----------------------------------------------------------------------------
\* A call keeps the messages it is made with and adds contents of the tools'.
LEMMA ExtendedKeeps ==
  ASSUME NEW msgs, Sequence(msgs), NEW exchange \in Exchanges,
         NEW whole, whole = Extended(msgs, exchange)
  PROVE  /\ Len(msgs) \in Nat /\ Len(whole) \in Nat /\ Len(whole) > Len(msgs)
         /\ \A i \in 1..Len(msgs) : whole[i] = msgs[i]
         /\ \A i \in 1..Len(whole) :
              i > Len(msgs) => \E o \in Originals : whole[i].content = Raw(o)
<1> DEFINE text == Message("text", 0, NoCall, FALSE, Prose)
           result(k) == Message(exchange[k].shape, Len(msgs) + 1, exchange[k].call,
                                exchange[k].failed, exchange[k].original)
           results == [k \in DOMAIN exchange |-> result(k)]
           R == {result(k) : k \in DOMAIN exchange}
<1>1. PICK S : msgs \in Seq(S)
  BY DEF Sequence
<1>2. PICK l \in Nat : DOMAIN exchange = 1..l
  BY ConversationAssumption
<1>3. results \in Seq(R) /\ Len(results) = l
  <2> HIDE DEF result
  <2>1. results \in [1..l -> R]
    BY <1>2
  <2> QED BY <2>1, <1>2
<1>4. text.content = Raw(Prose)
  BY DEF Message
<1>5. \A k \in 1..l : results[k].content = Raw(exchange[k].original)
  BY <1>2 DEF Message
<1>6. whole = Append(msgs, text) \o results
  BY DEF Extended
<1> DEFINE all == S \cup {text} \cup R
<1> HIDE DEF text, results, R, result
<1>7. msgs \in Seq(all) /\ results \in Seq(all) /\ text \in all
  BY <1>1, <1>3
<1> HIDE DEF all
<1>8. PICK n \in Nat : n = Len(msgs)
  BY <1>7
<1>9. /\ Len(whole) = n + 1 + l
      /\ \A i \in 1..n : whole[i] = msgs[i]
      /\ whole[n + 1] = text
      /\ \A k \in 1..l : whole[n + 1 + k] = results[k]
  BY <1>2, <1>3, <1>6, <1>7, <1>8
<1>10. ASSUME NEW i \in 1..Len(whole), i > n
       PROVE  \E o \in Originals : whole[i].content = Raw(o)
  <2>1. CASE i = n + 1
    BY <2>1, <1>4, <1>9, ConversationAssumption
  <2>2. CASE i # n + 1
    <3>1. i - (n + 1) \in 1..l /\ i = n + 1 + (i - (n + 1))
      BY <2>2, <1>2, <1>9, <1>10
    <3>2. whole[i].content = Raw(exchange[i - (n + 1)].original)
      BY <3>1, <1>5, <1>9
    <3>3. exchange[i - (n + 1)].original \in Originals
      <4>1. Len(exchange) \in Nat /\ DOMAIN exchange = 1..Len(exchange)
        BY ConversationAssumption
      <4>2. i - (n + 1) \in 1..Len(exchange)
        BY <3>1, <4>1, <1>2
      <4> QED BY <4>2, ConversationAssumption
    <3> QED BY <3>2, <3>3
  <2> QED BY <2>1, <2>2
<1> QED BY <1>2, <1>8, <1>9, <1>10

\* What a tool returned owes nothing.
LEMMA FreshContents ==
  ASSUME NEW o \in Originals
  PROVE  ContentOK(Raw(o))
BY ConversationAssumption DEF ContentOK, Raw

\* The warning of a call is complete: a pointer sent in the last turn, over an output
\* that is back, has its content in the store and the one it names before it.
LEMMA ScanCall ==
  ASSUME IInv, ScanInv, NEW exchange \in Exchanges,
         NEW base, base = history \/ base = sent, Call(exchange, base)
  PROVE  ScanInv'
<1>1. /\ phase = "host" /\ turns < MaxTurns /\ turns' = turns + 1
      /\ history' = Extended(base, exchange) /\ draft' = history'
      /\ phase' = "dedup" /\ at' = 1 /\ seen' = {} /\ sources' = <<>>
      /\ sent' = sent /\ entry' = entry /\ analysis' = analysis
      /\ store' = store /\ vetoes' = vetoes
      /\ frozen' \in Breakpoints(history')
      /\ warned' = IF entry = "compress" THEN Suspects(history', frozen') ELSE {}
  BY DEF Call
<1>2. PICK h : h = history'
  OBVIOUS
<1>3. Sequence(base) /\ ContentsOK(base) /\ ContentsOK(sent) /\ ContentsOK(history)
  BY DEF IInv, MessagesSound, AllSound, ScanInv
<1>4. /\ Len(base) \in Nat /\ Len(h) \in Nat /\ Len(h) > Len(base)
      /\ \A i \in 1..Len(base) : h[i] = base[i]
      /\ \A i \in 1..Len(h) :
           i > Len(base) => \E o \in Originals : h[i].content = Raw(o)
  BY <1>1, <1>2, <1>3, ExtendedKeeps
<1>5. ContentsOK(h)
  <2> SUFFICES ASSUME NEW i \in 1..Len(h) PROVE ContentOK(h[i].content)
    BY DEF ContentsOK
  <2>1. CASE i > Len(base)
    BY <2>1, <1>4, FreshContents
  <2>2. CASE ~(i > Len(base))
    <3>1. i \in 1..Len(base)
      BY <2>2, <1>4
    <3> QED BY <3>1, <1>3, <1>4 DEF ContentsOK
  <2> QED BY <2>1, <2>2
<1>6. ContentsOK(history)' /\ ContentsOK(draft)' /\ ContentsOK(sent)'
  BY <1>1, <1>2, <1>3, <1>5 DEF ContentsOK
<1>7. Len(sent) \in Nat /\ Len(sent) <= Len(base) /\ Len(sent) < Len(h)
  BY <1>4, Numbers DEF ScanInv, Bounded
<1>8. ASSUME NEW i \in 1..Len(sent), NEW c, c = sent[i].content,
             c.form = "dup", c.of = h[i].content
      PROVE  c.of \in store /\ c.at \in 1..(i - 1) /\ h[c.at].content = c.of
  <2>1. i \in 1..Len(base) /\ h[i] = base[i]
    BY <1>4, <1>7
  <2>2. CASE base = sent
    <3>1. c.of = c /\ ContentOK(c)
      BY <2>1, <2>2, <1>3, <1>8 DEF ContentsOK
    <3> QED BY <3>1, <1>8, NoSelfPointer
  <2>3. CASE base = history
    <3>1. c.of \in store /\ c.at \in 1..(i - 1) /\ history[c.at].content = c.of
      BY <2>1, <2>3, <1>8 DEF ScanInv, PointsBack
    <3>2. c.at \in 1..Len(base)
      BY <2>1, <3>1, <1>4
    <3> QED BY <2>3, <3>1, <3>2, <1>4
  <2> QED BY <2>2, <2>3
<1>9. PointsBack(sent)'
  <2>1. \A i \in 1..Len(sent) :
          LET c == sent[i].content
          IN  c.form = "dup" /\ c.of = h[i].content =>
                c.of \in store /\ c.at \in 1..(i - 1) /\ h[c.at].content = c.of
    BY <1>8
  <2> QED BY <2>1, <1>1, <1>2 DEF PointsBack
<1>10. PointsBack(draft)'
  <2>1. \A i \in 1..Len(h) : h[i].content.form = "dup" => h[i].content.of # h[i].content
    BY <1>5, NoSelfPointer DEF ContentsOK
  <2> QED BY <2>1, <1>1, <1>2 DEF PointsBack
<1>11. frozen' \in 0..Len(h)
  <2>1. PICK S : h \in Seq(S)
    <3>1. AllSound(base, entry, store)
      BY DEF IInv, MessagesSound
    <3> QED BY <3>1, <1>1, <1>2, ExtendedIsSound DEF AllSound, Sequence
  <2> QED BY <2>1, <1>1, <1>2 DEF Breakpoints
<1>12. Bounded'
  <2>1. warned' \subseteq 1..frozen'
    BY <1>1 DEF Suspects
  <2>2. turns' \in 0..MaxTurns
    BY <1>1, ConversationAssumption DEF ScanInv, Bounded
  <2>3. Len(sent') <= Len(history') /\ at' <= Len(draft') + 1
    BY <1>1, <1>2, <1>4, <1>7
  <2> QED BY <2>1, <2>2, <2>3, <1>1 DEF ScanInv, Bounded
<1>13. Warned'
  <2> SUFFICES ASSUME entry = "compress", NEW i \in 1..frozen' \cap DOMAIN sent,
                      NEW c, c = sent[i].content,
                      c.form = "dup", c.of = h[i].content, Flat(h[i]), Flat(h[c.at])
               PROVE  i \in Suspects(h, frozen')
    BY <1>1, <1>2 DEF Warned
  <2>1. i \in 1..Len(sent)
    BY Numbers
  <2>2. c.of \in store /\ c.at \in 1..(i - 1) /\ h[c.at].content = c.of
    BY <2>1, <1>8
  <2>3. Long(h[i].content)
    BY <2>1, <1>3 DEF ContentsOK, ContentOK
  <2>4. i \in 1..frozen'
    OBVIOUS
  <2>5. \E j \in 1..(i - 1) : Flat(h[j]) /\ h[j].content = h[i].content
    BY <2>2
  <2> QED BY <2>2, <2>3, <2>4, <2>5 DEF Suspects
<1>14. Scanning'
  <2>1. SeenOK'
    BY <1>1 DEF SeenOK
  <2>2. SourcesOK'
    <3>1. Len(<<>>) = 0 /\ <<>> \in Seq({}) /\ MaxSources \in Nat
      BY ConversationAssumption
    <3> QED BY <3>1, <1>1 DEF SourcesOK, Sequence
  <2>3. Pointing'
    BY <1>1 DEF Pointing
  <2> QED BY <2>1, <2>2, <2>3, <1>1 DEF Scanning
<1> QED BY <1>1, <1>6, <1>9, <1>10, <1>12, <1>13, <1>14 DEF ScanInv

\* What ends is no longer scanned, and what was sent points back.
LEMMA ScanEnds ==
  ASSUME IInv, ScanInv, NEW result, result = draft \/ result = history, Ends(result),
         vetoes' = vetoes \/ (vetoes < MaxVetoes /\ vetoes' = vetoes + 1)
  PROVE  ScanInv'
<1>1. /\ phase' = "host" /\ at' = 0 /\ sent' = result
      /\ seen' = {} /\ sources' = <<>> /\ draft' = history /\ frozen' = 0 /\ warned' = {}
      /\ history' = history /\ entry' = entry /\ analysis' = analysis
      /\ turns' = turns /\ store' = store
  BY DEF Ends
<1>2. PointsBack(history)
  BY OwnPointsBack DEF ScanInv
<1>3. PointsBack(sent)' /\ PointsBack(draft)'
  <2>1. PointsBack(result)
    BY <1>2 DEF ScanInv
  <2> QED BY <1>1, <1>2, <2>1 DEF PointsBack
<1>4. ContentsOK(history)' /\ ContentsOK(draft)' /\ ContentsOK(sent)'
  BY <1>1 DEF ScanInv, ContentsOK
<1>5. Bounded'
  BY <1>1, Numbers, ConversationAssumption DEF ScanInv, Bounded
<1>6. Warned'
  BY <1>1 DEF Warned
<1> QED BY <1>1, <1>3, <1>4, <1>5, <1>6 DEF ScanInv

\* No pointer has been sent yet.
LEMMA ScanInit == Init => ScanInv
<1> SUFFICES ASSUME Init PROVE ScanInv
  OBVIOUS
<1>1. PICK text : text = Message("text", 0, NoCall, FALSE, Prose)
  OBVIOUS
<1>2. /\ history = <<text>> /\ sent = <<text>> /\ draft = <<text>>
      /\ phase = "host" /\ at = 0 /\ frozen = 0
      /\ entry \in {"compress", "pipeline"} /\ analysis \in BOOLEAN
      /\ seen = {} /\ sources = <<>> /\ warned = {} /\ turns = 0 /\ vetoes = 0
  BY <1>1 DEF Init
<1>3. Len(<<text>>) = 1 /\ <<text>>[1] = text
  OBVIOUS
<1>4. ContentOK(text.content) /\ text.content.form = "raw"
  BY <1>1, FreshContents, ConversationAssumption DEF Message, Raw
<1>5. ContentsOK(<<text>>)
  <2>1. \A i \in 1..Len(<<text>>) : <<text>>[i] = text
    BY <1>3
  <2> QED BY <2>1, <1>4 DEF ContentsOK
<1>6. PointsBack(<<text>>)
  <2>1. \A i \in 1..Len(<<text>>) : <<text>>[i] = text
    BY <1>3
  <2> QED BY <2>1, <1>4 DEF PointsBack
<1>7. Bounded
  BY <1>2, <1>3, ConversationAssumption DEF Bounded
<1> QED BY <1>2, <1>5, <1>6, <1>7 DEF ScanInv, Warned

\* ScanInv holds from step to step, with IInv beside it.
LEMMA ScanNext == IInv /\ ScanInv /\ [Next]_vars => ScanInv'
<1> SUFFICES ASSUME IInv, ScanInv, [Next]_vars PROVE ScanInv'
  OBVIOUS
<1>1. ASSUME NEW exchange \in Exchanges, Call(exchange, history) \/ Call(exchange, sent)
      PROVE  ScanInv'
  BY <1>1, ScanCall
<1>2. CASE DedupSkip \/ DedupExact \/ DedupNear \/ DedupRegister
  BY <1>2, ScanStep
<1>3. CASE DedupDone \/ LifecycleStep \/ LifecycleDone \/ RouteStep
  BY <1>3, LaterPasses
<1>4. CASE Return
  BY <1>4, ScanEnds DEF Return
<1>5. CASE FailOpen
  BY <1>5, ScanEnds DEF FailOpen
<1>6. CASE UNCHANGED vars
  BY <1>6 DEF vars, conversation, scan, ScanInv, Bounded, Warned, ContentsOK, PointsBack,
              Scanning, SeenOK, SourcesOK, Pointing, Kept
<1> QED BY <1>1, <1>2, <1>3, <1>4, <1>5, <1>6 DEF Next, Pass

\* Both invariants together are inductive.
LEMMA ScanInvariant == Spec => [](IInv /\ ScanInv)
BY ConversationInvariant, ScanInit, ScanNext, PTL DEF Spec

\* A pointer of the dedup pass names an earlier message that has what the pointer
\* stands for and that the pass leaves verbatim.
THEOREM ScanIsSound == Spec => []ScanSound
<1>1. IInv /\ ScanInv => ScanSound
  <2> SUFFICES ASSUME IInv, ScanInv PROVE ScanSound
    OBVIOUS
  <2>1. TypeOK
    <3>1. DOMAIN draft = DOMAIN history /\ DOMAIN sent \subseteq DOMAIN history
      <4>1. PICK l, n : l = Len(sent) /\ n = Len(history)
        OBVIOUS
      <4>2. l \in Nat /\ n \in Nat /\ l <= n
        BY <4>1, Numbers DEF ScanInv, Bounded
      <4>3. 1..l \subseteq 1..n
        BY <4>2
      <4> QED BY <4>1, <4>3, Numbers
    <3>2. at \in 0..(Len(draft) + 1) /\ frozen \in 0..Len(history)
      BY Numbers DEF ScanInv, Bounded, IInv
    <3>3. /\ \A first, other \in seen : first.content = other.content => first = other
          /\ \A first \in seen : first.at \in 1..(at - 1)
          /\ Len(sources) <= MaxSources
          /\ \A k \in DOMAIN sources : sources[k].at \in 1..(at - 1)
      <4>1. CASE phase = "dedup"
        <5>1. DOMAIN sources = 1..Len(sources)
          BY <4>1, LenProperties DEF ScanInv, Scanning, SourcesOK, Sequence
        <5> QED BY <4>1, <5>1 DEF ScanInv, Scanning, SourcesOK, SeenOK, Kept
      <4>2. CASE phase # "dedup"
        <5>1. Len(<<>>) = 0 /\ DOMAIN <<>> = {} /\ MaxSources \in Nat
          BY ConversationAssumption
        <5> QED BY <4>2, <5>1 DEF ScanInv
      <4> QED BY <4>1, <4>2
    <3> QED BY <3>1, <3>2, <3>3 DEF ScanInv, Bounded, TypeOK
  <2>2. PointersVerbatim
    <3> SUFFICES ASSUME phase = "dedup", NEW i \in 1..(at - 1), NEW c, c = draft[i].content,
                        c # history[i].content
                 PROVE  /\ c.at < i /\ draft[c.at] = history[c.at]
                        /\ IF c.form = "dup" THEN c.of = draft[c.at].content
                           ELSE c.of.rows \ c.rows \subseteq draft[c.at].content.rows
      BY DEF PointersVerbatim
    <3>1. /\ c.at \in 1..(i - 1) /\ draft[c.at] = history[c.at]
          /\ IF c.form = "dup" THEN c.of = draft[c.at].content
             ELSE c.of.rows \ c.rows \subseteq draft[c.at].content.rows
      BY DEF ScanInv, Scanning, Pointing
    <3> QED BY <3>1, Numbers
  <2> QED BY <2>1, <2>2 DEF ScanSound
<1> QED BY <1>1, ScanInvariant, PTL

\* A host that sends what it first wrote, after its breakpoint has moved past a
\* message that went out as a duplicate, is warned of that message.
THEOREM MovedBreakpointsAreReported == Spec => []WarnsOfMovedBreakpoint
<1>1. ScanInv => WarnsOfMovedBreakpoint
  BY DEF ScanInv, Warned, WarnsOfMovedBreakpoint
<1> QED BY <1>1, ScanInvariant, PTL

-----------------------------------------------------------------------------
\* Why a read is called what it is, message by message: an edit of its file, or a
\* read that covers it, that a later assistant message called for.
After(msgs, i, j) ==
  /\ ToolOutput(msgs[j])
  /\ msgs[j].call.path = msgs[i].call.path /\ msgs[j].turn > msgs[i].turn

EditedBy(msgs, i, j) == CompressStale /\ After(msgs, i, j) /\ msgs[j].call.tool = "edit"
CoveredBy(msgs, i, j) ==
  After(msgs, i, j) /\ IsRead(msgs[j]) /\ Covers(msgs[j].call, msgs[i].call)

Why(msgs) ==
  \A i \in 1..Len(msgs) :
    /\ msgs[i].content.form = "stale" => \E j \in 1..Len(msgs) : EditedBy(msgs, i, j)
    /\ msgs[i].content.form = "superseded" => \E j \in 1..Len(msgs) : CoveredBy(msgs, i, j)

\* An edit goes before a covering read.
NoneEdited ==
  \A i \in 1..Len(draft) :
    draft[i].content.form = "superseded" /\ history[i].content.form # "superseded" =>
      \A j \in 1..Len(draft) : ~EditedBy(draft, i, j)

WhyInv == Why(history) /\ Why(sent) /\ Why(draft) /\ NoneEdited

\* The calls of the messages of one list are those of the other's first ones.
Framed(msgs, more) ==
  /\ Len(msgs) \in Nat /\ Len(more) \in Nat /\ Len(msgs) <= Len(more)
  /\ \A j \in 1..Len(msgs) :
       msgs[j].shape = more[j].shape /\ msgs[j].turn = more[j].turn /\ msgs[j].call = more[j].call

\* Which calls come after which is a matter of the calls alone.
LEMMA FrameTells ==
  ASSUME NEW msgs, NEW more, Framed(msgs, more),
         NEW i \in 1..Len(msgs), NEW j \in 1..Len(msgs)
  PROVE  /\ j \in 1..Len(more)
         /\ EditedBy(msgs, i, j) <=> EditedBy(more, i, j)
         /\ CoveredBy(msgs, i, j) <=> CoveredBy(more, i, j)
BY DEF Framed, EditedBy, CoveredBy, After, ToolOutput, IsRead

\* The classification of the pass, message by message.
LEMMA LaterTells ==
  ASSUME NEW msgs, DOMAIN msgs = 1..Len(msgs), NEW i \in 1..Len(msgs)
  PROVE  /\ Stale(msgs, msgs[i]) <=> \E j \in 1..Len(msgs) : EditedBy(msgs, i, j)
         /\ Superseded(msgs, msgs[i]) => \E j \in 1..Len(msgs) : CoveredBy(msgs, i, j)
         /\ \A j \in 1..Len(msgs) : After(msgs, i, j) => msgs[j] \in Later(msgs, msgs[i])
<1>1. \A x : x \in Later(msgs, msgs[i]) <=>
               \E j \in 1..Len(msgs) : After(msgs, i, j) /\ x = msgs[j]
  BY DEF Later, After
<1>2. Stale(msgs, msgs[i]) <=> \E j \in 1..Len(msgs) : EditedBy(msgs, i, j)
  BY <1>1 DEF Stale, EditedBy
<1>3. Superseded(msgs, msgs[i]) => \E j \in 1..Len(msgs) : CoveredBy(msgs, i, j)
  BY <1>1 DEF Superseded, CoveredBy
<1> QED BY <1>1, <1>2, <1>3

\* Messages that stay as they are keep their reasons.
LEMMA WhyKept ==
  ASSUME WhyInv, UNCHANGED <<history, sent, draft>>
  PROVE  WhyInv'
BY DEF WhyInv, Why, NoneEdited, EditedBy, CoveredBy, After, ToolOutput, IsRead

\* What takes a content's place says truly why.
LEMMA WhyReplaced ==
  ASSUME IInv, WhyInv, at \in 1..Len(draft), UNCHANGED <<history, sent>>,
         NEW c, Stored(c),
         c.form = "stale" => Stale(draft, Current),
         c.form = "superseded" => Superseded(draft, Current) /\ ~Stale(draft, Current)
  PROVE  WhyInv'
<1>1. PICK d : d = draft'
  OBVIOUS
<1>2. /\ Len(d) = Len(draft) /\ d[at].content = c
      /\ d[at].shape = draft[at].shape /\ d[at].turn = draft[at].turn
      /\ d[at].call = draft[at].call
      /\ \A j \in 1..Len(draft) : j # at => d[j] = draft[j]
  BY <1>1, OneReplaced DEF Current
<1>3. Framed(draft, d) /\ Len(draft) \in Nat /\ DOMAIN draft = 1..Len(draft)
  BY <1>2, Numbers DEF Framed
<1>4. \A i, j \in 1..Len(draft) :
        (EditedBy(draft, i, j) <=> EditedBy(d, i, j)) /\ (CoveredBy(draft, i, j) <=> CoveredBy(d, i, j))
  BY <1>3, FrameTells
<1>5. /\ Stale(draft, Current) <=> \E j \in 1..Len(draft) : EditedBy(draft, at, j)
      /\ Superseded(draft, Current) => \E j \in 1..Len(draft) : CoveredBy(draft, at, j)
  BY <1>3, LaterTells DEF Current
<1>6. Why(d)
  <2> SUFFICES ASSUME NEW i \in 1..Len(draft)
               PROVE  /\ d[i].content.form = "stale" => \E j \in 1..Len(draft) : EditedBy(d, i, j)
                      /\ d[i].content.form = "superseded" => \E j \in 1..Len(draft) : CoveredBy(d, i, j)
    BY <1>2 DEF Why
  <2>1. CASE i = at
    BY <2>1, <1>2, <1>4, <1>5
  <2>2. CASE i # at
    BY <2>2, <1>2, <1>4 DEF WhyInv, Why
  <2> QED BY <2>1, <2>2
<1>7. \A i \in 1..Len(d) :
        d[i].content.form = "superseded" /\ history[i].content.form # "superseded" =>
          \A j \in 1..Len(d) : ~EditedBy(d, i, j)
  <2> SUFFICES ASSUME NEW i \in 1..Len(draft),
                      d[i].content.form = "superseded", history[i].content.form # "superseded"
               PROVE  \A j \in 1..Len(draft) : ~EditedBy(draft, i, j)
    BY <1>2, <1>4
  <2>1. CASE i = at
    BY <2>1, <1>2, <1>5
  <2>2. CASE i # at
    BY <2>2, <1>2 DEF WhyInv, NoneEdited
  <2> QED BY <2>1, <2>2
<1>8. Why(history') /\ Why(sent')
  BY DEF WhyInv
<1> QED BY <1>1, <1>6, <1>7, <1>8 DEF WhyInv, NoneEdited

\* Reasons survive the next turn: it only adds messages.
LEMMA WhyCall ==
  ASSUME IInv, WhyInv, NEW exchange \in Exchanges,
         NEW base, base = history \/ base = sent, Call(exchange, base)
  PROVE  WhyInv'
<1>1. history' = Extended(base, exchange) /\ draft' = history' /\ sent' = sent
  BY DEF Call
<1>2. PICK h : h = history'
  OBVIOUS
<1>3. /\ Len(base) \in Nat /\ Len(h) \in Nat /\ Len(h) > Len(base)
      /\ \A i \in 1..Len(base) : h[i] = base[i]
      /\ \A i \in 1..Len(h) :
           i > Len(base) => \E o \in Originals : h[i].content = Raw(o)
  <2>1. Sequence(base)
    BY DEF IInv, MessagesSound, AllSound
  <2> QED BY <2>1, <1>1, <1>2, ExtendedKeeps
<1>4. Framed(base, h)
  BY <1>3 DEF Framed
<1>5. Why(h)
  <2> SUFFICES ASSUME NEW i \in 1..Len(h)
               PROVE  /\ h[i].content.form = "stale" => \E j \in 1..Len(h) : EditedBy(h, i, j)
                      /\ h[i].content.form = "superseded" => \E j \in 1..Len(h) : CoveredBy(h, i, j)
    BY DEF Why
  <2>1. CASE i > Len(base)
    <3>1. PICK o \in Originals : h[i].content = Raw(o)
      BY <2>1, <1>3
    <3> QED BY <3>1 DEF Raw
  <2>2. CASE ~(i > Len(base))
    <3>1. i \in 1..Len(base) /\ h[i] = base[i] /\ Why(base)
      BY <2>2, <1>3 DEF WhyInv
    <3> QED BY <3>1, <1>4, FrameTells DEF Why
  <2> QED BY <2>1, <2>2
<1> QED BY <1>1, <1>2, <1>5 DEF WhyInv, NoneEdited

\* Every action leaves each overtaken read its reason.
LEMMA WhyNext == IInv /\ ScanInv /\ WhyInv /\ [Next]_vars => WhyInv'
<1> SUFFICES ASSUME IInv, ScanInv, WhyInv, [Next]_vars PROVE WhyInv'
  OBVIOUS
<1>1. ASSUME NEW exchange \in Exchanges, Call(exchange, history) \/ Call(exchange, sent)
      PROVE  WhyInv'
  BY <1>1, WhyCall
<1>2. ASSUME Advances, UNCHANGED draft PROVE WhyInv'
  BY <1>2, WhyKept DEF Advances, conversation
<1>3. ASSUME at <= Len(draft), phase # "host" PROVE at \in 1..Len(draft)
  BY <1>3, Numbers DEF IInv
<1>4. ASSUME Advances, at \in 1..Len(draft), NEW c, Stored(c), c.form \in {"dup", "near", "crushed"}
      PROVE  WhyInv'
  BY <1>4, WhyReplaced DEF Advances, conversation
<1>5. CASE DedupSkip \/ DedupRegister
  BY <1>2, <1>5 DEF DedupSkip, DedupRegister, Keeps
<1>6. CASE DedupExact
  <2>1. PICK c : c = Duplicate(Unit, FirstOf(Unit).at)
    OBVIOUS
  <2>2. Advances /\ at \in 1..Len(draft) /\ c.form = "dup"
    BY <2>1, <1>3, <1>6 DEF DedupExact, Deduping, Duplicate
  <2>3. Stored(c) \/ UNCHANGED draft
    BY <2>1, <1>6 DEF DedupExact, Vetoed, Keeps
  <2> QED BY <1>2, <1>4, <2>2, <2>3
<1>7. CASE DedupNear
  <2>1. PICK c : c = NearDuplicate(Unit, Best.at, Unit.rows \ Best.rows)
    OBVIOUS
  <2>2. Advances /\ at \in 1..Len(draft) /\ c.form = "near"
    BY <2>1, <1>3, <1>7 DEF DedupNear, Deduping, NearDuplicate
  <2>3. Stored(c) \/ UNCHANGED draft
    BY <2>1, <1>7 DEF DedupNear, Vetoed
  <2> QED BY <1>2, <1>4, <2>2, <2>3
<1>8. CASE RouteStep
  <2>1. PICK c : c = Crushed(Unit)
    OBVIOUS
  <2>2. Advances /\ at \in 1..Len(draft) /\ c.form = "crushed"
    BY <2>1, <1>3, <1>8 DEF RouteStep, Crushed
  <2>3. Stored(c) \/ UNCHANGED draft
    BY <2>1, <1>8 DEF RouteStep, Vetoed, Keeps
  <2> QED BY <1>2, <1>4, <2>2, <2>3
<1>9. CASE LifecycleStep
  <2>1. PICK state : state = ReadState(draft, Current, frozen)
    OBVIOUS
  <2>2. PICK c : c = Overtaken(state, Unit)
    OBVIOUS
  <2>3. Advances /\ at \in 1..Len(draft) /\ c.form = state
    BY <2>2, <1>3, <1>9 DEF LifecycleStep, Overtaken
  <2>4. UNCHANGED draft \/ (state # "fresh" /\ Stored(c))
    BY <2>1, <2>2, <1>9 DEF LifecycleStep, Vetoed, Keeps, IsOvertaken
  <2>5. /\ state = "stale" => Stale(draft, Current)
        /\ state = "superseded" => Superseded(draft, Current) /\ ~Stale(draft, Current)
    BY <2>1 DEF ReadState
  <2>6. CASE Stored(c)
    BY <2>3, <2>5, <2>6, WhyReplaced DEF Advances, conversation
  <2> QED BY <1>2, <2>3, <2>4, <2>6
<1>10. CASE DedupDone \/ LifecycleDone
  BY <1>10, WhyKept DEF DedupDone, LifecycleDone, Keeps, conversation
<1>11. CASE Return \/ FailOpen
  <2>1. history' = history /\ draft' = history /\ (sent' = draft \/ sent' = history)
    BY <1>11 DEF Return, FailOpen, Ends
  <2>2. Why(history') /\ Why(sent') /\ Why(draft')
    BY <2>1 DEF WhyInv
  <2>3. NoneEdited'
    BY <2>1 DEF NoneEdited
  <2> QED BY <2>2, <2>3 DEF WhyInv
<1>12. CASE UNCHANGED vars
  BY <1>12, WhyKept DEF vars, conversation
<1> QED BY <1>1, <1>5, <1>6, <1>7, <1>8, <1>9, <1>10, <1>11, <1>12 DEF Next, Pass

\* No read is overtaken at the start.
LEMMA WhyInit == Init => WhyInv
<1> SUFFICES ASSUME Init PROVE WhyInv
  OBVIOUS
<1>1. PICK text : text = Message("text", 0, NoCall, FALSE, Prose)
  OBVIOUS
<1>2. history = <<text>> /\ sent = <<text>> /\ draft = <<text>> /\ text.content.form = "raw"
  BY <1>1 DEF Init, Message, Raw
<1>3. Why(<<text>>)
  <2>1. \A i \in 1..Len(<<text>>) : <<text>>[i] = text
    OBVIOUS
  <2> QED BY <2>1, <1>2 DEF Why
<1>4. NoneEdited
  BY <1>2 DEF NoneEdited
<1> QED BY <1>2, <1>3, <1>4 DEF WhyInv

\* Covering is transitive.
LEMMA CoversAgain ==
  ASSUME NEW a, NEW b, NEW c, Covers(a, b), Covers(b, c)
  PROVE  Covers(a, c)
BY DEF Covers

\* The read that covers a superseded one is, if the latest one is taken, in full
\* itself: were it edited over, so were the one it covers, and were it covered,
\* that one would be later.
THEOREM SurvivorsCover == Spec => []SupersededBySurvivor
<1>1. IInv /\ WhyInv => SupersededBySurvivor
  <2> SUFFICES ASSUME IInv, WhyInv, NEW i \in 1..Len(draft),
                      draft[i].content.form = "superseded", history[i].content.form # "superseded"
               PROVE  \E r \in Later(draft, draft[i]) :
                        /\ IsRead(r) /\ Covers(r.call, draft[i].call)
                        /\ r.content.form \notin {"stale", "superseded"}
    BY Numbers DEF SupersededBySurvivor
  <2>1. PICK n \in Nat : n = Len(draft) /\ DOMAIN draft = 1..n
    BY Numbers
  <2>2. \A j \in 1..n : draft[j].turn \in Nat /\ draft[j].turn < n
    BY <2>1 DEF IInv, MessagesSound, AllSound, Sound
  <2> DEFINE K == {j \in 1..n : CoveredBy(draft, i, j)}
             D == {n - draft[j].turn : j \in K}
  <2>3. D \in SUBSET Nat /\ D # {}
    <3>1. \A j \in 1..n : n - draft[j].turn \in Nat
      BY <2>2
    <3>2. PICK j \in 1..n : CoveredBy(draft, i, j)
      BY <2>1 DEF WhyInv, Why
    <3> QED BY <3>1, <3>2
  <2>4. PICK d \in D : \A e \in D : d <= e
    <3> HIDE DEF D
    <3> QED BY <2>3, LeastNatural
  <2>5. PICK j \in 1..n : CoveredBy(draft, i, j) /\ d = n - draft[j].turn
    BY <2>4
  <2>6. \A k \in 1..n : CoveredBy(draft, i, k) => draft[k].turn <= draft[j].turn
    <3> TAKE k \in 1..n
    <3>1. CoveredBy(draft, i, k) => d <= n - draft[k].turn
      BY <2>4
    <3> QED BY <3>1, <2>2, <2>5
  <2>7. \A k \in 1..n : After(draft, j, k) => After(draft, i, k)
    <3> TAKE k \in 1..n
    <3>1. draft[k].turn \in Nat /\ draft[j].turn \in Nat /\ draft[i].turn \in Nat
      BY <2>1, <2>2
    <3> QED BY <3>1, <2>5 DEF After, CoveredBy
  <2>8. draft[j].content.form # "stale"
    <3> SUFFICES ASSUME draft[j].content.form = "stale" PROVE FALSE
      OBVIOUS
    <3>1. PICK k \in 1..n : EditedBy(draft, j, k)
      BY <2>1 DEF WhyInv, Why
    <3>2. EditedBy(draft, i, k)
      BY <3>1, <2>7 DEF EditedBy
    <3> QED BY <3>2, <2>1 DEF WhyInv, NoneEdited
  <2>9. draft[j].content.form # "superseded"
    <3> SUFFICES ASSUME draft[j].content.form = "superseded" PROVE FALSE
      OBVIOUS
    <3>1. PICK k \in 1..n : CoveredBy(draft, j, k)
      BY <2>1 DEF WhyInv, Why
    <3>2. CoveredBy(draft, i, k)
      <4>1. Covers(draft[k].call, draft[j].call) /\ Covers(draft[j].call, draft[i].call)
        BY <3>1, <2>5 DEF CoveredBy
      <4>2. Covers(draft[k].call, draft[i].call)
        BY <4>1, CoversAgain
      <4> QED BY <3>1, <4>2, <2>7 DEF CoveredBy
    <3>3. draft[k].turn > draft[j].turn /\ draft[k].turn <= draft[j].turn
      BY <3>1, <3>2, <2>6 DEF CoveredBy, After
    <3> QED BY <3>3, <2>2
  <2>10. draft[j] \in Later(draft, draft[i])
    BY <2>1, <2>5, LaterTells DEF CoveredBy
  <2> QED BY <2>5, <2>8, <2>9, <2>10 DEF CoveredBy
<1> QED BY <1>1, ScanInvariant, WhyInit, WhyNext, PTL DEF Spec
=============================================================================
