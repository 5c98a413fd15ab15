---------------------------- MODULE PluginProofs ----------------------------
(***************************************************************************)
(* What the tools of the server tell their callers, for any workers,        *)
(* contents, nesting, requests and number of calls, and with faults at any   *)
(* step: a content advertised as stored is in the file or was taken out of   *)
(* it, a purge reported as done has seen its hash absent, no saving is       *)
(* invented, and the statistics of the window survive every rewrite that is  *)
(* not cut in two.                                                          *)
(*                                                                         *)
(* A call owes its promises to what its earlier steps have seen, so the      *)
(* invariant is about the calls in progress: Owes.  It holds of each from    *)
(* the moment the step is made, because what has been in the file is in it   *)
(* or has gone for good, the total only grows, and a degraded backend stays  *)
(* so until the process ends, which ends its calls too.                      *)
(*                                                                         *)
(* Two parts follow.  The plugin's hooks are processes of their own: what the *)
(* model is shown of each command.  The slices of a retrieval are one pass    *)
(* over a text: what a view leaves out, and what it says of that.             *)
(***************************************************************************)
EXTENDS McpServer, HookPipe, Integers, SequenceTheorems, FiniteSetTheorems, TLAPS

Calls == {Idle} \cup CompressCall \cup ReadCall \cup RetrieveCall \cup PurgeCall
           \cup PurgeAllCall \cup StatsCall

PlainAnswer == [answer : {"none", "error", "compressed", "raised", "retrieved", "available",
                          "miss", "unchanged", "content", "stats"}]
PurgeReply == [answer : {"purged", "not purged"}, of : SUBSET Contents, stuck : SUBSET Contents]

\* What a call in progress may rely on: `written' is what has been in the file,
\* `made' what the session has really saved.
Owes(c, written, made, blind) ==
  /\ c \in Calls
  /\ c.op = "compress" =>
       /\ c.durably \subseteq written /\ c.total <= made
       /\ c.step # "answer" => c.runs # <<>>
  /\ c.op = "read" =>
       /\ c.step # "open" => c.read \in Contents
       /\ c.step = "seed" => c.read \in written
  /\ c.op = "purge" /\ c.step = "verify" /\ ~blind /\ c.hash \in c.stuck =>
       c.hash \in c.expected \/ c.survivors # {}

Tells(a, blind) ==
  /\ a \in PlainAnswer \cup PurgeReply
  /\ a.answer = "purged" /\ ~blind => a.stuck \cap a.of = {}

CallsOwe ==
  /\ call \in [Workers -> Calls]
  /\ \A w \in Workers : Owes(call[w], durable \cup gone, real, degraded)

AnswersTell ==
  /\ answers \in [Workers -> PlainAnswer \cup PurgeReply]
  /\ \A w \in Workers : Tells(answers[w], degraded)

StoreTypes ==
  /\ durable \subseteq Contents /\ volatile \subseteq Contents /\ gone \subseteq Contents
  /\ degraded \in BOOLEAN
  /\ disk \in Contents /\ cached \in Contents \cup {NIL}

SessionTypes == saved \in Nat /\ real \in Nat /\ saved <= real

\* No young event is outside the file while nobody rewrites it, and none is outside
\* the hands of whoever does.
StatsInv ==
  /\ next \in Nat /\ next > 0 /\ horizon \in Nat
  /\ flock = NIL => kept = {}
  /\ \A e \in 1..(next - 1) : e > horizon =>
       /\ e \in file \cup kept \cup torn
       /\ flock # NIL => e \in kept \cup torn

IInv ==
  /\ StatsInv /\ StoreTypes /\ SessionTypes
  /\ CallsOwe /\ AnswersTell
  /\ ClaimsDurable

-----------------------------------------------------------------------------
\* The statistics file.
StatsStep ==
  \/ AppendEvent \/ NothingToPrune
  \/ \E w \in Workers : ReadEvents(w) \/ Truncate(w) \/ WriteBack(w)
  \/ WindowPasses \/ StatsCrash
  \/ UNCHANGED statsFile

LEMMA StatsKept ==
  ASSUME StatsInv, StatsStep
  PROVE  StatsInv'
<1>1. CASE AppendEvent
  BY <1>1 DEF StatsInv, AppendEvent
<1>2. CASE NothingToPrune \/ UNCHANGED statsFile
  BY <1>2 DEF StatsInv, NothingToPrune, statsFile
<1>3. ASSUME NEW w \in Workers, ReadEvents(w)
      PROVE  StatsInv'
  BY <1>3, ServerAssumption DEF StatsInv, ReadEvents, Young
<1>4. ASSUME NEW w \in Workers, Truncate(w)
      PROVE  StatsInv'
  BY <1>4, ServerAssumption DEF StatsInv, Truncate
<1>5. ASSUME NEW w \in Workers, WriteBack(w)
      PROVE  StatsInv'
  BY <1>5, ServerAssumption DEF StatsInv, WriteBack
<1>6. CASE WindowPasses
  BY <1>6 DEF StatsInv, WindowPasses
<1>7. CASE StatsCrash
  BY <1>7 DEF StatsInv, StatsCrash
<1> QED
  BY <1>1, <1>2, <1>3, <1>4, <1>5, <1>6, <1>7 DEF StatsStep

-----------------------------------------------------------------------------
\* The kinds of calls are told apart by their names.
LEMMA CallKinds ==
  ASSUME NEW c \in Calls
  PROVE  /\ c.op = "compress" <=> c \in CompressCall
         /\ c.op = "read" <=> c \in ReadCall
         /\ c.op = "retrieve" <=> c \in RetrieveCall
         /\ c.op = "purge" <=> c \in PurgeCall
         /\ c.op = "purge all" <=> c \in PurgeAllCall
         /\ c.op = "stats" <=> c \in StatsCall
<1>1. CASE c = Idle
  BY <1>1 DEF Idle, CompressCall, ReadCall, RetrieveCall, PurgeCall, PurgeAllCall, StatsCall
<1>2. CASE c \in CompressCall
  BY <1>2 DEF CompressCall, ReadCall, RetrieveCall, PurgeCall, PurgeAllCall, StatsCall
<1>3. CASE c \in ReadCall
  BY <1>3 DEF CompressCall, ReadCall, RetrieveCall, PurgeCall, PurgeAllCall, StatsCall
<1>4. CASE c \in RetrieveCall
  BY <1>4 DEF CompressCall, ReadCall, RetrieveCall, PurgeCall, PurgeAllCall, StatsCall
<1>5. CASE c \in PurgeCall
  BY <1>5 DEF CompressCall, ReadCall, RetrieveCall, PurgeCall, PurgeAllCall, StatsCall
<1>6. CASE c \in PurgeAllCall
  BY <1>6 DEF CompressCall, ReadCall, RetrieveCall, PurgeCall, PurgeAllCall, StatsCall
<1>7. CASE c \in StatsCall
  BY <1>7 DEF CompressCall, ReadCall, RetrieveCall, PurgeCall, PurgeAllCall, StatsCall
<1> QED
  BY <1>1, <1>2, <1>3, <1>4, <1>5, <1>6, <1>7 DEF Calls

\* Promises are kept while what they rest on grows.
LEMMA OwesKept ==
  ASSUME NEW c, NEW written, NEW made \in Nat, NEW blind, Owes(c, written, made, blind),
         NEW more, NEW most \in Nat, NEW blinder,
         written \subseteq more, made <= most, blind => blinder
  PROVE  Owes(c, more, most, blinder)
<1>1. c \in Calls
  BY DEF Owes
<1>2. c.op = "compress" => c.total \in Nat
  BY <1>1, CallKinds DEF CompressCall
<1> QED
  BY <1>2 DEF Owes

LEMMA TellsKept ==
  ASSUME NEW a, NEW blind, Tells(a, blind), NEW blinder, blind => blinder
  PROVE  Tells(a, blinder)
BY DEF Tells

\* What every step but a restart does to what the promises rest on.
Grows ==
  /\ durable \cup gone \subseteq durable' \cup gone'
  /\ real' \in Nat /\ real <= real'
  /\ degraded => degraded'

\* A step that moves one call on, or none.
LEMMA OneCallMoves ==
  ASSUME CallsOwe, SessionTypes, Grows, NEW w \in Workers, NEW c,
         Owes(c, durable' \cup gone', real', degraded'),
         call' = [call EXCEPT ![w] = c]
  PROVE  CallsOwe'
<1>1. c \in Calls
  BY DEF Owes
<1>2. call' \in [Workers -> Calls] /\ call'[w] = c
      /\ \A v \in Workers : v # w => call'[v] = call[v]
  BY <1>1 DEF CallsOwe
<1>3. ASSUME NEW v \in Workers
      PROVE  Owes(call'[v], durable' \cup gone', real', degraded')
  <2>1. CASE v = w
    BY <2>1, <1>2
  <2>2. CASE v # w
    BY <2>2, <1>2, OwesKept DEF CallsOwe, SessionTypes, Grows
  <2> QED
    BY <2>1, <2>2
<1> QED
  BY <1>2, <1>3 DEF CallsOwe

LEMMA NoCallMoves ==
  ASSUME CallsOwe, SessionTypes, Grows, UNCHANGED call
  PROVE  CallsOwe'
BY OwesKept DEF CallsOwe, SessionTypes, Grows

LEMMA OneAnswer ==
  ASSUME AnswersTell, degraded => degraded', NEW w \in Workers, NEW a,
         Tells(a, degraded'), answers' = [answers EXCEPT ![w] = a]
  PROVE  AnswersTell'
<1>1. a \in PlainAnswer \cup PurgeReply
  BY DEF Tells
<1>2. answers' \in [Workers -> PlainAnswer \cup PurgeReply] /\ answers'[w] = a
      /\ \A v \in Workers : v # w => answers'[v] = answers[v]
  BY <1>1 DEF AnswersTell
<1>3. ASSUME NEW v \in Workers
      PROVE  Tells(answers'[v], degraded')
  <2>1. CASE v = w
    BY <2>1, <1>2
  <2>2. CASE v # w
    BY <2>2, <1>2, TellsKept DEF AnswersTell
  <2> QED
    BY <2>1, <2>2
<1> QED
  BY <1>2, <1>3 DEF AnswersTell

LEMMA NoAnswer ==
  ASSUME AnswersTell, degraded => degraded', UNCHANGED answers
  PROVE  AnswersTell'
BY TellsKept DEF AnswersTell

\* A call that has ended owes nothing.
LEMMA IdleOwes ==
  ASSUME NEW written, NEW made, NEW blind
  PROVE  Owes(Idle, written, made, blind)
BY DEF Owes, Calls, Idle

\* The store's operations.
LEMMA StoreMoves ==
  ASSUME StoreTypes, NEW c \in Contents, Lands(c) \/ FallsOpen(c) \/ Drops(c)
  PROVE  /\ durable \cup gone \subseteq durable' \cup gone'
         /\ durable' \subseteq Contents /\ volatile' \subseteq Contents /\ gone' \subseteq Contents
         /\ degraded' = degraded
         /\ Lands(c) => c \in durable'
BY DEF StoreTypes, Lands, FallsOpen, Drops

LEMMA DeletesMoves ==
  ASSUME StoreTypes, NEW S, NEW failed, Deletes(S, failed)
  PROVE  /\ durable \cup gone \subseteq durable' \cup gone'
         /\ durable' \subseteq durable /\ volatile' \subseteq volatile /\ gone' \subseteq Contents
         /\ degraded' = degraded
BY DEF StoreTypes, Deletes
-----------------------------------------------------------------------------
\* A step of one call, all together.
LEMMA Moves ==
  ASSUME IInv, NEW w \in Workers, NEW c,
         Owes(c, durable' \cup gone', real', degraded'),
         call' = [call EXCEPT ![w] = c],
         StatsStep, Grows, StoreTypes', SessionTypes', ClaimsDurable',
         UNCHANGED answers
           \/ \E a : Tells(a, degraded') /\ answers' = [answers EXCEPT ![w] = a]
  PROVE  IInv'
<1>1. StatsInv'
  BY StatsKept DEF IInv
<1>2. CallsOwe'
  BY OneCallMoves DEF IInv
<1>3. AnswersTell'
  BY OneAnswer, NoAnswer DEF IInv, Grows
<1> QED
  BY <1>1, <1>2, <1>3 DEF IInv

\* One that touches neither the store nor the session.
LEMMA PlainMove ==
  ASSUME IInv, NEW w \in Workers, NEW c,
         Owes(c, durable \cup gone, real, degraded), Goes(w, c),
         StatsStep, UNCHANGED <<store, session, disk, claims, answers>>
  PROVE  IInv'
<1>1. /\ durable' = durable /\ volatile' = volatile /\ gone' = gone /\ degraded' = degraded
      /\ cached' = cached /\ saved' = saved /\ real' = real
      /\ disk' = disk /\ claims' = claims /\ answers' = answers
  BY DEF store, session
<1>2. Grows /\ StoreTypes' /\ SessionTypes' /\ ClaimsDurable'
  BY <1>1 DEF IInv, Grows, StoreTypes, SessionTypes, ClaimsDurable
<1>3. call' = [call EXCEPT ![w] = c]
  BY DEF Goes
<1> QED
  BY <1>1, <1>2, <1>3, Moves

\* The last of a call, whose answer may add to the claims.
LEMMA LastMove ==
  ASSUME IInv, NEW w \in Workers, NEW a,
         Tells(a, degraded), Answers(w, a),
         StatsStep, UNCHANGED <<store, session, disk>>,
         claims' \subseteq claims \cup durable \cup gone
  PROVE  IInv'
<1>1. /\ durable' = durable /\ volatile' = volatile /\ gone' = gone /\ degraded' = degraded
      /\ cached' = cached /\ saved' = saved /\ real' = real /\ disk' = disk
  BY DEF store, session
<1>2. Grows /\ StoreTypes' /\ SessionTypes' /\ ClaimsDurable'
  BY <1>1 DEF IInv, Grows, StoreTypes, SessionTypes, ClaimsDurable
<1>3. call' = [call EXCEPT ![w] = Idle] /\ answers' = [answers EXCEPT ![w] = a]
  BY DEF Answers
<1> QED
  BY <1>1, <1>2, <1>3, IdleOwes, Moves

\* A plain answer tells nothing that could be wrong.
LEMMA PlainTells ==
  ASSUME NEW a \in PlainAnswer, NEW blind
  PROVE  Tells(a, blind)
BY DEF Tells, PlainAnswer

\* What is known of a call that has come to a step.
LEMMA CallAt ==
  ASSUME IInv, NEW w \in Workers
  PROVE  /\ call[w] \in Calls
         /\ Owes(call[w], durable \cup gone, real, degraded)
         /\ call[w].op = "compress" => call[w] \in CompressCall
         /\ call[w].op = "read" => call[w] \in ReadCall
         /\ call[w].op = "retrieve" => call[w] \in RetrieveCall
         /\ call[w].op = "purge" => call[w] \in PurgeCall
         /\ call[w].op = "stats" => call[w] \in StatsCall
<1>1. call[w] \in Calls /\ Owes(call[w], durable \cup gone, real, degraded)
  BY DEF IInv, CallsOwe
<1> QED
  BY <1>1, CallKinds

\* Calls that promise nothing but their shape.
LEMMA ShapeOwes ==
  ASSUME NEW c, NEW written, NEW made, NEW blind,
         \/ c \in RetrieveCall \/ c \in StatsCall \/ c \in PurgeAllCall
         \/ c \in ReadCall /\ (c.step # "open" => c.read \in Contents) /\ c.step # "seed"
         \/ c \in PurgeCall /\ c.step # "verify"
  PROVE  Owes(c, written, made, blind)
<1>1. c \in Calls
  BY DEF Calls
<1>2. /\ c.op # "compress" /\ (c.op = "purge" => c.step # "verify")
      /\ c.op = "read" => c.step # "seed" /\ (c.step # "open" => c.read \in Contents)
  BY DEF RetrieveCall, StatsCall, PurgeAllCall, ReadCall, PurgeCall
<1> QED
  BY <1>1, <1>2 DEF Owes

\* What a compression promises.
LEMMA CompressOwes ==
  ASSUME NEW c \in CompressCall, NEW written, NEW made, NEW blind,
         c.durably \subseteq written, c.total <= made, c.step # "answer" => c.runs # <<>>
  PROVE  Owes(c, written, made, blind)
<1>1. c \in Calls /\ c.op = "compress"
  BY DEF Calls, CompressCall
<1> QED
  BY <1>1 DEF Owes

\* One run fewer.
LEMMA RestOfRuns ==
  ASSUME NEW runs \in Seq(Contents), runs # <<>>
  PROVE  Tail(runs) \in Seq(Contents) /\ (Len(runs) > 1 => Tail(runs) # <<>>)
<1>1. Tail(runs) \in Seq(Contents) /\ Len(Tail(runs)) = Len(runs) - 1 /\ Len(runs) \in Nat
  BY HeadTailProperties, LenProperties
<1>2. Len(runs) > 1 => Len(Tail(runs)) # 0
  <2>1. \A n \in Nat : n > 1 => n - 1 # 0
    OBVIOUS
  <2> QED
    BY <1>1, <2>1, Zenon
<1>3. Len(<<>>) = 0
  OBVIOUS
<1> QED
  BY <1>1, <1>2, <1>3

-----------------------------------------------------------------------------
\* furl_compress.
LEMMA CompressKeeps ==
  ASSUME IInv, NEW w \in Workers,
         \/ CompressError(w) \/ CompressStore(w) \/ CompressCheck(w) \/ CompressBook(w)
         \/ CompressSum(w) \/ CompressLog(w) \/ CompressAnswer(w)
  PROVE  IInv'
<1> DEFINE c == call[w]
<1>1. /\ c \in CompressCall /\ c.op = "compress"
      /\ c.durably \subseteq durable \cup gone /\ c.total <= real
      /\ c.step # "answer" => c.runs # <<>>
  <2>1. c.op = "compress"
    BY DEF CompressError, CompressStore, CompressCheck, CompressBook, CompressSum,
           CompressLog, CompressAnswer, At
  <2> QED
    BY <2>1, CallAt DEF Owes
<1>2. /\ c.runs \in Seq(Contents) /\ c.durably \subseteq Contents /\ c.total \in Nat
      /\ c.runs # <<>> => Run(w) \in Contents
  BY <1>1 DEF CompressCall, Run
<1>3. saved \in Nat /\ real \in Nat /\ saved <= real /\ StoreTypes /\ ClaimsDurable
  BY DEF IInv, SessionTypes
<1>4. CASE CompressError(w)
  <2>1. [answer |-> "error"] \in PlainAnswer
    BY DEF PlainAnswer
  <2>2. StatsStep
    BY <1>4 DEF CompressError, StatsStep
  <2> QED
    BY <1>4, <2>1, <2>2, PlainTells, LastMove DEF CompressError
<1>5. CASE CompressStore(w)
  <2>1. c.runs # <<>> /\ Run(w) \in Contents
    BY <1>1, <1>2, <1>5 DEF CompressStore, At
  <2> DEFINE there == durable' \cup gone'
  <2>2. /\ durable \cup gone \subseteq there /\ StoreTypes'
        /\ degraded' = degraded /\ (Lands(Run(w)) => Run(w) \in durable')
    <3>1. /\ durable \cup gone \subseteq durable' \cup gone'
          /\ durable' \subseteq Contents /\ volatile' \subseteq Contents /\ gone' \subseteq Contents
          /\ degraded' = degraded
          /\ Lands(Run(w)) => Run(w) \in durable'
      BY <2>1, <1>3, <1>5, StoreMoves DEF CompressStore
    <3> QED
      BY <1>3, <1>5, <3>1 DEF CompressStore, StoreTypes, session
  <2>3. /\ saved' = saved /\ real' = real /\ cached' = cached /\ claims' = claims
        /\ answers' = answers /\ StatsStep
    BY <1>5 DEF CompressStore, session, StatsStep
  <2>4. Grows /\ SessionTypes' /\ ClaimsDurable'
    BY <1>3, <2>2, <2>3 DEF Grows, SessionTypes, ClaimsDurable
  <2>5. CASE Lands(Run(w)) /\ Goes(w, [c EXCEPT !.step = "book", !.durably = @ \cup {Run(w)}])
    <3> DEFINE d == [c EXCEPT !.step = "book", !.durably = @ \cup {Run(w)}]
    <3>1. /\ d \in CompressCall /\ d.durably = c.durably \cup {Run(w)}
          /\ d.total = c.total /\ d.runs = c.runs
      BY <1>1, <2>1 DEF CompressCall
    <3>2. call' = [call EXCEPT ![w] = d]
      BY <2>5 DEF Goes
    <3> HIDE DEF d
    <3>3. d.durably \subseteq there
      BY <1>1, <2>2, <2>5, <3>1
    <3>4. Owes(d, there, real', degraded')
      BY <1>1, <2>1, <2>3, <3>1, <3>3, CompressOwes
    <3> QED
      BY <2>2, <2>3, <2>4, <3>2, <3>4, Moves
  <2>6. CASE To(w, "check")
    <3> DEFINE d == [c EXCEPT !.step = "check"]
    <3>1. /\ d \in CompressCall /\ d.durably = c.durably
          /\ d.total = c.total /\ d.runs = c.runs
      BY <1>1 DEF CompressCall
    <3>2. call' = [call EXCEPT ![w] = d]
      BY <2>6 DEF Goes, To
    <3> HIDE DEF d
    <3>3. Owes(d, there, real', degraded')
      BY <1>1, <2>1, <2>2, <2>3, <3>1, CompressOwes
    <3> QED
      BY <2>2, <2>3, <2>4, <3>2, <3>3, Moves
  <2> QED
    BY <1>5, <2>5, <2>6 DEF CompressStore
<1>6. CASE CompressCheck(w)
  <2> DEFINE d == [c EXCEPT !.step = "book", !.lost = @ \/ Run(w) \notin Visible]
  <2>1. Goes(w, d) /\ c.runs # <<>> /\ StatsStep
    BY <1>1, <1>6 DEF CompressCheck, At, StatsStep
  <2>2. /\ d \in CompressCall /\ d.durably = c.durably
        /\ d.total = c.total /\ d.runs = c.runs
    BY <1>1 DEF CompressCall
  <2> HIDE DEF d
  <2>3. Owes(d, durable \cup gone, real, degraded)
    BY <1>1, <2>1, <2>2, CompressOwes
  <2> QED
    BY <1>6, <2>1, <2>3, PlainMove DEF CompressCheck
<1>7. CASE CompressBook(w)
  <2> DEFINE d == [c EXCEPT !.step = "sum", !.total = saved]
  <2>1. Goes(w, d) /\ c.runs # <<>> /\ StatsStep
    BY <1>1, <1>7 DEF CompressBook, At, StatsStep
  <2>2. /\ d \in CompressCall /\ d.durably = c.durably
        /\ d.total = saved /\ d.runs = c.runs
    BY <1>1, <1>3 DEF CompressCall
  <2> HIDE DEF d
  <2>3. Owes(d, durable \cup gone, real, degraded)
    BY <1>1, <1>3, <2>1, <2>2, CompressOwes
  <2> QED
    BY <1>7, <2>1, <2>3, PlainMove DEF CompressBook
<1>8. CASE CompressSum(w)
  <2> DEFINE d == [c EXCEPT !.step = "log"]
  <2>1. call' = [call EXCEPT ![w] = d] /\ c.runs # <<>> /\ StatsStep
    BY <1>1, <1>8 DEF CompressSum, At, StatsStep, To, Goes
  <2>2. /\ d \in CompressCall /\ d.durably = c.durably
        /\ d.total = c.total /\ d.runs = c.runs
    BY <1>1 DEF CompressCall
  <2> HIDE DEF d
  <2>3. /\ saved' = c.total + 1 /\ real' = real + 1
        /\ durable' = durable /\ volatile' = volatile /\ gone' = gone /\ degraded' = degraded
        /\ cached' = cached /\ disk' = disk /\ claims' = claims /\ answers' = answers
    BY <1>8 DEF CompressSum, store
  <2>4. Grows /\ StoreTypes' /\ SessionTypes' /\ ClaimsDurable'
    BY <1>1, <1>2, <1>3, <2>3 DEF Grows, StoreTypes, SessionTypes, ClaimsDurable
  <2>5. c.total <= real'
    BY <1>1, <1>2, <1>3, <2>3
  <2>6. Owes(d, durable' \cup gone', real', degraded')
    BY <1>1, <2>1, <2>2, <2>3, <2>5, CompressOwes
  <2> QED
    BY <2>1, <2>3, <2>4, <2>6, Moves
<1>9. CASE CompressLog(w)
  <2> DEFINE next_ == IF Len(c.runs) > 1 THEN "run" ELSE "answer"
             d == [c EXCEPT !.runs = Tail(@), !.step = next_]
  <2>1. Goes(w, d) /\ c.runs # <<>> /\ StatsStep
    BY <1>1, <1>9 DEF CompressLog, At, StatsStep
  <2>2. Tail(c.runs) \in Seq(Contents) /\ (Len(c.runs) > 1 => Tail(c.runs) # <<>>)
    BY <1>2, <2>1, RestOfRuns
  <2>3. /\ d \in CompressCall /\ d.durably = c.durably
        /\ d.total = c.total /\ d.runs = Tail(c.runs) /\ d.step = next_
    BY <1>1, <2>2 DEF CompressCall
  <2> HIDE DEF d
  <2>4. Owes(d, durable \cup gone, real, degraded)
    BY <1>1, <2>2, <2>3, CompressOwes
  <2> QED
    BY <1>9, <2>1, <2>4, PlainMove DEF CompressLog
<1>10. CASE CompressAnswer(w)
  <2>1. [answer |-> "raised"] \in PlainAnswer /\ [answer |-> "compressed"] \in PlainAnswer
    BY DEF PlainAnswer
  <2>2. StatsStep /\ UNCHANGED <<store, session, disk>>
    BY <1>10 DEF CompressAnswer, StatsStep
  <2>3. claims' \subseteq claims \cup durable \cup gone
    BY <1>1, <1>10 DEF CompressAnswer
  <2>4. Answers(w, [answer |-> "raised"]) \/ Answers(w, [answer |-> "compressed"])
    BY <1>10 DEF CompressAnswer
  <2> QED
    BY <2>1, <2>2, <2>3, <2>4, PlainTells, LastMove
<1> QED
  BY <1>4, <1>5, <1>6, <1>7, <1>8, <1>9, <1>10

\* The last step of a call that only tells.
LEMMA PlainLast ==
  ASSUME IInv, NEW w \in Workers, NEW a \in PlainAnswer, Answers(w, a),
         StatsStep, UNCHANGED <<store, session, disk, claims>>
  PROVE  IInv'
<1>1. claims' \subseteq claims \cup durable \cup gone
  OBVIOUS
<1> QED
  BY <1>1, PlainTells, LastMove

-----------------------------------------------------------------------------
\* furl_retrieve.
LEMMA RetrieveKeeps ==
  ASSUME IInv, NEW w \in Workers,
         Retrieve(w) \/ RetrieveLog(w) \/ RetrieveStatus(w)
  PROVE  IInv'
<1>1. CASE Retrieve(w)
  <2>1. call[w] \in RetrieveCall
    BY <1>1, CallAt DEF Retrieve, At
  <2>2. PICK s \in {"log", "status"} : To(w, s)
    BY <1>1 DEF Retrieve
  <2>3. [call[w] EXCEPT !.step = s] \in RetrieveCall
    BY <2>1 DEF RetrieveCall
  <2>4. StatsStep /\ UNCHANGED <<store, session, disk, claims, answers>>
    BY <1>1 DEF Retrieve, StatsStep
  <2> QED
    BY <2>2, <2>3, <2>4, ShapeOwes, PlainMove DEF To
<1>2. CASE RetrieveLog(w)
  <2>1. [answer |-> "retrieved"] \in PlainAnswer
    BY DEF PlainAnswer
  <2>2. StatsStep /\ UNCHANGED <<store, session, disk, claims>>
    BY <1>2 DEF RetrieveLog, StatsStep
  <2> QED
    BY <1>2, <2>1, <2>2, PlainLast DEF RetrieveLog
<1>3. CASE RetrieveStatus(w)
  <2>1. [answer |-> "available"] \in PlainAnswer /\ [answer |-> "miss"] \in PlainAnswer
    BY DEF PlainAnswer
  <2>2. StatsStep /\ UNCHANGED <<store, session, disk, claims>>
    BY <1>3 DEF RetrieveStatus, StatsStep
  <2>3. Answers(w, [answer |-> "available"]) \/ Answers(w, [answer |-> "miss"])
    BY <1>3 DEF RetrieveStatus
  <2> QED
    BY <2>1, <2>2, <2>3, PlainLast
<1> QED
  BY <1>1, <1>2, <1>3

-----------------------------------------------------------------------------
\* furl_read.
LEMMA ReadKeeps ==
  ASSUME IInv, NEW w \in Workers,
         \/ ReadFile(w) \/ ReadAlive(w) \/ ReadHit(w) \/ ReadForget(w)
         \/ ReadStore(w) \/ ReadSeed(w)
  PROVE  IInv'
<1> DEFINE c == call[w]
<1>1. /\ c \in ReadCall /\ c.op = "read"
      /\ c.step # "open" => c.read \in Contents
      /\ c.step = "seed" => c.read \in durable \cup gone
  <2>1. c.op = "read"
    BY DEF ReadFile, ReadAlive, ReadHit, ReadForget, ReadStore, ReadSeed, At
  <2> QED
    BY <2>1, CallAt DEF Owes
<1>2. StoreTypes /\ SessionTypes /\ ClaimsDurable /\ NIL \notin Contents
  BY ServerAssumption DEF IInv
<1>3. /\ [answer |-> "unchanged"] \in PlainAnswer
      /\ [answer |-> "raised"] \in PlainAnswer
      /\ [answer |-> "content"] \in PlainAnswer
  BY DEF PlainAnswer
<1>4. CASE ReadFile(w)
  <2> DEFINE next_ == IF ~c.fresh /\ cached = disk THEN "alive" ELSE "store"
             d == [c EXCEPT !.read = disk, !.step = next_]
  <2>1. Goes(w, d) /\ StatsStep /\ UNCHANGED <<store, session, disk, claims, answers>>
    BY <1>4 DEF ReadFile, StatsStep
  <2>2. d \in ReadCall /\ d.read \in Contents /\ d.step # "seed"
    BY <1>1, <1>2 DEF ReadCall, StoreTypes
  <2> HIDE DEF d
  <2> QED
    BY <2>1, <2>2, ShapeOwes, PlainMove
<1>5. CASE ReadAlive(w)
  <2>1. PICK s \in {"hit", "forget"} : To(w, s)
    BY <1>5 DEF ReadAlive
  <2> DEFINE d == [c EXCEPT !.step = s]
  <2>2. Goes(w, d) /\ StatsStep /\ UNCHANGED <<store, session, disk, claims, answers>>
    BY <1>5, <2>1 DEF ReadAlive, StatsStep, To
  <2>3. c.read \in Contents
    BY <1>1, <1>5 DEF ReadAlive, At
  <2>4. d \in ReadCall /\ d.read \in Contents /\ d.step # "seed"
    BY <1>1, <2>3 DEF ReadCall
  <2> HIDE DEF d
  <2> QED
    BY <2>2, <2>4, ShapeOwes, PlainMove
<1>6. CASE ReadHit(w)
  <2>1. StatsStep /\ UNCHANGED <<store, session, disk, claims>>
    BY <1>6 DEF ReadHit, StatsStep
  <2> QED
    BY <1>3, <1>6, <2>1, PlainLast DEF ReadHit
<1>7. CASE ReadForget(w)
  <2>1. /\ durable' = durable /\ volatile' = volatile /\ gone' = gone /\ degraded' = degraded
        /\ cached' = NIL /\ saved' = saved /\ real' = real /\ disk' = disk /\ claims' = claims
        /\ StatsStep
    BY <1>7 DEF ReadForget, store, StatsStep
  <2>2. Grows /\ StoreTypes' /\ SessionTypes' /\ ClaimsDurable'
    BY <1>2, <2>1 DEF Grows, StoreTypes, SessionTypes, ClaimsDurable
  <2>3. CASE Answers(w, [answer |-> "raised"])
    <3>1. Tells([answer |-> "raised"], degraded')
      BY <1>3, PlainTells
    <3>2. Owes(Idle, durable' \cup gone', real', degraded')
      BY IdleOwes
    <3> QED
      BY <2>1, <2>2, <2>3, <3>1, <3>2, Moves DEF Answers
  <2>4. CASE To(w, "store") /\ UNCHANGED answers
    <3> DEFINE d == [c EXCEPT !.step = "store"]
    <3>1. c.read \in Contents
      BY <1>1, <1>7 DEF ReadForget, At
    <3>2. d \in ReadCall /\ d.read \in Contents /\ d.step # "seed"
      BY <1>1, <3>1 DEF ReadCall
    <3>3. call' = [call EXCEPT ![w] = d]
      BY <2>4 DEF To, Goes
    <3> HIDE DEF d
    <3>4. Owes(d, durable' \cup gone', real', degraded')
      BY <3>2, ShapeOwes
    <3> QED
      BY <2>1, <2>2, <2>4, <3>3, <3>4, Moves
  <2> QED
    BY <1>7, <2>3, <2>4 DEF ReadForget
<1>8. CASE ReadStore(w)
  <2>1. c.read \in Contents
    BY <1>1, <1>8 DEF ReadStore, At
  <2>2. /\ durable \cup gone \subseteq durable' \cup gone'
        /\ durable' \subseteq Contents /\ volatile' \subseteq Contents /\ gone' \subseteq Contents
        /\ degraded' = degraded
        /\ Lands(c.read) => c.read \in durable'
    BY <1>2, <1>8, <2>1, StoreMoves DEF ReadStore
  <2>3. /\ cached' = cached /\ saved' = saved /\ real' = real
        /\ disk' = disk /\ claims' = claims /\ StatsStep
    BY <1>8 DEF ReadStore, session, StatsStep
  <2>4. Grows /\ StoreTypes' /\ SessionTypes' /\ ClaimsDurable'
    BY <1>2, <2>2, <2>3 DEF Grows, StoreTypes, SessionTypes, ClaimsDurable
  <2>5. CASE Lands(c.read) /\ To(w, "seed") /\ UNCHANGED answers
    <3> DEFINE d == [c EXCEPT !.step = "seed"]
    <3>1. /\ d \in ReadCall /\ d.op = "read"
          /\ d.read \in Contents /\ d.read \in durable' \cup gone'
      BY <1>1, <2>1, <2>2, <2>5 DEF ReadCall
    <3>2. call' = [call EXCEPT ![w] = d]
      BY <2>5 DEF To, Goes
    <3> HIDE DEF d
    <3>3. Owes(d, durable' \cup gone', real', degraded')
      BY <3>1 DEF Owes, Calls
    <3> QED
      BY <2>3, <2>4, <2>5, <3>2, <3>3, Moves
  <2>6. CASE Answers(w, [answer |-> "content"])
    <3>1. Tells([answer |-> "content"], degraded')
      BY <1>3, PlainTells
    <3>2. Owes(Idle, durable' \cup gone', real', degraded')
      BY IdleOwes
    <3> QED
      BY <2>3, <2>4, <2>6, <3>1, <3>2, Moves DEF Answers
  <2> QED
    BY <1>8, <2>5, <2>6 DEF ReadStore
<1>9. CASE ReadSeed(w)
  <2>1. c.read \in Contents /\ c.read \in durable \cup gone
    BY <1>1, <1>9 DEF ReadSeed, At
  <2>2. /\ durable' = durable /\ volatile' = volatile /\ gone' = gone /\ degraded' = degraded
        /\ cached' = c.read /\ saved' = saved /\ real' = real /\ disk' = disk /\ claims' = claims
        /\ StatsStep
    BY <1>9 DEF ReadSeed, store, StatsStep
  <2>3. Grows /\ StoreTypes' /\ SessionTypes' /\ ClaimsDurable'
    BY <1>2, <2>1, <2>2 DEF Grows, StoreTypes, SessionTypes, ClaimsDurable
  <2>4. Tells([answer |-> "content"], degraded')
    BY <1>3, PlainTells
  <2>5. Owes(Idle, durable' \cup gone', real', degraded')
    BY IdleOwes
  <2> QED
    BY <1>9, <2>2, <2>3, <2>4, <2>5, Moves DEF ReadSeed, Answers
<1> QED
  BY <1>4, <1>5, <1>6, <1>7, <1>8, <1>9

-----------------------------------------------------------------------------
\* furl_purge.
LEMMA PurgeKeeps ==
  ASSUME IInv, NEW w \in Workers, PurgeDelete(w) \/ PurgeVerify(w) \/ PurgeAnswer(w)
  PROVE  IInv'
<1> DEFINE c == call[w]
<1>1. /\ c \in PurgeCall /\ c.op = "purge"
      /\ c.step = "verify" /\ ~degraded /\ c.hash \in c.stuck =>
           c.hash \in c.expected \/ c.survivors # {}
  <2>1. c.op = "purge"
    BY DEF PurgeDelete, PurgeVerify, PurgeAnswer, At
  <2> QED
    BY <2>1, CallAt DEF Owes
<1>2. /\ c.hash \in Contents /\ c.expected \subseteq Contents
      /\ c.survivors \subseteq Contents /\ c.stuck \subseteq Contents
  BY <1>1 DEF PurgeCall
<1>3. StoreTypes /\ SessionTypes /\ ClaimsDurable
  BY DEF IInv
<1>4. CASE PurgeDelete(w)
  <2> DEFINE nested == Nested(c.hash)
             all == {c.hash} \cup nested
  <2>1. nested \subseteq Contents
    BY <1>2, <1>3, ServerAssumption DEF Nested, Visible, StoreTypes
  <2>2. PICK failed \in SUBSET (all \cap durable) :
          /\ Deletes(all, failed)
          /\ Goes(w, [c EXCEPT !.step = "verify", !.stuck = failed,
                        !.expected = {c.hash} \cup (nested \ (failed \ volatile))])
    BY <1>4 DEF PurgeDelete
  <2> DEFINE d == [c EXCEPT !.step = "verify", !.stuck = failed,
                     !.expected = {c.hash} \cup (nested \ (failed \ volatile))]
  <2>3. /\ durable \cup gone \subseteq durable' \cup gone'
        /\ durable' \subseteq durable /\ volatile' \subseteq volatile /\ gone' \subseteq Contents
        /\ degraded' = degraded
    BY <1>3, <2>2, DeletesMoves
  <2>4. /\ cached' = cached /\ saved' = saved /\ real' = real
        /\ disk' = disk /\ claims' = claims /\ answers' = answers /\ StatsStep
    BY <1>4 DEF PurgeDelete, session, StatsStep
  <2>5. Grows /\ StoreTypes' /\ SessionTypes' /\ ClaimsDurable'
    BY <1>3, <2>3, <2>4 DEF Grows, StoreTypes, SessionTypes, ClaimsDurable
  <2>6. failed \subseteq Contents
    BY <1>3, <2>2 DEF StoreTypes
  <2>7. d \in PurgeCall /\ d.op = "purge" /\ d.hash \in d.expected
    BY <1>1, <1>2, <2>1, <2>6 DEF PurgeCall
  <2>8. call' = [call EXCEPT ![w] = d]
    BY <2>2 DEF Goes
  <2> HIDE DEF d
  <2>9. Owes(d, durable' \cup gone', real', degraded')
    BY <2>7 DEF Owes, Calls
  <2> QED
    BY <2>4, <2>5, <2>8, <2>9, Moves
<1>5. CASE PurgeVerify(w)
  <2>1. PICK h \in c.expected :
          Goes(w, [c EXCEPT !.expected = @ \ {h},
                     !.survivors = IF h \in Visible THEN @ \cup {h} ELSE @,
                     !.stuck = IF h \in durable \cup volatile THEN @ ELSE @ \ {h}])
    BY <1>5 DEF PurgeVerify
  <2> DEFINE seen == IF h \in Visible THEN c.survivors \cup {h} ELSE c.survivors
             left == IF h \in durable \cup volatile THEN c.stuck ELSE c.stuck \ {h}
             d == [c EXCEPT !.expected = @ \ {h}, !.survivors = seen, !.stuck = left]
  <2>2. h \in Contents /\ c.step = "verify"
    BY <1>2, <1>5 DEF PurgeVerify, At
  <2>3. seen \subseteq Contents /\ left \subseteq Contents
    BY <1>2, <2>2
  <2>4. ~degraded => (h \in durable \cup volatile => h \in Visible)
    BY DEF Visible
  <2>5. ~degraded /\ c.hash \in left => c.hash \in c.expected \ {h} \/ seen # {}
    <3>1. CASE h = c.hash
      BY <2>4, <3>1
    <3>2. CASE h # c.hash
      BY <1>1, <2>2, <3>2
    <3> QED
      BY <3>1, <3>2
  <2> HIDE DEF seen, left
  <2>6. Goes(w, d) /\ StatsStep /\ UNCHANGED <<store, session, disk, claims, answers>>
    BY <1>5, <2>1 DEF PurgeVerify, StatsStep, seen, left
  <2>7. /\ d \in PurgeCall /\ d.op = "purge" /\ d.hash = c.hash
        /\ d.expected = c.expected \ {h} /\ d.survivors = seen /\ d.stuck = left
    BY <1>1, <2>3 DEF PurgeCall
  <2> HIDE DEF d
  <2>8. Owes(d, durable \cup gone, real, degraded)
    BY <2>5, <2>7 DEF Owes, Calls
  <2> QED
    BY <2>6, <2>8, PlainMove
<1>6. CASE PurgeAnswer(w)
  <2>1. PICK told \in {"purged", "not purged"} :
          /\ Answers(w, [answer |-> told, of |-> {c.hash}, stuck |-> c.stuck])
          /\ told = "purged" => c.survivors = {}
    BY <1>6 DEF PurgeAnswer
  <2> DEFINE a == [answer |-> told, of |-> {c.hash}, stuck |-> c.stuck]
  <2>2. a \in PurgeReply
    BY <1>2, <2>1 DEF PurgeReply
  <2>3. c.expected = {} /\ c.step = "verify"
    BY <1>6 DEF PurgeAnswer, At
  <2>4. Tells(a, degraded)
    BY <1>1, <2>1, <2>2, <2>3 DEF Tells
  <2>5. StatsStep /\ UNCHANGED <<store, session, disk>>
        /\ claims' \subseteq claims \cup durable \cup gone
    BY <1>6 DEF PurgeAnswer, StatsStep
  <2> QED
    BY <2>1, <2>4, <2>5, LastMove
<1> QED
  BY <1>4, <1>5, <1>6

LEMMA PurgeAllKeeps ==
  ASSUME IInv, NEW w \in Workers, PurgeAll(w)
  PROVE  IInv'
<1>1. StoreTypes /\ SessionTypes /\ ClaimsDurable
  BY DEF IInv
<1>2. PICK failed \in {{}, durable} :
        /\ Deletes(Contents, failed)
        /\ Answers(w, [answer |-> IF failed = {} \/ degraded THEN "purged" ELSE "not purged",
                       of |-> Contents, stuck |-> IF degraded THEN durable ELSE failed])
  BY DEF PurgeAll
<1> DEFINE told == IF failed = {} \/ degraded THEN "purged" ELSE "not purged"
           left == IF degraded THEN durable ELSE failed
           a == [answer |-> told, of |-> Contents, stuck |-> left]
<1>3. /\ durable \cup gone \subseteq durable' \cup gone'
      /\ durable' \subseteq durable /\ volatile' \subseteq volatile /\ gone' \subseteq Contents
      /\ degraded' = degraded
  BY <1>1, <1>2, DeletesMoves
<1>4. /\ cached' = cached /\ saved' = saved /\ real' = real
      /\ disk' = disk /\ claims' = claims /\ StatsStep
  BY DEF PurgeAll, session, StatsStep
<1>5. Grows /\ StoreTypes' /\ SessionTypes' /\ ClaimsDurable'
  BY <1>1, <1>3, <1>4 DEF Grows, StoreTypes, SessionTypes, ClaimsDurable
<1>6. left \subseteq Contents /\ told \in {"purged", "not purged"}
      /\ (told = "purged" /\ ~degraded => left = {})
  BY <1>1, <1>2 DEF StoreTypes
<1>7. call' = [call EXCEPT ![w] = Idle] /\ answers' = [answers EXCEPT ![w] = a]
  BY <1>2 DEF Answers
<1> HIDE DEF told, left
<1>8. a \in PurgeReply
  BY <1>6 DEF PurgeReply
<1>9. Tells(a, degraded')
  BY <1>3, <1>6, <1>8 DEF Tells
<1>10. Owes(Idle, durable' \cup gone', real', degraded')
  BY IdleOwes
<1> QED
  BY <1>4, <1>5, <1>7, <1>9, <1>10, Moves

-----------------------------------------------------------------------------
\* furl_stats.
LEMMA StatsKeeps ==
  ASSUME IInv, NEW w \in Workers, StatsRead(w) \/ StatsTruncate(w) \/ StatsWrite(w)
  PROVE  IInv'
<1>1. StatsStep /\ UNCHANGED <<store, session, disk, claims>>
  BY DEF StatsRead, StatsTruncate, StatsWrite, StatsStep
<1>2. call[w] \in StatsCall
  BY CallAt DEF StatsRead, StatsTruncate, StatsWrite, At
<1>3. CASE Answers(w, [answer |-> "stats"])
  <2>1. [answer |-> "stats"] \in PlainAnswer
    BY DEF PlainAnswer
  <2> QED
    BY <1>1, <1>3, <2>1, PlainLast
<1>4. ASSUME NEW s \in {"truncate", "write"}, To(w, s), UNCHANGED answers
      PROVE  IInv'
  <2>1. [call[w] EXCEPT !.step = s] \in StatsCall
    BY <1>2 DEF StatsCall
  <2> QED
    BY <1>1, <1>4, <2>1, ShapeOwes, PlainMove DEF To
<1> QED
  BY <1>3, <1>4 DEF StatsRead, StatsTruncate, StatsWrite, StatsAnswer

\* A call begins with nothing promised.
LEMMA BeginKeeps ==
  ASSUME IInv, NEW w \in Workers, NEW request \in Requests, Begin(w, request)
  PROVE  IInv'
<1>1. Starts(request)
  BY ServerAssumption
<1>2. Goes(w, request) /\ StatsStep /\ UNCHANGED <<store, session, disk, claims, answers>>
  BY DEF Begin, StatsStep
<1>3. real \in Nat
  BY DEF IInv, SessionTypes
<1>4. Owes(request, durable \cup gone, real, degraded)
  <2>1. CASE request \in CompressCall /\ request.step = "run" /\ request.runs # <<>>
               /\ request.durably = {} /\ request.total = 0
    <3>1. request.total <= real /\ request.durably \subseteq durable \cup gone
      BY <1>3, <2>1
    <3> QED
      BY <2>1, <3>1, CompressOwes
  <2>2. CASE request \in ReadCall /\ request.step = "open"
    BY <2>2, ShapeOwes
  <2>3. CASE request \in PurgeCall /\ request.step = "delete"
    BY <2>3, ShapeOwes
  <2>4. CASE request \in RetrieveCall \/ request \in PurgeAllCall \/ request \in StatsCall
    BY <2>4, ShapeOwes
  <2> QED
    BY <1>1, <2>1, <2>2, <2>3, <2>4 DEF Starts
<1> QED
  BY <1>2, <1>4, PlainMove

-----------------------------------------------------------------------------
\* What happens around the calls.
LEMMA AroundKeeps ==
  ASSUME IInv,
         \/ \E c \in Contents : Loses(c) \/ EditFile(c)
         \/ OtherAppends \/ TimePasses \/ Degrade
  PROVE  IInv'
<1>1. StoreTypes /\ SessionTypes /\ ClaimsDurable /\ StatsInv /\ CallsOwe /\ AnswersTell
  BY DEF IInv
<1>2. StatsStep /\ UNCHANGED <<call, answers>>
  BY DEF Loses, EditFile, OtherAppends, TimePasses, Degrade, StatsStep
<1>3. Grows /\ StoreTypes' /\ SessionTypes' /\ ClaimsDurable'
  <2>1. ASSUME NEW c \in Contents, Loses(c)
        PROVE  Grows /\ StoreTypes' /\ SessionTypes' /\ ClaimsDurable'
    BY <1>1, <2>1 DEF Loses, session, Grows, StoreTypes, SessionTypes, ClaimsDurable
  <2>2. ASSUME NEW c \in Contents, EditFile(c)
        PROVE  Grows /\ StoreTypes' /\ SessionTypes' /\ ClaimsDurable'
    BY <1>1, <2>2 DEF EditFile, store, session, Grows, StoreTypes, SessionTypes, ClaimsDurable
  <2>3. CASE OtherAppends \/ TimePasses
    BY <1>1, <2>3
       DEF OtherAppends, TimePasses, store, session, Grows, StoreTypes, SessionTypes, ClaimsDurable
  <2>4. CASE Degrade
    BY <1>1, <2>4 DEF Degrade, session, Grows, StoreTypes, SessionTypes, ClaimsDurable
  <2> QED
    BY <2>1, <2>2, <2>3, <2>4
<1>4. StatsInv'
  BY <1>1, <1>2, StatsKept
<1>5. CallsOwe'
  BY <1>1, <1>2, <1>3, NoCallMoves
<1>6. AnswersTell'
  BY <1>1, <1>2, <1>3, NoAnswer DEF Grows
<1> QED
  BY <1>3, <1>4, <1>5, <1>6 DEF IInv

\* The process starts over, with the file as it was left.
LEMMA Forgotten ==
  ASSUME NEW blind
  PROVE  Tells(None, blind) /\ Idle \in Calls /\ None \in PlainAnswer
BY DEF Tells, None, Idle, Calls, PlainAnswer

LEMMA RestartKeeps ==
  ASSUME IInv, Restart
  PROVE  IInv'
<1>1. StoreTypes /\ ClaimsDurable /\ StatsInv
  BY DEF IInv
<1>2. StatsInv'
  BY <1>1, StatsKept DEF Restart, StatsStep
<1>3. /\ StoreTypes'
      /\ SessionTypes'
      /\ ClaimsDurable'
  <2>1. StoreTypes'
    BY <1>1 DEF Restart, StoreTypes
  <2>2. SessionTypes'
    BY DEF Restart, SessionTypes
  <2>3. ClaimsDurable'
    BY <1>1 DEF Restart, ClaimsDurable
  <2> QED
    BY <2>1, <2>2, <2>3
<1>4. CallsOwe'
  BY IdleOwes, Forgotten DEF Restart, CallsOwe
<1>5. AnswersTell'
  BY Forgotten DEF Restart, AnswersTell
<1> QED
  BY <1>2, <1>3, <1>4, <1>5 DEF IInv

-----------------------------------------------------------------------------
LEMMA InitSound == Init => IInv
<1> SUFFICES ASSUME Init PROVE IInv
  OBVIOUS
<1>1. StatsInv
  BY DEF Init, StatsInit, StatsInv
<1>2. /\ StoreTypes
      /\ SessionTypes
      /\ ClaimsDurable
  <2>1. StoreTypes
    BY ServerAssumption DEF Init, StoreTypes
  <2>2. SessionTypes
    BY DEF Init, SessionTypes
  <2>3. ClaimsDurable
    BY DEF Init, ClaimsDurable
  <2> QED
    BY <2>1, <2>2, <2>3
<1>3. CallsOwe
  BY IdleOwes, Forgotten DEF Init, CallsOwe
<1>4. AnswersTell
  BY Forgotten DEF Init, AnswersTell
<1> QED
  BY <1>1, <1>2, <1>3, <1>4 DEF IInv

LEMMA NextSound == IInv /\ [Next]_vars => IInv'
<1> SUFFICES ASSUME IInv, [Next]_vars PROVE IInv'
  OBVIOUS
<1>1. ASSUME NEW w \in Workers, Step(w)
      PROVE  IInv'
  BY <1>1, CompressKeeps, RetrieveKeeps, ReadKeeps, PurgeKeeps, PurgeAllKeeps, StatsKeeps
     DEF Step
<1>2. ASSUME NEW w \in Workers, NEW request \in Requests, Begin(w, request)
      PROVE  IInv'
  BY <1>2, BeginKeeps
<1>3. CASE UNCHANGED vars
  BY <1>3
     DEF vars, statsFile, store, session, bounds, IInv, StatsInv, StoreTypes, SessionTypes,
         CallsOwe, AnswersTell, ClaimsDurable
<1> QED
  BY <1>1, <1>2, <1>3, AroundKeeps, RestartKeeps DEF Next

LEMMA ServerSound == Spec => []IInv
BY InitSound, NextSound, PTL DEF Spec

\* furl_compress's answer and furl_read's cache name only what the file has held:
\* whatever is not there any more was taken out of it.
THEOREM AdvertisedIsDurable == Spec => []ClaimsDurable
<1>1. IInv => ClaimsDurable
  BY DEF IInv
<1> QED
  BY <1>1, ServerSound, PTL

\* furl_purge's success covers the hash it was called with.
THEOREM PurgeIsTrue == Spec => []PurgeVerified
<1>1. IInv => PurgeVerified
  BY DEF IInv, AnswersTell, Tells, PurgeVerified
<1> QED
  BY <1>1, ServerSound, PTL

\* SessionStats never exceeds what compressions saved, whatever bookings are lost.
THEOREM SavingsAreEarned == Spec => []SavingsAreReal
<1>1. IInv => SavingsAreReal
  BY DEF IInv, SessionTypes, CallsOwe, Owes, SavingsAreReal
<1> QED
  BY <1>1, ServerSound, PTL

\* _read_shared_events and _append_shared_event of any number of processes lose
\* no event of the window but to a crash in a rewrite.
THEOREM EventsSurvive == Spec => []EventsKept
<1>1. IInv => EventsKept
  BY DEF IInv, StatsInv, EventsKept
<1> QED
  BY <1>1, ServerSound, PTL

-----------------------------------------------------------------------------
(***************************************************************************)
(* The hooks and the shell pipe: HookPipe, over any commands, any number of   *)
(* lines, any settings that a command may find and any number of purges.     *)
(***************************************************************************)

\* The guard reads at least the settings that are in force for the command, and
\* doubts what it cannot read: what it rewrites, no Bash rule governs.
THEOREM GuardSeesAll ==
  ASSUME NEW scene
  PROVE  NeverMasks(scene)
<1> SUFFICES ASSUME Rewrites(scene), Governed(scene) PROVE FALSE
  BY DEF NeverMasks
<1>1. PICK s \in InForce(scene) : GovernsBash(SettingsIn(scene, s))
  BY DEF Governed
<1>2. s \in Sources(scene)
  BY DEF InForce, Sources, Rewrites, Doubt
<1>3. PICK settings : settings = SettingsIn(scene, s)
  OBVIOUS
<1>4. ~FromFile(settings).doubt /\ FromFile(settings).bodies \subseteq Bodies(scene)
  BY <1>2, <1>3 DEF Rewrites, Doubt, Bodies
<1>5. settings.state \notin {"unreadable", "garbled"}
  BY <1>4 DEF FromFile
<1>6. PICK k \in DOMAIN settings.rules : settings.rules[k] \cap BashEntries # {}
  BY <1>1, <1>3, <1>5 DEF GovernsBash
<1>7. PICK e \in settings.rules[k] : e \in BashEntries
  BY <1>6
<1>8. Body(e) \in FromEntries(settings.rules[k]).bodies
  BY <1>7 DEF FromEntries
<1>9. Body(e) \in FromFile(settings).bodies
  BY <1>6, <1>8 DEF FromFile
<1> QED
  BY <1>4, <1>9 DEF Rewrites, HasAnyBashRule

-----------------------------------------------------------------------------
Phases ==
  {"idle", "live", "captured", "filter", "decide", "ready", "wrote", "cat",
   "post", "note", "hook", "done", "killed"}
Pieces == [form : {"raw", "compressed", "twice"}, lines : Nat]
Faults == {"none", "late signal", "unread", "died after writing"}

Runs ==
  [phase : Phases, text : Texts, printed : 0..OutputLines, shown : Seq(Pieces),
   out : {"raw", "compressed"}, masked : BOOLEAN, fault : Faults, born : Nat, first : Nat]
Projects ==
  [invocations : Nat, originals : SUBSET Commands, epoch : Nat, notes : SUBSET (Nat \X Commands)]

Whole(form, n) == IF n = 0 THEN <<>> ELSE <<Piece(form, n)>>

\* A compression may be shown while its original is in the store, or once the store
\* has been purged since the command began.
Backed(c, r, p) == c \in p.originals \/ r.born < p.epoch

\* What has been shown of a command, wherever it is.
Shows(c, r, p) ==
  /\ r.phase \in {"live", "killed"} => r.shown = Whole("raw", r.printed)
  /\ r.phase \in {"captured", "filter", "decide", "ready", "cat"} => r.shown = <<>>
  /\ r.phase = "wrote" => r.shown = <<Piece(r.out, OutputLines)>>
  /\ r.phase \in {"filter", "decide", "ready", "wrote", "cat", "post", "note", "hook", "done"} =>
       r.printed = OutputLines
  /\ r.phase \in {"ready", "wrote"} /\ r.out = "compressed" => Backed(c, r, p)
  /\ r.phase \in {"post", "note", "hook", "done"} =>
       \E form \in {"raw", "compressed"} :
         /\ r.shown = <<Piece(form, OutputLines)>>
         /\ form = "compressed" => Backed(c, r, p)

Fit(c, r, p) ==
  /\ r \in Runs /\ ~r.masked /\ r.born <= p.epoch
  /\ r.phase \in {"captured", "filter", "decide"} => r.out = "raw"
  /\ r.fault = "none" => Shows(c, r, p)

RunsFit ==
  /\ command \in [Commands -> Runs] /\ project \in Projects
  /\ \A c \in Commands : Fit(c, command[c], project)

\* The notes given and those about to be given.
Noting ==
  project.notes \cup {<<command[c].first, c>> : c \in {d \in Commands : command[d].phase = "note"}}

NotesFit ==
  /\ \A m, n \in Noting : m[1] = n[1] => m = n
  /\ \A m \in Noting : m[1] <= project.epoch /\ (m[1] = project.epoch => project.invocations > 0)

PipeInv == RunsFit /\ NotesFit

-----------------------------------------------------------------------------
\* What holds of a command outlasts what happens to the project's store.
LEMMA FitLasts ==
  ASSUME NEW c, NEW r, NEW p \in Projects, NEW q \in Projects, Fit(c, r, p),
         p.epoch <= q.epoch,
         p.epoch = q.epoch => p.originals \subseteq q.originals
  PROVE  Fit(c, r, q)
<1>1. r.born \in Nat /\ p.epoch \in Nat /\ q.epoch \in Nat
  BY DEF Fit, Runs, Projects
<1>2. Backed(c, r, p) => Backed(c, r, q)
  BY <1>1 DEF Backed, Fit
<1>3. Shows(c, r, p) => Shows(c, r, q)
  BY <1>2 DEF Shows
<1> QED
  BY <1>1, <1>3 DEF Fit

\* A step of a command keeps the others as they fit.
LEMMA OthersFit ==
  ASSUME RunsFit, NEW c \in Commands, NEW r, command' = [command EXCEPT ![c] = r],
         project' \in Projects, project'.epoch = project.epoch,
         project.originals \subseteq project'.originals,
         Fit(c, r, project')
  PROVE  RunsFit' /\ command'[c] = r /\ \A d \in Commands \ {c} : command'[d] = command[d]
<1>1. r \in Runs
  BY DEF Fit
<1>2. command' \in [Commands -> Runs] /\ command'[c] = r
      /\ \A d \in Commands \ {c} : command'[d] = command[d]
  BY <1>1 DEF RunsFit
<1>3. project.epoch \in Nat /\ project \in Projects
  BY DEF RunsFit, Projects
<1>4. ASSUME NEW d \in Commands
      PROVE  Fit(d, command'[d], project')
  <2>1. CASE d = c
    BY <1>2, <2>1
  <2>2. CASE d # c
    <3>1. Fit(d, command[d], project) /\ command'[d] = command[d]
      BY <1>2, <2>2 DEF RunsFit
    <3>2. project.epoch <= project'.epoch
      BY <1>3
    <3> QED
      BY <1>3, <3>1, <3>2, FitLasts
  <2> QED
    BY <2>1, <2>2
<1> QED
  BY <1>2, <1>4 DEF RunsFit

\* A command's own step, that leaves the store alone and gives no note.
LEMMA QuietStep ==
  ASSUME PipeInv, NEW c \in Commands, NEW r, command' = [command EXCEPT ![c] = r],
         UNCHANGED project, Fit(c, r, project), r.phase # "note"
  PROVE  PipeInv'
<1>1. RunsFit /\ NotesFit /\ project \in Projects
  BY DEF PipeInv, RunsFit
<1>2. RunsFit' /\ command'[c] = r /\ \A d \in Commands \ {c} : command'[d] = command[d]
  <2>1. project' \in Projects /\ project'.epoch = project.epoch
        /\ project.originals \subseteq project'.originals /\ Fit(c, r, project')
    BY <1>1
  <2> QED
    BY <1>1, <2>1, OthersFit
<1>3. Noting' \subseteq Noting
  BY <1>2 DEF Noting
<1>4. NotesFit'
  BY <1>1, <1>3 DEF NotesFit
<1> QED
  BY <1>2, <1>4 DEF PipeInv

LEMMA PipeInvAtFirst == OutputLines \in Nat \ {0} /\ PipeInit => PipeInv
<1> SUFFICES ASSUME OutputLines \in Nat \ {0}, PipeInit PROVE PipeInv
  OBVIOUS
<1> DEFINE p0 == [invocations |-> 0, originals |-> {}, epoch |-> 0, notes |-> {}]
<1>1. p0 \in Projects /\ project = p0
  BY DEF Projects, PipeInit
<1>2. New \in Runs
  BY DEF New, Runs, Phases, Faults, Texts
<1>3. ASSUME NEW c \in Commands
      PROVE  Fit(c, New, p0)
  BY <1>2 DEF Fit, Shows, New
<1>4. RunsFit
  BY <1>1, <1>2, <1>3 DEF RunsFit, PipeInit
<1>5. Noting = {}
  BY <1>1 DEF Noting, PipeInit, New
<1> QED
  BY <1>4, <1>5 DEF PipeInv, NotesFit

LEMMA PipeStep ==
  ASSUME OutputLines \in Nat \ {0}, PipeInv, NEW c \in Commands, CommandStep(c)
  PROVE  PipeInv'
<1>1. RunsFit /\ NotesFit /\ project \in Projects /\ command[c] \in Runs
      /\ Fit(c, command[c], project)
  BY DEF PipeInv, RunsFit
<1>2. PICK r : r = command[c]
  OBVIOUS
<1>3. r \in Runs /\ Fit(c, r, project) /\ project.epoch \in Nat
  BY <1>1, <1>2 DEF Projects
<1>4. CASE PreTool(c)
  <2>1. PICK scene \in Scenes, text \in Texts, disabled \in BOOLEAN, made \in BOOLEAN :
          command' = [command EXCEPT ![c] =
            [New EXCEPT !.phase = IF (~disabled /\ Rewrites(scene)) /\ made THEN "captured" ELSE "live",
                             !.text = text,
                             !.masked = (~disabled /\ Rewrites(scene)) /\ Governed(scene),
                             !.born = project.epoch]]
    BY <1>4 DEF PreTool, Becomes
  <2>2. ~((~disabled /\ Rewrites(scene)) /\ Governed(scene))
    BY GuardSeesAll DEF NeverMasks
  <2>3. PICK phase \in {"captured", "live"} :
          phase = IF (~disabled /\ Rewrites(scene)) /\ made THEN "captured" ELSE "live"
    OBVIOUS
  <2> DEFINE q == [New EXCEPT !.phase = phase, !.text = text, !.masked = FALSE, !.born = project.epoch]
  <2>4. command' = [command EXCEPT ![c] = q]
    BY <2>1, <2>2, <2>3
  <2>5. q \in Runs
    <3>1. New \in Runs
      BY DEF New, Runs, Phases, Faults, Texts
    <3>2. PICK n \in Runs : n = New
      BY <3>1
    <3> QED
      BY <1>3, <2>3, <3>2 DEF Runs, Phases
  <2>6. Fit(c, q, project) /\ q.phase # "note"
    BY <1>3, <2>3, <2>5 DEF Fit, Shows, Whole, New
  <2> HIDE DEF q
  <2> QED
    BY <1>4, <2>4, <2>6, QuietStep DEF PreTool
<1>5. CASE Prints(c)
  <2> DEFINE q == [r EXCEPT !.printed = r.printed + 1,
                            !.shown = IF r.phase = "live" THEN <<Piece("raw", r.printed + 1)>> ELSE r.shown]
  <2>1. r.phase \in {"live", "captured"} /\ r.printed < OutputLines /\ command' = [command EXCEPT ![c] = q]
    BY <1>2, <1>5 DEF Prints, Is, Becomes
  <2>2. r.printed \in Nat /\ r.printed + 1 \in 0..OutputLines /\ r.printed + 1 \in Nat /\ r.printed + 1 # 0
    BY <1>3, <2>1 DEF Runs
  <2>3. Piece("raw", r.printed + 1) \in Pieces
    BY <2>2 DEF Piece, Pieces
  <2>4. q \in Runs
    <3>1. <<Piece("raw", r.printed + 1)>> \in Seq(Pieces) /\ r.shown \in Seq(Pieces)
      BY <1>3, <2>3 DEF Runs
    <3>2. PICK shown \in Seq(Pieces) :
            shown = IF r.phase = "live" THEN <<Piece("raw", r.printed + 1)>> ELSE r.shown
      BY <3>1
    <3>3. PICK n \in 0..OutputLines : n = r.printed + 1
      BY <2>2
    <3> QED
      BY <1>3, <3>2, <3>3 DEF Runs
  <2>5. Fit(c, q, project) /\ q.phase # "note"
    BY <1>3, <2>1, <2>2, <2>4 DEF Fit, Shows, Whole, Runs
  <2> HIDE DEF q
  <2> QED
    BY <1>5, <2>1, <2>5, QuietStep DEF Prints
<1>6. CASE Ends(c)
  <2> DEFINE q == [r EXCEPT !.phase = IF r.phase = "live" THEN "post" ELSE "filter"]
  <2>1. r.phase \in {"live", "captured"} /\ r.printed = OutputLines /\ command' = [command EXCEPT ![c] = q]
    BY <1>2, <1>6 DEF Ends, Is, Reaches, Becomes
  <2>2. q \in Runs
    BY <1>3 DEF Runs, Phases, Faults
  <2>3. Fit(c, q, project) /\ q.phase # "note"
    BY <1>3, <2>1, <2>2 DEF Fit, Shows, Whole, Runs
  <2> HIDE DEF q
  <2> QED
    BY <1>6, <2>1, <2>3, QuietStep DEF Ends
<1>7. CASE Signal(c)
  <2>1. CASE r.phase = "captured"
    <3> DEFINE q == [r EXCEPT !.phase = "killed", !.shown = Shown(r, "raw", r.printed)]
    <3>1. command' = [command EXCEPT ![c] = q]
      BY <1>2, <1>7, <2>1 DEF Signal, Is, Becomes, Flush
    <3>2. r.printed \in Nat /\ Piece("raw", r.printed) \in Pieces
      BY <1>3 DEF Runs, Piece, Pieces
    <3>3. r.shown \in Seq(Pieces) /\ Shown(r, "raw", r.printed) \in Seq(Pieces)
      BY <1>3, <3>2 DEF Runs, Shown
    <3>4. q \in Runs
      BY <1>3, <3>3 DEF Runs, Phases, Faults
    <3>5. r.shown = <<>> => Shown(r, "raw", r.printed) = Whole("raw", r.printed)
      BY <3>2 DEF Shown, Whole
    <3>6. Fit(c, q, project) /\ q.phase # "note"
      BY <1>3, <2>1, <3>4, <3>5 DEF Fit, Shows, Runs
    <3> HIDE DEF q
    <3> QED
      BY <1>7, <3>1, <3>6, QuietStep DEF Signal
  <2>2. CASE r.phase = "live"
    <3> DEFINE q == [r EXCEPT !.phase = "killed"]
    <3>1. command' = [command EXCEPT ![c] = q]
      BY <1>2, <1>7, <2>2 DEF Signal, Is, Becomes
    <3>2. q \in Runs
      BY <1>3 DEF Runs, Phases, Faults
    <3>3. Fit(c, q, project) /\ q.phase # "note"
      BY <1>3, <2>2, <3>2 DEF Fit, Shows, Runs
    <3> HIDE DEF q
    <3> QED
      BY <1>7, <3>1, <3>3, QuietStep DEF Signal
  <2>3. CASE r.phase \notin {"captured", "live"}
    <3> DEFINE q == [r EXCEPT !.phase = "killed", !.fault = "late signal"]
    <3>1. command' = [command EXCEPT ![c] = q]
      BY <1>2, <1>7, <2>3 DEF Signal, Is, Becomes
    <3>2. q \in Runs
      BY <1>3 DEF Runs, Phases, Faults
    <3>3. Fit(c, q, project) /\ q.phase # "note"
      BY <1>3, <3>2 DEF Fit, Runs
    <3> HIDE DEF q
    <3> QED
      BY <1>7, <3>1, <3>3, QuietStep DEF Signal
  <2> QED
    BY <2>1, <2>2, <2>3
<1>8. CASE FilterStarts(c)
  <2>1. r.phase = "filter"
    BY <1>2, <1>8 DEF FilterStarts, Is
  <2>2. ASSUME NEW phase \in {"cat", "ready", "decide"},
               command' = [command EXCEPT ![c] = [r EXCEPT !.phase = phase]]
        PROVE  PipeInv'
    <3> DEFINE q == [r EXCEPT !.phase = phase]
    <3>1. q \in Runs
      BY <1>3 DEF Runs, Phases, Faults
    <3>2. Fit(c, q, project) /\ q.phase # "note"
      BY <1>3, <2>1, <3>1 DEF Fit, Shows, Runs
    <3> HIDE DEF q
    <3> QED
      BY <1>8, <2>2, <3>2, QuietStep DEF FilterStarts, q
  <2>3. CASE command' = [command EXCEPT ![c] = [r EXCEPT !.phase = "post", !.fault = "unread"]]
    <3> DEFINE q == [r EXCEPT !.phase = "post", !.fault = "unread"]
    <3>1. q \in Runs
      BY <1>3 DEF Runs, Phases, Faults
    <3>2. Fit(c, q, project) /\ q.phase # "note"
      BY <1>3, <3>1 DEF Fit, Runs
    <3> HIDE DEF q
    <3> QED
      BY <1>8, <2>3, <3>2, QuietStep DEF FilterStarts, q
  <2> QED
    BY <1>2, <1>8, <2>2, <2>3 DEF FilterStarts, Reaches, Becomes
<1>9. CASE Decides(c)
  <2>1. r.phase = "decide"
    BY <1>2, <1>9 DEF Decides, Is
  <2>2. CASE command' = [command EXCEPT ![c] = [r EXCEPT !.phase = "ready"]] /\ UNCHANGED project
    <3> DEFINE q == [r EXCEPT !.phase = "ready"]
    <3>1. q \in Runs
      BY <1>3 DEF Runs, Phases, Faults
    <3>2. Fit(c, q, project) /\ q.phase # "note"
      BY <1>3, <2>1, <3>1 DEF Fit, Shows, Runs
    <3> HIDE DEF q
    <3> QED
      BY <2>2, <3>2, QuietStep DEF q
  <2>3. CASE /\ command' = [command EXCEPT ![c] = [r EXCEPT !.phase = "ready", !.out = "compressed"]]
             /\ project' = [project EXCEPT !.originals = project.originals \cup {c}]
    <3> DEFINE q == [r EXCEPT !.phase = "ready", !.out = "compressed"]
    <3>1. q \in Runs /\ q.phase # "note"
      BY <1>3 DEF Runs, Phases, Faults
    <3>2. /\ project' \in Projects /\ project'.epoch = project.epoch
          /\ project'.originals = project.originals \cup {c}
          /\ project'.notes = project.notes /\ project'.invocations = project.invocations
      BY <1>1, <2>3 DEF Projects
    <3>3. Fit(c, q, project')
      BY <1>3, <2>1, <3>1, <3>2 DEF Fit, Shows, Backed, Runs
    <3> HIDE DEF q
    <3>4. RunsFit' /\ command'[c] = q /\ \A d \in Commands \ {c} : command'[d] = command[d]
      BY <1>1, <2>3, <3>2, <3>3, OthersFit DEF q
    <3>5. Noting' \subseteq Noting
      BY <3>1, <3>2, <3>4 DEF Noting
    <3>6. NotesFit'
      BY <1>1, <3>2, <3>5 DEF NotesFit
    <3> QED
      BY <3>4, <3>6 DEF PipeInv
  <2> QED
    BY <1>2, <1>9, <2>2, <2>3 DEF Decides, Reaches, Becomes, Kept
<1>10. CASE Writes(c)
  <2> DEFINE q == [r EXCEPT !.phase = "wrote", !.shown = Shown(r, r.out, r.printed)]
  <2>1. r.phase = "ready" /\ command' = [command EXCEPT ![c] = q] /\ UNCHANGED project
    BY <1>2, <1>10 DEF Writes, Is, Showing, Becomes
  <2>2. r.printed \in Nat /\ Piece(r.out, r.printed) \in Pieces /\ r.shown \in Seq(Pieces)
    BY <1>3 DEF Runs, Piece, Pieces
  <2>3. Shown(r, r.out, r.printed) \in Seq(Pieces)
    BY <2>2 DEF Shown
  <2>4. q \in Runs
    BY <1>3, <2>3 DEF Runs, Phases, Faults
  <2>5. r.fault = "none" => Shown(r, r.out, r.printed) = <<Piece(r.out, OutputLines)>>
    <3>1. r.fault = "none" => r.printed = OutputLines /\ r.shown = <<>>
      BY <1>3, <2>1 DEF Fit, Shows
    <3>2. \A p : Append(<<>>, p) = <<p>>
      OBVIOUS
    <3> QED
      BY <3>1, <3>2 DEF Shown
  <2>6. Fit(c, q, project) /\ q.phase # "note"
    BY <1>3, <2>1, <2>4, <2>5 DEF Fit, Shows, Backed, Runs
  <2> HIDE DEF q
  <2> QED
    BY <2>1, <2>6, QuietStep
<1>11. CASE Exits(c)
  <2> DEFINE q == [r EXCEPT !.phase = "post"]
  <2>1. r.phase = "wrote" /\ command' = [command EXCEPT ![c] = q] /\ UNCHANGED project
    BY <1>2, <1>11 DEF Exits, Is, Reaches, Becomes
  <2>2. q \in Runs /\ r.out \in {"raw", "compressed"}
    BY <1>3 DEF Runs, Phases, Faults
  <2>3. Fit(c, q, project) /\ q.phase # "note"
    BY <1>3, <2>1, <2>2 DEF Fit, Shows, Backed, Runs
  <2> HIDE DEF q
  <2> QED
    BY <2>1, <2>3, QuietStep
<1>12. CASE Dies(c)
  <2> DEFINE q == [r EXCEPT !.phase = "cat",
                            !.fault = IF r.phase = "wrote" THEN "died after writing" ELSE r.fault]
  <2>1. r.phase \in {"decide", "ready", "wrote"} /\ command' = [command EXCEPT ![c] = q] /\ UNCHANGED project
    BY <1>2, <1>12 DEF Dies, Is, Becomes
  <2>2. q \in Runs
    BY <1>3 DEF Runs, Phases, Faults
  <2>3. Fit(c, q, project) /\ q.phase # "note"
    BY <1>3, <2>1, <2>2 DEF Fit, Shows, Runs
  <2> HIDE DEF q
  <2> QED
    BY <2>1, <2>3, QuietStep
<1>13. CASE Cat(c)
  <2> DEFINE q == [r EXCEPT !.phase = "post", !.shown = Shown(r, "raw", r.printed)]
  <2>1. r.phase = "cat" /\ command' = [command EXCEPT ![c] = q] /\ UNCHANGED project
    BY <1>2, <1>13 DEF Cat, Is, Showing, Becomes
  <2>2. r.printed \in Nat /\ Piece("raw", r.printed) \in Pieces /\ r.shown \in Seq(Pieces)
    BY <1>3 DEF Runs, Piece, Pieces
  <2>3. Shown(r, "raw", r.printed) \in Seq(Pieces)
    BY <2>2 DEF Shown
  <2>4. q \in Runs
    BY <1>3, <2>3 DEF Runs, Phases, Faults
  <2>5. r.fault = "none" => Shown(r, "raw", r.printed) = <<Piece("raw", OutputLines)>>
    <3>1. r.fault = "none" => r.printed = OutputLines /\ r.shown = <<>>
      BY <1>3, <2>1 DEF Fit, Shows
    <3>2. \A p : Append(<<>>, p) = <<p>>
      OBVIOUS
    <3> QED
      BY <3>1, <3>2 DEF Shown
  <2>6. Fit(c, q, project) /\ q.phase # "note"
    BY <1>3, <2>1, <2>4, <2>5 DEF Fit, Shows, Runs
  <2> HIDE DEF q
  <2> QED
    BY <2>1, <2>6, QuietStep
<1>14. CASE Invoked(c)
  <2>1. PICK landed \in BOOLEAN :
          /\ project' = Increment(landed).file
          /\ command' = [command EXCEPT ![c] =
               [r EXCEPT !.phase = IF Increment(landed).value = 1 THEN "note" ELSE "hook",
                         !.first = project.epoch]]
    BY <1>2, <1>14 DEF Invoked, Becomes
  <2>2. r.phase = "post"
    BY <1>2, <1>14 DEF Invoked, Is
  <2>3. project.invocations \in Nat
    BY <1>1 DEF Projects
  <2>4. PICK phase \in {"note", "hook"} :
          phase = IF Increment(landed).value = 1 THEN "note" ELSE "hook"
    OBVIOUS
  <2> DEFINE q == [r EXCEPT !.phase = phase, !.first = project.epoch]
  <2>5. command' = [command EXCEPT ![c] = q]
    BY <2>1, <2>4
  <2>6. q \in Runs /\ q.phase = phase /\ q.first = project.epoch
    BY <1>3 DEF Runs, Phases, Faults
  <2>7. /\ project' \in Projects /\ project'.epoch = project.epoch
        /\ project'.originals = project.originals /\ project'.notes = project.notes
        /\ project'.invocations \in {project.invocations, project.invocations + 1}
        /\ phase = "note" => project.invocations = 0 /\ project'.invocations = 1
    BY <1>1, <2>1, <2>3, <2>4 DEF Projects, Increment
  <2>8. Fit(c, q, project)
    BY <1>3, <2>2, <2>6 DEF Fit, Shows, Backed, Runs
  <2>9. Fit(c, q, project')
    <3>1. project.epoch <= project'.epoch /\ project.originals \subseteq project'.originals
      BY <1>3, <2>7
    <3> HIDE DEF q
    <3> QED
      BY <1>1, <2>7, <2>8, <3>1, FitLasts
  <2> HIDE DEF q
  <2>10. RunsFit' /\ command'[c] = q /\ \A d \in Commands \ {c} : command'[d] = command[d]
    <3>1. project.originals \subseteq project'.originals
      BY <2>7
    <3> QED
      BY <1>1, <2>5, <2>7, <2>9, <3>1, OthersFit
  <2>11. Noting' \subseteq Noting \cup (IF phase = "note" THEN {<<project.epoch, c>>} ELSE {})
    BY <2>6, <2>7, <2>10 DEF Noting
  <2>12. phase = "note" => \A m \in Noting : m[1] # project.epoch
    BY <1>1, <2>7 DEF NotesFit
  <2>13. NotesFit'
    <3>1. \A m \in Noting' : \/ m \in Noting
                             \/ phase = "note" /\ m = <<project.epoch, c>>
      BY <2>11
    <3>2. \A m, n \in Noting' : m[1] = n[1] => m = n
      <4> SUFFICES ASSUME NEW m \in Noting', NEW n \in Noting', m[1] = n[1] PROVE m = n
        OBVIOUS
      <4>1. m \in Noting /\ n \in Noting => m = n
        BY <1>1 DEF NotesFit
      <4> QED
        BY <2>12, <3>1, <4>1
    <3>3. \A m \in Noting' : m[1] <= project'.epoch /\ (m[1] = project'.epoch => project'.invocations > 0)
      <4> SUFFICES ASSUME NEW m \in Noting'
                   PROVE  m[1] <= project'.epoch /\ (m[1] = project'.epoch => project'.invocations > 0)
        OBVIOUS
      <4>1. CASE m \in Noting
        BY <1>1, <2>3, <2>7, <4>1 DEF NotesFit
      <4>2. CASE phase = "note" /\ m = <<project.epoch, c>>
        BY <1>3, <2>7, <4>2
      <4> QED
        BY <3>1, <4>1, <4>2
    <3> QED
      BY <3>2, <3>3 DEF NotesFit
  <2> QED
    BY <2>10, <2>13 DEF PipeInv
<1>15. CASE Note(c)
  <2> DEFINE q == [r EXCEPT !.phase = "hook"]
  <2>1. /\ r.phase = "note" /\ command' = [command EXCEPT ![c] = q]
        /\ project' = [project EXCEPT !.notes = project.notes \cup {<<r.first, c>>}]
    BY <1>2, <1>15 DEF Note, Is, Reaches, Becomes
  <2>2. q \in Runs /\ q.phase = "hook" /\ r.first \in Nat
    BY <1>3 DEF Runs, Phases, Faults
  <2>3. /\ project' \in Projects /\ project'.epoch = project.epoch
        /\ project'.originals = project.originals /\ project'.invocations = project.invocations
        /\ project'.notes = project.notes \cup {<<r.first, c>>}
    BY <1>1, <2>1, <2>2 DEF Projects
  <2>4. Fit(c, q, project)
    BY <1>3, <2>1, <2>2 DEF Fit, Shows, Backed, Runs
  <2> HIDE DEF q
  <2>5. Fit(c, q, project')
    <3>1. project.epoch <= project'.epoch /\ project.originals \subseteq project'.originals
      BY <1>3, <2>3
    <3> QED
      BY <1>1, <2>3, <2>4, <3>1, FitLasts
  <2>6. RunsFit' /\ command'[c] = q /\ \A d \in Commands \ {c} : command'[d] = command[d]
    <3>1. project.originals \subseteq project'.originals
      BY <2>3
    <3> QED
      BY <1>1, <2>1, <2>3, <2>5, <3>1, OthersFit
  <2>7. <<r.first, c>> \in Noting
    BY <1>2, <2>1 DEF Noting
  <2>8. Noting' \subseteq Noting
    BY <2>2, <2>3, <2>6, <2>7 DEF Noting
  <2>9. NotesFit'
    BY <1>1, <2>3, <2>8 DEF NotesFit
  <2> QED
    BY <2>6, <2>9 DEF PipeInv
<1>16. CASE HookDecides(c)
  <2>1. r.phase = "hook"
    BY <1>2, <1>16 DEF HookDecides, Is
  <2>2. CASE command' = [command EXCEPT ![c] = [r EXCEPT !.phase = "done"]] /\ UNCHANGED project
    <3> DEFINE q == [r EXCEPT !.phase = "done"]
    <3>1. q \in Runs
      BY <1>3 DEF Runs, Phases, Faults
    <3>2. Fit(c, q, project) /\ q.phase # "note"
      BY <1>3, <2>1, <3>1 DEF Fit, Shows, Backed, Runs
    <3> HIDE DEF q
    <3> QED
      BY <2>2, <3>2, QuietStep DEF q
  <2>3. CASE ~(command' = [command EXCEPT ![c] = [r EXCEPT !.phase = "done"]] /\ UNCHANGED project)
    <3>1. /\ ~Marked(c) /\ r.shown # <<>>
          /\ project' = [project EXCEPT !.originals = project.originals \cup {c}]
      BY <1>2, <1>16, <2>3 DEF HookDecides, Reaches, Becomes, Kept
    <3>2. PICK honored \in BOOLEAN :
            command' = [command EXCEPT ![c] = [r EXCEPT !.phase = "done",
              !.shown = IF honored
                        THEN <<Piece(IF r.shown[1].form = "raw" THEN "compressed" ELSE "twice", r.printed)>>
                        ELSE r.shown]]
      BY <1>2, <1>16, <2>3 DEF HookDecides, Reaches, Becomes, Kept
    <3>3. PICK shown : shown = IF honored
                        THEN <<Piece(IF r.shown[1].form = "raw" THEN "compressed" ELSE "twice", r.printed)>>
                        ELSE r.shown
      OBVIOUS
    <3>4. r.printed \in Nat /\ r.shown \in Seq(Pieces)
      BY <1>3 DEF Runs
    <3>5. shown \in Seq(Pieces)
      <4>1. PICK form \in {"compressed", "twice"} :
              form = IF r.shown[1].form = "raw" THEN "compressed" ELSE "twice"
        OBVIOUS
      <4>2. Piece(form, r.printed) \in Pieces
        BY <3>4 DEF Piece, Pieces
      <4> QED
        BY <3>3, <3>4, <4>1, <4>2
    <3> DEFINE q == [r EXCEPT !.phase = "done", !.shown = shown]
    <3>6. q \in Runs /\ q.phase = "done" /\ command' = [command EXCEPT ![c] = q]
      BY <1>3, <3>2, <3>3, <3>5 DEF Runs, Phases, Faults
    <3>7. /\ project' \in Projects /\ project'.epoch = project.epoch
          /\ project'.originals = project.originals \cup {c}
          /\ project'.notes = project.notes /\ project'.invocations = project.invocations
      BY <1>1, <3>1 DEF Projects
    <3>8. Backed(c, q, project')
      BY <3>7 DEF Backed
    <3>9. r.fault = "none" =>
            /\ r.printed = OutputLines
            /\ \E form \in {"raw", "compressed"} : shown = <<Piece(form, OutputLines)>>
      <4> SUFFICES ASSUME r.fault = "none"
                   PROVE  /\ r.printed = OutputLines
                          /\ \E form \in {"raw", "compressed"} : shown = <<Piece(form, OutputLines)>>
        OBVIOUS
      <4>1. r.printed = OutputLines /\ \E form \in {"raw", "compressed"} : r.shown = <<Piece(form, OutputLines)>>
        BY <1>3, <2>1 DEF Fit, Shows
      <4>2. PICK form \in {"raw", "compressed"} : r.shown = <<Piece(form, OutputLines)>>
        BY <4>1
      <4>3. r.shown[1].form = form
        BY <4>2 DEF Piece
      <4>4. CASE honored /\ form = "raw"
        BY <3>3, <4>1, <4>3, <4>4
      <4>5. CASE ~honored
        BY <3>3, <4>1, <4>2, <4>5
      <4>6. form # "compressed"
        BY <1>2, <3>1, <4>2, <4>3 DEF Marked, ToSet
      <4> QED
        BY <4>4, <4>5, <4>6
    <3>10. Fit(c, q, project')
      BY <1>3, <3>6, <3>7, <3>8, <3>9 DEF Fit, Shows, Runs
    <3> HIDE DEF q
    <3>11. RunsFit' /\ command'[c] = q /\ \A d \in Commands \ {c} : command'[d] = command[d]
      <4>1. project.originals \subseteq project'.originals
        BY <3>7
      <4> QED
        BY <1>1, <3>6, <3>7, <3>10, <4>1, OthersFit
    <3>12. Noting' \subseteq Noting
      BY <3>6, <3>7, <3>11 DEF Noting
    <3>13. NotesFit'
      BY <1>1, <3>7, <3>12 DEF NotesFit
    <3> QED
      BY <3>11, <3>13 DEF PipeInv
  <2> QED
    BY <2>2, <2>3
<1> QED
  BY <1>4, <1>5, <1>6, <1>7, <1>8, <1>9, <1>10, <1>11, <1>12, <1>13, <1>14, <1>15, <1>16 DEF CommandStep

LEMMA CommandsKeepPipeInv == OutputLines \in Nat \ {0} /\ PipeInv /\ [PipeNext]_pipeVars => PipeInv'
<1> SUFFICES ASSUME OutputLines \in Nat \ {0}, PipeInv, [PipeNext]_pipeVars PROVE PipeInv'
  OBVIOUS
<1>1. CASE \E c \in Commands : CommandStep(c)
  BY <1>1, PipeStep
<1>2. CASE EmptyStore
  <2>1. /\ command' = command /\ RunsFit /\ NotesFit /\ project \in Projects
        /\ project' = [project EXCEPT !.invocations = 0, !.originals = {}, !.epoch = project.epoch + 1]
    BY <1>2 DEF EmptyStore, PipeInv, RunsFit
  <2>2. /\ project' \in Projects /\ project'.epoch = project.epoch + 1 /\ project.epoch \in Nat
        /\ project'.notes = project.notes
    <3>1. PICK n \in Nat : n = project.epoch + 1
      BY <2>1 DEF Projects
    <3> QED
      BY <2>1, <3>1 DEF Projects
  <2>3. ASSUME NEW c \in Commands
        PROVE  Fit(c, command[c], project')
    <3>1. Fit(c, command[c], project) /\ project.epoch <= project'.epoch /\ project.epoch # project'.epoch
      BY <2>1, <2>2 DEF RunsFit
    <3> QED
      BY <2>1, <2>2, <3>1, FitLasts
  <2>4. RunsFit'
    BY <2>1, <2>2, <2>3 DEF RunsFit
  <2>5. Noting' = Noting
    BY <2>1, <2>2 DEF Noting
  <2>6. \A m \in Noting : m[1] \in Nat
    BY <2>1 DEF Noting, RunsFit, Projects, Runs
  <2>7. NotesFit'
    BY <2>1, <2>2, <2>5, <2>6 DEF NotesFit
  <2> QED
    BY <2>4, <2>7 DEF PipeInv
<1>3. CASE UNCHANGED pipeVars
  <2>1. command' = command /\ project' = project
    BY <1>3 DEF pipeVars
  <2> QED
    BY <2>1 DEF PipeInv, RunsFit, NotesFit, Noting
<1> QED
  BY <1>1, <1>2, <1>3 DEF PipeNext

\* Whatever the filter does and whenever a signal or a purge comes, each command's
\* output reaches the model whole and once -- but after the three failures that
\* Delivered excepts --, no rule of the host is masked, and between two purges one
\* command at most is told that it is the first.
THEOREM OutputReachesTheModel ==
  PipeSpec => [](HooksHold /\ \A scene : NeverMasks(scene))
<1>1. PipeInv => HooksHold /\ \A scene : NeverMasks(scene)
  <2> SUFFICES ASSUME PipeInv PROVE HooksHold
    BY GuardSeesAll
  <2>1. ASSUME NEW c \in Commands
        PROVE  Delivered(c) /\ ~command[c].masked
    <3>1. PICK r : r = command[c]
      OBVIOUS
    <3>2. Fit(c, r, project)
      BY <3>1 DEF PipeInv, RunsFit
    <3>3. r.fault = "none" /\ r.phase = "done" =>
            /\ Len(r.shown) = 1 /\ r.shown[1].lines = OutputLines
            /\ r.shown[1].form \in {"raw", "compressed"}
            /\ r.shown[1].form = "compressed" => c \in project.originals \/ r.born < project.epoch
      <4> SUFFICES ASSUME r.fault = "none", r.phase = "done"
                   PROVE  /\ Len(r.shown) = 1 /\ r.shown[1].lines = OutputLines
                          /\ r.shown[1].form \in {"raw", "compressed"}
                          /\ r.shown[1].form = "compressed" => c \in project.originals \/ r.born < project.epoch
        OBVIOUS
      <4>1. PICK form \in {"raw", "compressed"} :
              /\ r.shown = <<Piece(form, OutputLines)>>
              /\ form = "compressed" => Backed(c, r, project)
        BY <3>2 DEF Fit, Shows
      <4>2. Len(r.shown) = 1 /\ r.shown[1].form = form /\ r.shown[1].lines = OutputLines
        BY <4>1 DEF Piece
      <4> QED
        BY <4>1, <4>2 DEF Backed
    <3>4. r.fault = "none" /\ r.phase = "killed" =>
            r.shown = IF r.printed = 0 THEN <<>> ELSE <<Piece("raw", r.printed)>>
      BY <3>2 DEF Fit, Shows, Whole
    <3>5. Delivered(c)
      BY <3>1, <3>3, <3>4 DEF Delivered
    <3> QED
      BY <3>1, <3>2, <3>5 DEF Fit
  <2>2. NotedOnce
    BY DEF PipeInv, NotesFit, Noting, NotedOnce
  <2> QED
    BY <2>1, <2>2 DEF HooksHold
<1>2. PipeInit => PipeInv
  BY PipeAssumption, PipeInvAtFirst
<1>3. PipeInv /\ [PipeNext]_pipeVars => PipeInv'
  BY PipeAssumption, CommandsKeepPipeInv
<1> QED
  BY <1>1, <1>2, <1>3, PTL DEF PipeSpec
-----------------------------------------------------------------------------
(***************************************************************************)
(* The slices of a retrieval: RetrieveFilters, over any original, arguments  *)
(* and host.                                                                 *)
(***************************************************************************)
CONSTANTS MaxPatternChars, MaxLineChars, MaxQuantifiers, MaxContext, DefaultLimit

Slices == INSTANCE RetrieveFilters

\* What the types of JSON say of the arguments, and of the lines of an original.
IntegersAre(x) == x.type = "int" => x.v \in Int
ArgumentsTyped(args) ==
  /\ IntegersAre(Slices!Context(args))
  /\ \A k \in 1..2 : IntegersAre(Slices!Bound(args, k))
LinesTyped(lines) == \A i \in DOMAIN lines : lines[i].chars \in Nat
CapsTyped == MaxLineChars \in Nat /\ MaxContext \in Nat

\* The instance counts as this module does.
LEMMA SlicesCount == \A T : Slices!Cardinality(T) = Cardinality(T)
  BY DEF Slices!Cardinality, Cardinality

LEMMA MinOfTwo ==
  ASSUME NEW a \in Int, NEW b \in Int
  PROVE  Slices!Min({a, b}) = IF a <= b THEN a ELSE b
<1>1. PICK m : m = Slices!Min({a, b})
  OBVIOUS
<1>2. CASE a <= b
  <2>1. a \in {a, b} /\ \A y \in {a, b} : a <= y
    BY <1>2
  <2>2. m \in {a, b} /\ \A y \in {a, b} : m <= y
    BY <1>1, <2>1 DEF Slices!Min
  <2> QED
    BY <1>1, <1>2, <2>2
<1>3. CASE b < a
  <2>1. b \in {a, b} /\ \A y \in {a, b} : b <= y
    BY <1>3
  <2>2. m \in {a, b} /\ \A y \in {a, b} : m <= y
    BY <1>1, <2>1 DEF Slices!Min
  <2> QED
    BY <1>1, <1>3, <2>2
<1> QED
  BY <1>2, <1>3

\* A window is the lines within the bounds that were asked for.
LEMMA WindowIsAsked ==
  ASSUME NEW S, NEW lines \in Seq(S), NEW args, ArgumentsTyped(args), Slices!LineRangeOK(args)
  PROVE  Slices!Window(lines, Slices!Filters(args)) =
           {i \in DOMAIN lines :
              /\ ~Slices!IsNone(Slices!Bound(args, 1)) => i >= Slices!Bound(args, 1).v
              /\ ~Slices!IsNone(Slices!Bound(args, 2)) => i <= Slices!Bound(args, 2).v}
<1>1. PICK n \in Nat : n = Len(lines)
  OBVIOUS
<1>2. DOMAIN lines = 1..n
  BY <1>1
<1>3. PICK a : a = Slices!Bound(args, 1)
  OBVIOUS
<1>4. PICK b : b = Slices!Bound(args, 2)
  OBVIOUS
<1>5. ~Slices!IsNone(a) => a.v \in Int /\ a.v >= 1
  <2> SUFFICES ASSUME ~Slices!IsNone(a) PROVE a.v \in Int /\ a.v >= 1
    OBVIOUS
  <2>1. Slices!Present(args, "line_range")
    BY <1>3 DEF Slices!Bound, Slices!IsNone, Slices!None
  <2>2. Slices!IsInt(a) /\ a.v >= 1
    BY <1>3, <2>1 DEF Slices!LineRangeOK
  <2> QED
    BY <1>3, <2>2 DEF Slices!IsInt, ArgumentsTyped, IntegersAre
<1>6. ~Slices!IsNone(b) => b.v \in Int /\ b.v >= 1
  <2> SUFFICES ASSUME ~Slices!IsNone(b) PROVE b.v \in Int /\ b.v >= 1
    OBVIOUS
  <2>1. Slices!Present(args, "line_range")
    BY <1>4 DEF Slices!Bound, Slices!IsNone, Slices!None
  <2>2. Slices!IsInt(b) /\ b.v >= 1
    BY <1>4, <2>1 DEF Slices!LineRangeOK
  <2> QED
    BY <1>4, <2>2 DEF Slices!IsInt, ArgumentsTyped, IntegersAre
<1>7. PICK first : first = IF Slices!IsNone(a) THEN 1 ELSE a.v
  OBVIOUS
<1>8. PICK last : last = IF Slices!IsNone(b) THEN n ELSE b.v
  OBVIOUS
<1>9. first \in Int /\ first >= 1 /\ last \in Int
  BY <1>5, <1>6, <1>7, <1>8
<1>10. Slices!Filters(args).start = a /\ Slices!Filters(args).end = b
  BY <1>3, <1>4 DEF Slices!Filters
<1>11. Slices!Window(lines, Slices!Filters(args)) = first .. (IF last <= n THEN last ELSE n)
  <2>1. Slices!Min({last, n}) = IF last <= n THEN last ELSE n
    BY <1>9, MinOfTwo
  <2> QED
    BY <1>1, <1>7, <1>8, <1>10, <2>1 DEF Slices!Window
<1>12. \A i : i \in first .. (IF last <= n THEN last ELSE n) <=> i \in 1..n /\ i >= first /\ i <= last
  BY <1>9
<1>13. \A i \in 1..n : (i >= first <=> (~Slices!IsNone(a) => i >= a.v))
                       /\ (i <= last <=> (~Slices!IsNone(b) => i <= b.v))
  BY <1>5, <1>6, <1>7, <1>8
<1> QED
  BY <1>2, <1>3, <1>4, <1>11, <1>12, <1>13

\* No pattern that a filter carries runs without a bound.
LEMMA FiltersAreBounded ==
  ASSUME NEW host \in [re2 : BOOLEAN, main : BOOLEAN], NEW p
  PROVE  Slices!AlwaysBounded(host, p)
  BY DEF Slices!AlwaysBounded, Slices!Admitted, Slices!Refuses, Slices!Engine, Slices!Classify

\* What is found has the pattern; what has it and is not found says why.
LEMMA SearchIsTrue ==
  ASSUME NEW host \in [re2 : BOOLEAN, main : BOOLEAN], NEW p, NEW line, line.chars \in Nat, CapsTyped
  PROVE  /\ Slices!LineMatches(host, p, line) => p \in line.hits
         /\ p \in line.hits /\ ~Slices!LineMatches(host, p, line) =>
              \/ line.chars > MaxLineChars /\ ~Slices!IsLiteral(p)
              \/ p \in line.slow /\ host.main
<1>1. Slices!WithinBudget(host, p, line) => p \in line.hits
  BY DEF Slices!WithinBudget, Slices!Verdict
<1>2. p \in line.hits /\ ~Slices!WithinBudget(host, p, line) => p \in line.slow /\ host.main
  BY DEF Slices!WithinBudget, Slices!Verdict, Slices!Engine
<1>3. line.chars > MaxLineChars <=> ~(line.chars <= MaxLineChars)
  BY DEF CapsTyped
<1> QED
  BY <1>1, <1>2, <1>3 DEF Slices!LineMatches

\* What the line filter keeps, of a window and the context of its matches.
LEMMA FilterIsTrue ==
  ASSUME NEW S, NEW original, original.lines \in Seq(S), LinesTyped(original.lines), CapsTyped,
         NEW host \in [re2 : BOOLEAN, main : BOOLEAN], NEW args, ArgumentsTyped(args),
         Slices!LineRangeOK(args), Slices!ContextOK(args)
  PROVE  Slices!LinesTrue(host, original, args,
                          Slices!FilterLines(host, original.lines, Slices!Filters(args)))
<1>1. PICK lines \in Seq(S) : lines = original.lines
  OBVIOUS
<1>2. PICK f : f = Slices!Filters(args)
  OBVIOUS
<1>3. PICK asked : asked = {i \in DOMAIN lines :
                              /\ ~Slices!IsNone(Slices!Bound(args, 1)) => i >= Slices!Bound(args, 1).v
                              /\ ~Slices!IsNone(Slices!Bound(args, 2)) => i <= Slices!Bound(args, 2).v}
  OBVIOUS
<1>4. asked = Slices!Window(lines, f)
  BY <1>2, <1>3, WindowIsAsked
<1>5. PICK p : p = args["pattern"].source
  OBVIOUS
<1>6. PICK c \in Nat : c = Slices!Context(args).v /\ c = f.context
  <2>1. f.context = Slices!Context(args).v
    BY <1>2 DEF Slices!Filters
  <2>2. Slices!Context(args).v \in Int
    BY DEF Slices!ContextOK, Slices!IsInt, ArgumentsTyped, IntegersAre
  <2>3. Slices!Context(args).v >= 0
    BY <2>2 DEF Slices!ContextOK, CapsTyped
  <2> QED
    BY <2>1, <2>2, <2>3
<1>7. /\ Slices!IsNone(f.pattern) <=> ~Slices!Present(args, "pattern")
      /\ Slices!Present(args, "pattern") => f.pattern.source = p
  BY <1>2, <1>5 DEF Slices!Filters, Slices!Present, Slices!Get, Slices!IsNone, Slices!None
<1>8. PICK matches : matches = {i \in asked : Slices!LineMatches(host, f.pattern.source, lines[i])}
  OBVIOUS
<1>9. PICK shown : shown = IF Slices!IsNone(f.pattern) THEN asked ELSE Slices!Around(lines, asked, matches, c)
  OBVIOUS
<1>10. PICK r : r = Slices!FilterLines(host, lines, f)
  OBVIOUS
<1>11. /\ r.shown = shown
       /\ r.skipped = IF Slices!IsNone(f.pattern) THEN 0 ELSE Slices!Skipped(f.pattern.source, lines, asked)
  BY <1>4, <1>6, <1>8, <1>9, <1>10 DEF Slices!FilterLines
<1>12. asked \subseteq 1..Len(lines) /\ \A i \in asked : i \in Int /\ lines[i].chars \in Nat
  BY <1>1, <1>3 DEF LinesTyped
<1>13. shown \subseteq asked
  BY <1>9 DEF Slices!Around
<1>14. ~Slices!Present(args, "pattern") => shown = asked
  BY <1>7, <1>9
<1>15. PICK having : having = {i \in asked : p \in lines[i].hits}
  OBVIOUS
<1>16. ASSUME Slices!Present(args, "pattern")
       PROVE  /\ \A i \in shown : \E j \in having : j - i \in - c .. c
              /\ \A i \in having \ shown :
                   \/ lines[i].chars > MaxLineChars /\ r.skipped > 0
                   \/ p \in lines[i].slow /\ host.main
  <2>1. /\ shown = Slices!Around(lines, asked, matches, c)
        /\ matches = {i \in asked : Slices!LineMatches(host, p, lines[i])}
        /\ r.skipped = Slices!Skipped(p, lines, asked)
    BY <1>7, <1>8, <1>9, <1>11, <1>16
  <2>2. matches \subseteq having
    BY <1>12, <1>15, <2>1, SearchIsTrue
  <2>3. ASSUME NEW i \in shown PROVE \E j \in having : j - i \in - c .. c
    <3>1. PICK j \in matches : i \in j - c .. j + c
      BY <2>1 DEF Slices!Around
    <3>2. j \in having /\ j \in Int /\ i \in Int
      BY <1>12, <1>13, <2>1, <2>2, <3>1
    <3>3. j - i \in - c .. c
      BY <3>1, <3>2
    <3> QED
      BY <3>2, <3>3
  <2>4. ASSUME NEW i \in having \ shown
        PROVE  \/ lines[i].chars > MaxLineChars /\ r.skipped > 0
               \/ p \in lines[i].slow /\ host.main
    <3>1. i \in asked /\ p \in lines[i].hits /\ i \in Int /\ lines[i].chars \in Nat
      BY <1>12, <1>15
    <3>2. i \notin matches
      <4>1. i \in i - c .. i + c
        BY <3>1
      <4> QED
        BY <2>1, <3>1, <4>1 DEF Slices!Around
    <3>3. ~Slices!LineMatches(host, p, lines[i])
      BY <2>1, <3>1, <3>2
    <3>4. \/ lines[i].chars > MaxLineChars /\ ~Slices!IsLiteral(p)
          \/ p \in lines[i].slow /\ host.main
      BY <3>1, <3>3, SearchIsTrue
    <3>5. ASSUME lines[i].chars > MaxLineChars, ~Slices!IsLiteral(p) PROVE r.skipped > 0
      <4>1. PICK long : long = {k \in asked : lines[k].chars > MaxLineChars}
        OBVIOUS
      <4>2. i \in long
        BY <3>1, <3>5, <4>1
      <4>3. long \in SUBSET (1..Len(lines)) /\ IsFiniteSet(1..Len(lines))
        <5>1. Len(lines) \in Nat
          OBVIOUS
        <5>2. IsFiniteSet(1..Len(lines))
          BY <5>1, FS_Interval
        <5> QED
          BY <1>12, <4>1, <5>2
      <4>4. IsFiniteSet(long)
        BY <4>3, FS_Subset
      <4>5. Cardinality(long) \in Nat /\ Cardinality(long) # 0
        <5>1. Cardinality(long) \in Nat
          BY <4>4, FS_CardinalityType
        <5>2. Cardinality(long) = 0 <=> long = {}
          BY <4>4, FS_EmptySet
        <5> QED
          BY <4>2, <5>1, <5>2
      <4>6. r.skipped = Cardinality(long)
        BY <2>1, <3>5, <4>1, SlicesCount DEF Slices!Skipped
      <4> QED
        BY <4>5, <4>6
    <3> QED
      BY <3>4, <3>5
  <2> QED
    BY <2>3, <2>4
<1>17. Slices!LinesTrue(host, original, args, r)
  BY <1>1, <1>3, <1>5, <1>6, <1>11, <1>13, <1>14, <1>15, <1>16 DEF Slices!LinesTrue
<1> QED
  BY <1>1, <1>2, <1>10, <1>17

\* Rows and fields are an error of their own kind, or rows of something that has any.
LEMMA RowKinds ==
  ASSUME NEW json, NEW f
  PROVE  /\ Slices!SelectRows(json, f).kind = "rows" \/ Slices!SelectRows(json, f) = Slices!FilterError
         /\ Slices!IsNone(Slices!ExtractRows(json)) => Slices!SelectRows(json, f) = Slices!FilterError
         /\ ~Slices!IsNone(Slices!ExtractRows(json)) => json.type \in {"list", "dict"}
         /\ Slices!ProjectFields(json, f).kind = "fields" \/ Slices!ProjectFields(json, f) = Slices!FilterError
         /\ Slices!ProjectFields(json, f) # Slices!FilterError => json.type = "list"
<1>1. Slices!SelectRows(json, f).kind = "rows" \/ Slices!SelectRows(json, f) = Slices!FilterError
  BY DEF Slices!SelectRows, Slices!Limited
<1>2. Slices!IsNone(Slices!ExtractRows(json)) => Slices!SelectRows(json, f) = Slices!FilterError
  BY DEF Slices!SelectRows
<1>3. ~Slices!IsNone(Slices!ExtractRows(json)) => json.type \in {"list", "dict"}
  BY DEF Slices!ExtractRows, Slices!IsNone, Slices!None
<1>4. Slices!ProjectFields(json, f).kind = "fields" \/ Slices!ProjectFields(json, f) = Slices!FilterError
  BY DEF Slices!ProjectFields, Slices!Limited
<1>5. Slices!ProjectFields(json, f) # Slices!FilterError => json.type = "list"
  BY DEF Slices!ProjectFields
<1> QED
  BY <1>1, <1>2, <1>3, <1>4, <1>5

ArgumentNames ==
  {"pattern", "context_lines", "line_range", "fields", "select_field", "select_equals",
   "select_min", "select_max", "limit"}

\* What no argument asks to leave out is not left out.
LEMMA EmptyAsksNothing ==
  ASSUME NEW args, DOMAIN args \subseteq ArgumentNames, Slices!SelectOK(args),
         Slices!IsEmpty(Slices!Filters(args))
  PROVE  \A name \in DOMAIN args \ {"context_lines", "line_range"} : Slices!IsNone(args[name])
<1>1. \A name \in DOMAIN args : Slices!Present(args, name) <=> ~Slices!IsNone(args[name])
  BY DEF Slices!Present, Slices!Get
<1>2. ~Slices!Present(args, "pattern") /\ ~Slices!Present(args, "fields") /\ ~Slices!Present(args, "select_field")
  BY DEF Slices!IsEmpty, Slices!HasLines, Slices!HasSelect, Slices!Filters, Slices!Present
<1>3. ~(Slices!Anchored(args) \/ Slices!Present(args, "limit"))
  BY <1>2 DEF Slices!SelectOK
<1>4. /\ "select_equals" \notin DOMAIN args /\ ~Slices!Present(args, "limit")
      /\ ~Slices!Present(args, "select_min") /\ ~Slices!Present(args, "select_max")
  BY <1>3 DEF Slices!Anchored, Slices!HasRange
<1> QED
  BY <1>1, <1>2, <1>4 DEF ArgumentNames

\* retrieve of furl_ctx/retrieve.py: a slice of lines shows nothing outside its window,
\* a line only near one that has the pattern, and hides one that has it only if it
\* says so or the match ran out of its budget, which nothing does without; an original
\* without rows is an error; and the whole is given when nothing was asked for.
THEOREM SlicesAreTrue ==
  ASSUME NEW S, NEW original, original.lines \in Seq(S), LinesTyped(original.lines), CapsTyped,
         NEW host \in [re2 : BOOLEAN, main : BOOLEAN],
         NEW args, ArgumentsTyped(args), DOMAIN args \subseteq ArgumentNames,
         NEW query \in BOOLEAN, NEW r, r = Slices!Slice(host, original, args, query)
  PROVE  /\ r.kind = "lines" => Slices!LinesTrue(host, original, args, r)
         /\ r.kind = "lines" /\ Slices!Present(args, "pattern")
              => Slices!AlwaysBounded(host, args["pattern"].source)
         /\ Slices!IsNone(Slices!ExtractRows(original.json)) => r.kind # "rows"
         /\ r.kind \in {"rows", "fields"} => original.json.type \in {"list", "dict"}
         /\ r.kind = "whole" =>
              \A name \in DOMAIN args \ {"context_lines", "line_range"} : Slices!IsNone(args[name])
<1>1. PICK f : f = Slices!Filters(args)
  OBVIOUS
<1>2. PICK json : json = original.json
  OBVIOUS
<1>3. Slices!FilterError.kind = "error"
  BY DEF Slices!FilterError
<1>4. CASE r = Slices!FilterError
  <2>1. r.kind = "error"
    BY <1>3, <1>4
  <2> QED
    BY <2>1
<1>5. CASE r # Slices!FilterError
  <2>1. /\ Slices!Parse(host, args) = f /\ f.kind = "filters"
        /\ Slices!ContextOK(args) /\ Slices!LineRangeOK(args) /\ Slices!SelectOK(args)
    <3>1. Slices!Parse(host, args).kind # "error"
      BY <1>5 DEF Slices!Slice
    <3>2. f.kind = "filters"
      BY <1>1 DEF Slices!Filters
    <3> QED
      BY <1>1, <1>3, <3>1, <3>2 DEF Slices!Parse
  <2>2. r = IF Slices!IsEmpty(f) THEN [kind |-> "whole"] ELSE Slices!ApplyFilters(host, original, f)
    BY <1>5, <2>1 DEF Slices!Slice
  <2>3. CASE Slices!IsEmpty(f)
    <3>1. r.kind = "whole"
      BY <2>2, <2>3
    <3>2. \A name \in DOMAIN args \ {"context_lines", "line_range"} : Slices!IsNone(args[name])
      BY <1>1, <2>1, <2>3, EmptyAsksNothing
    <3> QED
      BY <3>1, <3>2
  <2>4. CASE ~Slices!IsEmpty(f) /\ Slices!HasSelect(f)
    <3>1. r = Slices!SelectRows(json, f)
      BY <1>2, <2>2, <2>4 DEF Slices!ApplyFilters
    <3>2. r.kind = "rows" /\ ~Slices!IsNone(Slices!ExtractRows(json)) /\ json.type \in {"list", "dict"}
      BY <1>5, <3>1, RowKinds
    <3> QED
      BY <1>2, <3>2
  <2>5. CASE ~Slices!IsEmpty(f) /\ ~Slices!HasSelect(f) /\ ~Slices!IsNone(f.fields)
    <3>1. r = Slices!ProjectFields(json, f)
      BY <1>2, <2>2, <2>5 DEF Slices!ApplyFilters
    <3>2. r.kind = "fields" /\ json.type = "list"
      BY <1>5, <3>1, RowKinds
    <3> QED
      BY <1>2, <3>2
  <2>6. CASE ~Slices!IsEmpty(f) /\ ~Slices!HasSelect(f) /\ Slices!IsNone(f.fields)
    <3>1. r = Slices!FilterLines(host, original.lines, f)
      BY <2>2, <2>6 DEF Slices!ApplyFilters
    <3>2. r.kind = "lines"
      BY <3>1 DEF Slices!FilterLines
    <3>3. Slices!LinesTrue(host, original, args, r)
      BY <1>1, <2>1, <3>1, FilterIsTrue
    <3>4. Slices!AlwaysBounded(host, args["pattern"].source)
      BY FiltersAreBounded
    <3> QED
      BY <3>2, <3>3, <3>4
  <2> QED
    BY <2>3, <2>4, <2>5, <2>6
<1> QED
  BY <1>4, <1>5
=============================================================================
