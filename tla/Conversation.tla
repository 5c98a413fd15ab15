----------------------------- MODULE Conversation -----------------------------
(***************************************************************************)
(* A conversation, and the calls that compress it before each turn of the   *)
(* model:                                                                   *)
(*   furl_ctx/compress.py                        the call and its fail-open  *)
(*   furl_ctx/transforms/pipeline.py             the order of the passes     *)
(*   furl_ctx/transforms/cross_message_dedup.py  the first pass              *)
(*   furl_ctx/transforms/read_lifecycle.py, router_engine.py,                *)
(*     router_message_policy.py, router_blocks.py  the second pass           *)
(*                                                                         *)
(* The host appends an assistant message with its tool results and calls:   *)
(* with the messages it has sent so far as they were returned to it, or as   *)
(* it first wrote them.  It has a cache breakpoint, which freezes a prefix.  *)
(* The passes take the messages one at a time; a store that cannot keep an   *)
(* original vetoes its replacement.  The store loses nothing here: what its  *)
(* losses do is the subject of RequestPath.                                  *)
(***************************************************************************)
EXTENDS ReadLifecycle, MessagePolicy

CONSTANTS
  Exchanges,    \* the tool results an assistant message is answered with
  Prose,        \* the original of a text message
  MaxSources,   \* NEAR_DUP_MAX_ARRAY_SOURCES
  MaxTurns,     \* bound on the exchanges of a conversation
  MaxVetoes     \* bound on the store writes that fail

ASSUME ConversationAssumption ==
  /\ Prose \in Short \cap Originals
  /\ \A o \in Originals : IsFiniteSet(RowsOf[o])
  /\ \A exchange \in Exchanges :
       /\ Len(exchange) \in Nat /\ DOMAIN exchange = 1..Len(exchange)
       /\ \A k \in 1..Len(exchange) : exchange[k].original \in Originals
  /\ {ReadWindow, ProtectRecent, MaxSources, MaxTurns, MaxVetoes} \subseteq Nat
  /\ MaxSources > 0

VARIABLES
  history,  \* the messages as the host passes them in
  sent,     \* the messages the last call returned
  draft,    \* the messages as the passes of this call have made them
  phase,    \* the pass that runs
  at,       \* the message it has come to
  frozen,   \* _compute_frozen_message_count, or the caller's own count
  entry,    \* "compress", or a caller of the pipeline who passes a store
  analysis, \* the latest user message asks for an analysis
  seen,     \* _DedupState.seen: the contents kept verbatim, and where
  sources,  \* _DedupState.array_sources: the arrays kept verbatim, and where
  store,    \* the contents the CCR store holds
  warned,   \* the messages the breakpoint warning names
  turns, vetoes

conversation == <<history, sent, frozen, entry, analysis, warned, turns>>
scan == <<seen, sources>>
vars == <<conversation, draft, phase, at, scan, store, vetoes>>

Init ==
  /\ history = <<Message("text", 0, NoCall, FALSE, Prose)>>
  /\ sent = history /\ draft = history
  /\ phase = "host" /\ at = 0 /\ frozen = 0
  /\ entry \in {"compress", "pipeline"} /\ analysis \in BOOLEAN
  /\ seen = {} /\ sources = <<>>
  /\ store = {} /\ warned = {}
  /\ turns = 0 /\ vetoes = 0

-----------------------------------------------------------------------------
(* The call.                                                               *)

Extended(msgs, exchange) ==
  LET turn == Len(msgs) + 1
  IN  Append(msgs, Message("text", 0, NoCall, FALSE, Prose)) \o
        [k \in DOMAIN exchange |->
           Message(exchange[k].shape, turn, exchange[k].call, exchange[k].failed,
                   exchange[k].original)]

\* _frozen_transformed_content_warning: a frozen tool output that repeats an
\* earlier frozen one and that the store knows.  Nested outputs are not looked at.
Suspects_OffByOne(msgs, count) ==
  {i \in 1..(count - 1) :
     /\ Flat(msgs[i]) /\ Long(msgs[i].content)
     /\ msgs[i].content \in store
     /\ \E j \in 1..(i - 1) : Flat(msgs[j]) /\ msgs[j].content = msgs[i].content}
Suspects(msgs, count) ==
  {i \in 1..count :
     /\ Flat(msgs[i]) /\ Long(msgs[i].content)
     /\ msgs[i].content \in store
     /\ \E j \in 1..(i - 1) : Flat(msgs[j]) /\ msgs[j].content = msgs[i].content}

\* A breakpoint is a mark on a block.
Breakpoints(msgs) == {0} \cup {i \in DOMAIN msgs : msgs[i].shape \in {"block", "nested"}}

\* The host has had the model's next message and calls for the one after.
Call(exchange, base) ==
  /\ phase = "host" /\ turns < MaxTurns /\ turns' = turns + 1
  /\ history' = Extended(base, exchange)
  /\ draft' = history'
  /\ \E b \in Breakpoints(history') :
       /\ frozen' = b
       /\ warned' = IF entry = "compress" THEN Suspects(history', b) ELSE {}
  /\ phase' = "dedup" /\ at' = 1
  /\ seen' = {} /\ sources' = <<>>
  /\ UNCHANGED <<sent, entry, analysis, store, vetoes>>

Current == draft[at]
Unit == Current.content

\* The pass goes on to the next message.
Advances == at' = at + 1 /\ UNCHANGED <<conversation, phase>>
Keeps == UNCHANGED <<draft, store, vetoes>>

\* An original is stored before c takes its place.
Stored(c) ==
  /\ store' = store \cup {Unit}
  /\ draft' = [draft EXCEPT ![at] = Becomes(Current, c)]
  /\ UNCHANGED vetoes

\* A write that is not durable leaves the original where it is.
Vetoed == vetoes < MaxVetoes /\ vetoes' = vetoes + 1 /\ UNCHANGED <<draft, store>>

-----------------------------------------------------------------------------
(* Pass 1: CrossMessageDeduper.                                            *)

Deduping == phase = "dedup" /\ at <= Len(draft)

\* _process_message: errors are neither replaced nor replaced by.
IsUnit == ToolOutput(Current) /\ ~Current.failed /\ Long(Unit)

Replaceable_OffByOne ==
  /\ at > 1 /\ at >= frozen
  /\ ProtectRecent = 0 \/ FromEnd(draft, at) > ProtectRecent
Replaceable ==
  /\ at > 1 /\ at > frozen
  /\ ProtectRecent = 0 \/ FromEnd(draft, at) > ProtectRecent

Seen(c) == \E first \in seen : first.content = c
FirstOf(c) == CHOOSE first \in seen : first.content = c

\* The earliest of the sources that share most rows with the unit.
Shared(source) == Cardinality(Unit.rows \cap source.rows)
Best == CHOOSE source \in {sources[k] : k \in DOMAIN sources} :
          \A k \in DOMAIN sources :
            \/ Shared(source) > Shared(sources[k])
            \/ Shared(source) = Shared(sources[k]) /\ source.at <= sources[k].at

\* The gates of _replace_near_duplicate, with rows of one size and a note of
\* none: two shared rows, 30% of the unit, and a rendering of at most 45% of it.
NearWorthwhile ==
  /\ Unit.rows # {} /\ sources # <<>>
  /\ LET total == Cardinality(Unit.rows)
         shared == Shared(Best)
     IN  shared >= 2 /\ 10 * shared >= 3 * total /\ 100 * (total - shared) <= 45 * total

Capped_OffByOne(s) == IF Len(s) > MaxSources + 1 THEN Tail(s) ELSE s
Capped(s) == IF Len(s) > MaxSources THEN Tail(s) ELSE s

\* A unit kept verbatim may be pointed at.
Registers ==
  /\ seen' = IF Seen(Unit) THEN seen ELSE seen \cup {[content |-> Unit, at |-> at]}
  /\ sources' = IF Unit.rows = {} THEN sources
                ELSE Capped(Append(sources, [at |-> at, rows |-> Unit.rows]))

DedupSkip ==
  /\ Deduping /\ ~IsUnit
  /\ Advances /\ Keeps /\ UNCHANGED scan

\* An identical unit came before; it stays, unregistered, where it must.
DedupExact_Unstored ==
  /\ Deduping /\ IsUnit /\ Seen(Unit)
  /\ IF Replaceable
     THEN draft' = [draft EXCEPT ![at] = Becomes(Current, Duplicate(Unit, FirstOf(Unit).at))]
     ELSE UNCHANGED draft
  /\ Advances /\ UNCHANGED <<scan, store, vetoes>>
DedupExact ==
  /\ Deduping /\ IsUnit /\ Seen(Unit)
  /\ \/ Replaceable /\ (Stored(Duplicate(Unit, FirstOf(Unit).at)) \/ Vetoed)
     \/ ~Replaceable /\ Keeps
  /\ Advances /\ UNCHANGED scan

DedupNear_Registers ==
  /\ Deduping /\ IsUnit /\ ~Seen(Unit) /\ Replaceable /\ NearWorthwhile
  /\ Stored(NearDuplicate(Unit, Best.at, Unit.rows \ Best.rows))
  /\ Advances /\ Registers
DedupNear ==
  /\ Deduping /\ IsUnit /\ ~Seen(Unit) /\ Replaceable /\ NearWorthwhile
  /\ \/ Stored(NearDuplicate(Unit, Best.at, Unit.rows \ Best.rows)) /\ UNCHANGED scan
     \/ Vetoed /\ Registers
  /\ Advances

DedupRegister ==
  /\ Deduping /\ IsUnit /\ ~Seen(Unit) /\ ~(Replaceable /\ NearWorthwhile)
  /\ Advances /\ Keeps /\ Registers

\* should_apply wants two messages; every request here has them.
DedupDone ==
  /\ phase = "dedup" /\ at > Len(draft)
  /\ phase' = "lifecycle" /\ at' = 1
  /\ seen' = {} /\ sources' = <<>>
  /\ Keeps /\ UNCHANGED conversation

-----------------------------------------------------------------------------
(* Pass 2, the router: ReadLifecycleManager, then the message policy.       *)

\* compress() passes no store, and without one no read is replaced.
LifecycleStep ==
  /\ phase = "lifecycle" /\ at <= Len(draft) /\ entry = "pipeline"
  /\ IF IsOvertaken(draft, Current, frozen)
     THEN Stored(Overtaken(ReadState(draft, Current, frozen), Unit)) \/ Vetoed
     ELSE Keeps
  /\ Advances /\ UNCHANGED scan

LifecycleDone ==
  /\ phase = "lifecycle" /\ (at > Len(draft) \/ entry = "compress")
  /\ phase' = "route" /\ at' = 1
  /\ Keeps /\ UNCHANGED <<conversation, scan>>

RouteStep ==
  /\ phase = "route" /\ at <= Len(draft)
  /\ IF Compressible(draft, at, frozen, analysis) /\ Shrinkable(Unit)
     THEN Stored(Crushed(Unit)) \/ Vetoed
     ELSE Keeps
  /\ Advances /\ UNCHANGED scan

-----------------------------------------------------------------------------
(* The end of the call.                                                    *)

Ends(result) ==
  /\ phase' = "host" /\ at' = 0
  /\ sent' = result
  /\ seen' = {} /\ sources' = <<>>
  /\ draft' = history /\ frozen' = 0 /\ warned' = {}
  /\ UNCHANGED <<history, entry, analysis, turns, store>>

Return ==
  /\ phase = "route" /\ at > Len(draft)
  /\ UNCHANGED vetoes
  /\ Ends(draft)

\* The breaker, an exception or the inflation guard: the caller's own messages.
FailOpen ==
  /\ phase # "host"
  /\ vetoes < MaxVetoes /\ vetoes' = vetoes + 1
  /\ Ends(history)

Pass ==
  \/ DedupSkip \/ DedupExact \/ DedupNear \/ DedupRegister \/ DedupDone
  \/ LifecycleStep \/ LifecycleDone \/ RouteStep \/ Return

Next ==
  \/ \E exchange \in Exchanges : Call(exchange, history) \/ Call(exchange, sent)
  \/ Pass
  \/ FailOpen

Spec == Init /\ [][Next]_vars

-----------------------------------------------------------------------------
\* The types; a pass keeps the messages and their number, a content is kept as a
\* source once, and the arrays within their cap.
TypeOK ==
  /\ phase \in {"host", "dedup", "lifecycle", "route"}
  /\ entry \in {"compress", "pipeline"} /\ analysis \in BOOLEAN
  /\ DOMAIN draft = DOMAIN history /\ DOMAIN sent \subseteq DOMAIN history
  /\ at \in 0..(Len(draft) + 1)
  /\ frozen \in 0..Len(history) /\ warned \subseteq 1..frozen
  /\ \A first, other \in seen : first.content = other.content => first = other
  /\ \A first \in seen : first.at \in 1..(at - 1)
  /\ Len(sources) <= MaxSources
  /\ \A k \in DOMAIN sources : sources[k].at \in 1..(at - 1)
  /\ turns \in 0..MaxTurns /\ vetoes \in 0..MaxVetoes

\* What the provider has cached is not touched: no pass changes a message before
\* the breakpoint, whatever it points at, whatever it has been overtaken by.
FrozenUntouched == \A i \in 1..frozen : draft[i] = history[i]

\* Content by content, what the tool returned can be had back from the store:
\* each content that took another's place names it, and the store holds it, over
\* all the passes and turns a message has been through.
Traced(m) ==
  /\ m.trail[1].form = "raw" /\ m.trail[Len(m.trail)] = m.content
  /\ \A k \in 1..(Len(m.trail) - 1) :
       m.trail[k] \in store /\ m.trail[k + 1].of = m.trail[k]
Recoverable == \A i \in DOMAIN draft : Traced(draft[i])

\* A pointer of the dedup pass names an earlier message that this pass leaves as
\* it is and that has the bytes, or every row, the pointer stands for.
PointersVerbatim ==
  phase = "dedup" =>
    \A i \in 1..(at - 1) :
      LET c == draft[i].content
      IN  c # history[i].content =>
            /\ c.at < i /\ draft[c.at] = history[c.at]
            /\ IF c.form = "dup" THEN c.of = draft[c.at].content
               ELSE c.of.rows \ c.rows \subseteq draft[c.at].content.rows

ScanSound == TypeOK /\ PointersVerbatim

\* A read is called superseded when a later read of its lines is there, and that
\* one is neither superseded nor stale itself.
SupersededBySurvivor ==
  phase = "route" =>
    \A i \in DOMAIN draft :
      draft[i].content.form = "superseded" /\ history[i].content.form # "superseded" =>
        \E r \in Later(draft, draft[i]) :
          /\ IsRead(r) /\ Covers(r.call, draft[i].call)
          /\ r.content.form \notin {"stale", "superseded"}

\* A failed call that says so in its block reaches the model as it is, under any
\* number of turns.
FailedBlocksVerbatim ==
  entry = "compress" =>
    \A i \in DOMAIN draft :
      draft[i].failed /\ draft[i].shape # "string" => Len(draft[i].trail) = 1

\* No output that carries a marker is compressed again: a second turn changes no
\* byte that the first turn's compressors made.
NeverRecompressed ==
  \A i \in DOMAIN draft :
    draft[i].content.form = "crushed" => draft[i].content.of.form = "raw"

\* What the model has asked to see again is never compressed, at any age.
RetrievedNotCompressed ==
  \A i \in DOMAIN draft :
    IsRetrieval(draft[i]) =>
      \A k \in DOMAIN draft[i].trail : draft[i].trail[k].form # "crushed"

\* What must reach the model verbatim does: failures that say so, markers, and what
\* was asked for again.
VerbatimKept == FailedBlocksVerbatim /\ NeverRecompressed /\ RetrievedNotCompressed

\* A breakpoint that has moved past a message that went out as a duplicate, while
\* the host sends what it first wrote, is reported for that message.
WarnsOfMovedBreakpoint ==
  phase = "dedup" /\ entry = "compress" =>
    \A i \in 1..frozen \cap DOMAIN sent :
      LET c == sent[i].content
      IN  c.form = "dup" /\ c.of = history[i].content
            /\ Flat(history[i]) /\ Flat(history[c.at]) => i \in warned

-----------------------------------------------------------------------------
\* The router's comments say of the retrieval tool's outputs that they are
\* excluded unconditionally, lest a retrieval be answered with a marker.
RetrievedStays ==
  \A i \in DOMAIN draft : IsRetrieval(draft[i]) => Len(draft[i].trail) = 1
=============================================================================
