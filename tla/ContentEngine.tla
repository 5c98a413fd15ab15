---------------------------- MODULE ContentEngine ----------------------------
(* One text through ContentRouter.compress: the strategy, the dispatch with  *)
(* its fallbacks (router_dispatch.py), the mixed path section by section,    *)
(* the guards and the last-resort offload (router_engine.py), and the gate   *)
(* that serves or rejects the result (content_router.py).  What a compressor *)
(* makes of its text is one of the outcomes its code allows.                 *)
EXTENDS ContentShape

CONSTANTS Configs,       \* the configurations considered
          Texts,         \* the texts, sequences of lines
          Traits,        \* what else a text may be: huge, marked, html
          Pressures,     \* context pressures, in hundredths
          LargeLines     \* lines from which a text has _OFFLOAD_MIN_CHARS

ASSUME EngineAssumption ==
  /\ \A c \in Configs : c.relaxed \in Int /\ c.aggressive \in Int /\ c.relaxed <= c.aggressive
  /\ Pressures \subseteq Int
  /\ \A t \in Texts : t \in Seq(SUBSET Pattern)

VARIABLES config,    \* the router's settings
          text,      \* the lines of the content
          traits,    \* what else the engine asks of it: huge, marked, html
          minRatio,  \* the ratio to beat
          pc,        \* the next step
          todo,      \* sections the mixed path still has to compress
          pieces,    \* the output, in order
          verbatim,  \* the output is the original string
          log,       \* the routing decisions: tokens before and after, over all of them
          stored     \* units a recovery store holds durably

vars == <<config, text, traits, minRatio, pc, todo, pieces, verbatim, log, stored>>

Whole == DOMAIN text
Lines(unit) == [i \in 1 .. Cardinality(unit) |-> text[Min(unit) + i - 1]]
Cost(unit) == 2 * Cardinality(unit)

(* A piece of output: the unit it stands for, what became of it, by whom,    *)
(* and the strategy it was dispatched under.                                 *)
Piece(unit, form, by, tokens, marked) ==
  [of |-> unit, form |-> form, by |-> by, tokens |-> tokens, marked |-> marked, via |-> "none"]
Same(unit) == Piece(unit, "same", "none", Cost(unit), FALSE)

Outcome(piece, writes) == [piece |-> piece, writes |-> writes, raised |-> FALSE]
Raised(unit, writes) == [piece |-> Same(unit), writes |-> writes, raised |-> TRUE]

---------------------------------------------------------------------------
(* The compressors.  persist_to_python_ccr: the marker ships only with the   *)
(* original in the store; a vetoed write serves the original.                *)
Persisted_VetoIgnored(unit, piece) == {Outcome(piece, {unit}), Outcome(piece, {})}
Persisted(unit, piece) == {Outcome(piece, {unit}), Outcome(Same(unit), {})}

Marked(unit, by) ==
  Persisted(unit, Piece(unit, "lossy", by, Cost(unit) \div 2, TRUE))

(* The compressors that drop lines.  Log, text and code mark every output    *)
(* that drops one; search marks none below ten matches or above its ratio,   *)
(* diff none above its ratio.  No compressor is known to return a blank; the *)
(* engine guards against one where the whole text is a single piece.         *)
Unmarked(unit, by) == {Outcome(Piece(unit, "lossy", by, Cost(unit) - 1, FALSE), {})}
Blank(unit, by) == {Outcome(Piece(u, "blank", by, 0, FALSE), {}) : u \in {unit} \cap {Whole}}

SearchCompress(unit) == {Outcome(Same(unit), {})} \cup Marked(unit, "search") \cup Unmarked(unit, "search")
DiffCompress(unit) == {Outcome(Same(unit), {})} \cup Marked(unit, "diff") \cup Unmarked(unit, "diff")
LogCompress(unit) == {Outcome(Same(unit), {})} \cup Marked(unit, "log")
TextCompress(unit) == {Outcome(Same(unit), {})} \cup Marked(unit, "text") \cup Blank(unit, "text")
CodeCompress(unit) == {Outcome(Same(unit), {})} \cup Marked(unit, "code_aware")
HtmlCompress(unit) == IF traits.html THEN Marked(unit, "html") ELSE {}

(* SmartCrusher: another rendering of all rows, of any size, or fewer rows   *)
(* with the others in the store; a failed write raises, it never drops.      *)
Crush(unit) ==
  {Outcome(Same(unit), {})}
    \cup {Outcome(Piece(unit, "lossless", "smart_crusher", t, FALSE), {})
          : t \in {Cost(unit) \div 2, Cost(unit), Cost(unit) + 1}}
    \cup IF config.lossless THEN {}
         ELSE {Outcome(Piece(unit, "lossy", "smart_crusher", Cost(unit) \div 2, TRUE), {unit}), Raised(unit, {})}

(* compress_envelope, compress_tabular_csv: crush, then keep the raw text.   *)
(* A conversion that is no smaller, or whose raw text is not stored, is      *)
(* dropped for the text itself.                                              *)
Convert(unit) ==
  {Raised(unit, {}), Outcome(Same(unit), {})} \cup Marked(unit, "smart_crusher")

(* No savings after SMART_CRUSHER: an expansion goes back to the original,   *)
(* and the log compressor has a try; whatever it raises is swallowed.        *)
AfterCrush(unit, out) ==
  IF out.raised \/ (out.piece.form # "same" /\ out.piece.tokens < Cost(unit)) THEN {out}
  ELSE IF out.piece.tokens > Cost(unit) THEN {[out EXCEPT !.piece = Same(unit)]}
  ELSE IF config.logs /\ ~config.lossless
  THEN {out} \cup {[tried EXCEPT !.writes = @ \cup out.writes] :
                     tried \in {o \in LogCompress(unit) : o.piece.tokens < out.piece.tokens}}
  ELSE {out}

IsConverted(unit) == ~config.lossless /\ (IsEnvelope(Lines(unit)) \/ IsTable(Lines(unit)))

CrushArm_TablesFall(unit) ==
  UNION {AfterCrush(unit, out) : out \in IF IsConverted(unit) THEN Convert(unit) ELSE Crush(unit)}

CrushArm(unit) ==
  IF ~config.crusher THEN {Outcome(Same(unit), {})}
  ELSE IF IsConverted(unit) THEN Convert(unit)
  ELSE UNION {AfterCrush(unit, out) : out \in Crush(unit)}

(* The log arm: the lossless template recode first, also in strict mode.     *)
LogArm_DropsUnderStrict(unit) ==
  (IF config.template THEN {Outcome(Piece(unit, "lossless", "log_template", Cost(unit) - 1, FALSE), {})} ELSE {})
    \cup (IF config.logs THEN LogCompress(unit) ELSE {Outcome(Same(unit), {})})

LogArm(unit) ==
  (IF config.template THEN {Outcome(Piece(unit, "lossless", "log_template", Cost(unit) - 1, FALSE), {})} ELSE {})
    \cup (IF config.logs /\ ~config.lossless THEN LogCompress(unit) ELSE {Outcome(Same(unit), {})})

(* HTML ships as its main content with a marker; anything else, and HTML the *)
(* extraction gains nothing on, is prose.                                    *)
TextArm(unit) ==
  IF config.lossless THEN {Outcome(Same(unit), {})}
  ELSE HtmlCompress(unit)
       \cup (IF config.prose THEN TextCompress(unit) ELSE {Outcome(Same(unit), {})})

Gated(unit, enabled, outcomes) ==
  IF enabled /\ ~config.lossless /\ unit # {} THEN outcomes ELSE {Outcome(Same(unit), {})}

Strategies == {"smart_crusher", "search", "log", "diff", "text", "code_aware", "passthrough"}

(* StrategyDispatcher.apply.                                                 *)
Apply(unit, strategy) ==
  CASE strategy = "smart_crusher" -> CrushArm(unit)
    [] strategy = "search" -> Gated(unit, config.search, SearchCompress(unit))
    [] strategy = "log" -> LogArm(unit)
    [] strategy = "diff" -> Gated(unit, TRUE, DiffCompress(unit))
    [] strategy = "text" -> TextArm(unit)
    [] strategy = "code_aware" -> Gated(unit, config.code, CodeCompress(unit))
    [] strategy = "passthrough" -> {Outcome(Same(unit), {})}

(* build_mode_pipeline: what a mode of furl_compress changes of the          *)
(* configuration, thresholds in hundredths.                                  *)
ModeConfig(mode, normal) ==
  CASE mode = "normal" -> normal
    [] mode = "lossless_only" -> [normal EXCEPT !.lossless = TRUE]
    [] mode = "aggressive" -> [normal EXCEPT !.relaxed = 98, !.aggressive = 99]

---------------------------------------------------------------------------
OffloadEnabled == config.offload /\ config.ccr /\ ~config.lossless

(* total_original_tokens and total_compressed_tokens: what the ratio, and so *)
(* the gate, reads of the routing log.                                       *)
Decision(original, compressed) == [original |-> original, compressed |-> compressed]
NoDecisions == Decision(0, 0)
Added(decisions, decision) ==
  Decision(decisions.original + decision.original, decisions.compressed + decision.compressed)

Init ==
  /\ config \in Configs
  /\ text \in Texts
  /\ traits \in {t \in Traits : t.html => Detect(text) = PlainText}
  /\ minRatio \in {AdaptiveMinRatio(config.relaxed, config.aggressive, p) : p \in Pressures}
  /\ pc = "start"
  /\ todo = <<>> /\ pieces = <<>> /\ log = NoDecisions
  /\ verbatim = FALSE
  /\ stored = {}

Original == log.original
Compressed == log.compressed

(* The original string, with the decisions the output does not rest on.      *)
Passthrough(decisions) ==
  /\ pieces' = <<Same(Whole)>>
  /\ verbatim' = TRUE
  /\ log' = decisions

Honest_Kept(decisions) == decisions
Honest(decisions) == Decision(decisions.original, decisions.original)

(* An empty or blank text goes through untouched.                            *)
Empty ==
  /\ pc = "start" /\ IsBlank(text)
  /\ Passthrough(NoDecisions)
  /\ pc' = "offload"
  /\ UNCHANGED <<config, text, traits, minRatio, todo, stored>>

(* _ccr_offload: the original is stored and read back before the preview     *)
(* ships; a preview of a short text can be longer than the text.             *)
Offload_Unverified(decisions, next) ==
  /\ pc' = next
  /\ stored' \in {stored, stored \cup {Whole}}
  /\ \E t \in {Cost(Whole) \div 2, Cost(Whole) + 1} :
       /\ pieces' = <<Piece(Whole, "lossy", "ccr_offload", t, TRUE)>>
       /\ verbatim' = FALSE
       /\ log' = Decision(Cost(Whole), t)

Offload(decisions, next) ==
  /\ pc' = next
  /\ \/ /\ stored' = stored \cup {Whole}
        /\ \E t \in {Cost(Whole) \div 2, Cost(Whole) + 1} :
             /\ pieces' = <<Piece(Whole, "lossy", "ccr_offload", t, TRUE)>>
             /\ verbatim' = FALSE
             /\ log' = Decision(Cost(Whole), t)
     \/ /\ stored' = stored
        /\ IF pieces = <<>> THEN Passthrough(decisions) ELSE UNCHANGED <<pieces, verbatim, log>>

Huge ==
  /\ pc = "start" /\ ~IsBlank(text) /\ traits.huge /\ OffloadEnabled
  /\ Offload(NoDecisions, "guard")
  /\ UNCHANGED <<config, text, traits, minRatio, todo>>

Routes(strategy) ==
  /\ pc = "start" /\ ~IsBlank(text) /\ ~(traits.huge /\ OffloadEnabled)
  /\ DetermineStrategy(text, config.code) = strategy

(* One outcome of a dispatch: its writes stay also when it raises.           *)
Takes(out, next) ==
  /\ stored' = stored \cup out.writes
  /\ pc' = IF out.raised THEN "raised" ELSE next

Pure ==
  /\ \E strategy \in Strategies :
       /\ Routes(strategy)
       /\ \E out \in Apply(Whole, strategy) :
            /\ Takes(out, "guard")
            /\ pieces' = <<[out.piece EXCEPT !.via = strategy]>>
            /\ verbatim' = (out.piece.form = "same")
            /\ log' = Decision(Cost(Whole), out.piece.tokens)
  /\ UNCHANGED <<config, text, traits, minRatio, todo>>

Mixed ==
  /\ Routes("mixed")
  /\ IF SplitSections(text) = <<>>
     THEN Passthrough(NoDecisions) /\ pc' = "guard" /\ UNCHANGED todo
     ELSE /\ todo' = SplitSections(text)
          /\ pc' = "section"
          /\ UNCHANGED <<pieces, verbatim, log>>
  /\ UNCHANGED <<config, text, traits, minRatio, stored>>

(* One section; its fence is written again and counted.                      *)
CompressSection ==
  /\ pc = "section" /\ todo # <<>>
  /\ LET section == Head(todo)
         unit == Covered(section)
         fence == IF section.fenced THEN 1 ELSE 0
     IN \E strategy \in Strategies :
          /\ strategy = StrategyOf(section.type, config.code)
          /\ \E out \in Apply(unit, strategy) :
               /\ Takes(out, "section")
               /\ pieces' = Append(pieces, [out.piece EXCEPT !.via = strategy])
               /\ log' = Added(log, Decision(Cost(unit), out.piece.tokens + fence))
  /\ todo' = Tail(todo)
  /\ UNCHANGED <<config, text, traits, minRatio, verbatim>>

(* When no section changed the original ships, and nothing is claimed.       *)
Reassemble ==
  /\ pc = "section" /\ todo = <<>>
  /\ IF \A k \in DOMAIN pieces : pieces[k].form = "same"
     THEN Passthrough(Honest(log))
     ELSE UNCHANGED <<pieces, verbatim, log>>
  /\ pc' = "guard"
  /\ UNCHANGED <<config, text, traits, minRatio, todo, stored>>

(* The empty-output guard.                                                   *)
Guard ==
  /\ pc = "guard"
  /\ IF \A k \in DOMAIN pieces : pieces[k].form = "blank"
     THEN Passthrough(Honest(log))
     ELSE UNCHANGED <<pieces, verbatim, log>>
  /\ pc' = "offload"
  /\ UNCHANGED <<config, text, traits, minRatio, todo, stored>>

(* _should_ccr_offload: large, left nearly as it was, and not already        *)
(* carrying a marker.                                                        *)
ShouldOffload ==
  /\ OffloadEnabled
  /\ Len(text) >= LargeLines \/ traits.huge
  /\ 10 * Compressed >= 9 * Original
  /\ ~traits.marked

LastResort ==
  /\ pc = "offload" /\ ShouldOffload
  /\ Offload(log, "gate")
  /\ UNCHANGED <<config, text, traits, minRatio, todo>>

NoLastResort ==
  /\ pc = "offload" /\ ~ShouldOffload
  /\ pc' = "gate"
  /\ UNCHANGED <<config, text, traits, minRatio, todo, pieces, verbatim, log, stored>>

(* _store_disposition: a result below the ratio is served, any other leaves  *)
(* the message as it was.                                                    *)
Accepts_Always == TRUE
Accepts == Original > 0 /\ 100 * Compressed < minRatio * Original

Gate ==
  /\ pc = "gate"
  /\ pc' = IF Accepts THEN "served" ELSE "rejected"
  /\ UNCHANGED <<config, text, traits, minRatio, todo, pieces, verbatim, log, stored>>

Next ==
  \/ Empty \/ Huge \/ Pure \/ Mixed \/ CompressSection \/ Reassemble
  \/ Guard \/ LastResort \/ NoLastResort \/ Gate

Spec == Init /\ [][Next]_vars

---------------------------------------------------------------------------
Forms == {"same", "lossless", "lossy", "blank"}

TypeOK ==
  /\ config \in Configs /\ text \in Texts /\ traits \in Traits
  /\ minRatio \in config.relaxed .. config.aggressive
  /\ pc \in {"start", "section", "guard", "offload", "gate", "served", "rejected", "raised"}
  /\ \A k \in DOMAIN pieces : pieces[k].form \in Forms /\ pieces[k].marked \in BOOLEAN
  /\ verbatim \in BOOLEAN

(* What is served can be undone: strict mode ships every unit as it was or   *)
(* losslessly recoded, and otherwise a marker never ships without the        *)
(* original in the store; the only loss no marker covers is that of the      *)
(* search and diff compressors below their own thresholds.                   *)
LossIsBacked ==
  pc = "served" =>
    \A k \in DOMAIN pieces :
      pieces[k].form = "lossy" =>
        /\ ~config.lossless
        /\ IF pieces[k].marked THEN pieces[k].of \in stored ELSE pieces[k].by \in {"search", "diff"}

(* A text recognised as a table or an envelope never reaches a compressor    *)
(* that drops lines, also when its conversion gains nothing or is vetoed.    *)
TablesKept ==
  \A k \in DOMAIN pieces :
    pieces[k].via = "smart_crusher" /\ IsConverted(pieces[k].of) => pieces[k].by \in {"none", "smart_crusher"}

(* The types, no loss without its backing, and no table among the lines that *)
(* are dropped.                                                              *)
RoutingSound == TypeOK /\ LossIsBacked /\ TablesKept

(* An output that is the original string claims no savings, on every path    *)
(* that falls back to it, so that the gate never serves one; what is served  *)
(* is smaller by its own decisions.                                          *)
HonestSavings ==
  /\ pc \in {"offload", "gate", "served", "rejected"} /\ verbatim => Compressed = Original
  /\ pc = "served" => ~verbatim /\ Compressed < Original

(* The sections of a mixed text are in order, overlap nowhere, and leave out *)
(* nothing but blank lines and lines that begin with ```.                    *)
SplitKeepsText == SplitCovers(text)

(* The README: every byte is recoverable byte-exact through furl_retrieve.   *)
EveryByteRecoverable ==
  pc = "served" => \A k \in DOMAIN pieces : pieces[k].form = "lossy" => pieces[k].of \in stored
=============================================================================
