---------------------------- MODULE LogTemplate ----------------------------
(* The lossless log-template transform (log_template.py and its miner, wire  *)
(* format and decoder).  A text is a sequence of characters; a run of        *)
(* characters the code never tells apart is one character of some Width, and *)
(* so is the placeholder <*>.  The wire, too, is a sequence of characters,   *)
(* because what the codec must get right is which of them mean something.    *)
EXTENDS Integers, Sequences, FiniteSets, SequencesExt

CONSTANTS PrefixDepth,   \* PREFIX_TREE_DEPTH
          MinSupport,    \* MIN_TEMPLATE_SUPPORT
          Width(_)       \* code points of a character of the model

LF == "LF"
CR == "CR"
Tab == "TAB"
Bar == "|"
Back == "\\"
Wildcard == "<*>"
Version == "LT1"
SectionSeparator == "--RECORDS--"
Malformed == "malformed"     \* what a decoding error leaves: in no text

(* Sequences: pieces cut at a separator, and joined by one.                  *)
Positions(s, P(_)) == SetToSortSeq({i \in DOMAIN s : P(s[i])}, <)

Between(s, at) ==
  [k \in 1 .. Len(at) + 1 |->
     SubSeq(s, IF k = 1 THEN 1 ELSE at[k - 1] + 1, IF k > Len(at) THEN Len(s) ELSE at[k] - 1)]

SplitAt(s, sep) == Between(s, Positions(s, LAMBDA c : c = sep))

JoinWith(parts, sep) ==
  FlattenSeq([k \in DOMAIN parts |-> IF k = 1 THEN parts[k] ELSE <<sep>> \o parts[k]])

(* The pieces of s that end at the given positions, and what is left.        *)
CutAfter(s, ends) ==
  LET from(k) == IF k = 1 THEN 1 ELSE ends[k - 1] + 1
      whole == from(Len(ends) + 1) > Len(s)
  IN [k \in 1 .. Len(ends) + IF whole THEN 0 ELSE 1 |->
        SubSeq(s, from(k), IF k > Len(ends) THEN Len(s) ELSE ends[k])]

Size(s) == FoldLeft(LAMBDA n, c : n + Width(c), 0, s)

(* content_and_terminators: a CR before an LF is no terminator of its own;   *)
(* a text that ends in one grows no empty line.                              *)
Line(piece) ==
  [content |-> SelectSeq(piece, LAMBDA c : c \notin {LF, CR}),
   terminator |-> SelectSeq(piece, LAMBDA c : c \in {LF, CR})]

LinesOf(pieces) == [k \in DOMAIN pieces |-> Line(pieces[k])]

Lines(text) ==
  IF text = <<>> THEN <<Line(text)>>
  ELSE LinesOf(CutAfter(text, SetToSortSeq({i \in DOMAIN text :
                 \/ text[i] = LF
                 \/ text[i] = CR /\ (i = Len(text) \/ text[i + 1] # LF)}, <)))

IsSpace(c) == c \in {" ", Tab}

(* Runs of white space and of the rest: joined, they are the content again.  *)
Tokenize(content) ==
  CutAfter(content, SetToSortSeq({i \in 1 .. Len(content) - 1 :
                                    IsSpace(content[i]) # IsSpace(content[i + 1])}, <))

---------------------------------------------------------------------------
(* The miner.  A pattern holds a token or a Slot (no token is empty).        *)
Slot == <<>>

PrefixKey(tokens) ==
  LET lead == SelectSeq(tokens, LAMBDA t : ~IsSpace(t[1]))
  IN SubSeq(lead, 1, IF Len(lead) < PrefixDepth THEN Len(lead) ELSE PrefixDepth)

Agreeing(pattern, tokens) ==
  Cardinality({i \in DOMAIN tokens : pattern[i] # Slot /\ pattern[i] = tokens[i]})

Merged(pattern, tokens) ==
  [i \in DOMAIN tokens |-> IF pattern[i] = tokens[i] THEN pattern[i] ELSE Slot]

(* A line joins the first most similar cluster of its bucket when half of    *)
(* the positions agree, or starts a cluster.                                 *)
Place(mined, tokens) ==
  LET key == <<Len(tokens), PrefixKey(tokens)>>
      near == {c \in DOMAIN mined.clusters : mined.clusters[c].key = key}
      score(c) == Agreeing(mined.clusters[c].pattern, tokens)
      best == CHOOSE c \in near : \A d \in near :
                 score(d) < score(c) \/ (score(d) = score(c) /\ c <= d)
      joins == near # {} /\ 2 * score(best) >= Len(tokens)
  IN [clusters |-> IF joins
                   THEN [mined.clusters EXCEPT ![best].pattern = Merged(@, tokens)]
                   ELSE Append(mined.clusters, [key |-> key, pattern |-> tokens]),
      assigned |-> Append(mined.assigned, IF joins THEN best ELSE Len(mined.clusters) + 1)]

Mine(tokenised) == FoldLeft(Place, [clusters |-> <<>>, assigned |-> <<>>], tokenised)

At(tokens, slots) == [k \in DOMAIN slots |-> tokens[slots[k]]]
Params(pattern, tokens) == At(tokens, Positions(pattern, LAMBDA t : t = Slot))

Rendered(pattern, params) ==
  LET nth(i) == Cardinality({j \in 1 .. i : pattern[j] = Slot})
  IN FlattenSeq([i \in DOMAIN pattern |-> IF pattern[i] = Slot THEN params[nth(i)] ELSE pattern[i]])

---------------------------------------------------------------------------
(* The wire format: the escapes, one after the other, and their reverse.     *)
EscapeOrder ==
  <<[raw |-> Back, as |-> Back], [raw |-> LF, as |-> "n"], [raw |-> CR, as |-> "r"],
    [raw |-> Tab, as |-> "t"], [raw |-> Bar, as |-> "p"]>>

Replaced(s, raw, by) == FlattenSeq([i \in DOMAIN s |-> IF s[i] = raw THEN by ELSE <<s[i]>>])

Escape_BarFirst(raw) ==
  FoldLeft(LAMBDA s, e : Replaced(s, e.raw, <<Back, e.as>>), raw, Reverse(EscapeOrder))

Escape(raw) == FoldLeft(LAMBDA s, e : Replaced(s, e.raw, <<Back, e.as>>), raw, EscapeOrder)

UnescapeMap(c) ==
  CASE c = Back -> Back [] c = "n" -> LF [] c = "r" -> CR [] c = "t" -> Tab [] c = "p" -> Bar
    [] c = "w" -> Wildcard [] OTHER -> Malformed

(* One scan from left to right.                                              *)
Unescape(field) ==
  LET step(s, c) ==
        IF s.escaped THEN [out |-> Append(s.out, UnescapeMap(c)), escaped |-> FALSE]
        ELSE IF c = Back THEN [s EXCEPT !.escaped = TRUE]
        ELSE [s EXCEPT !.out = Append(@, c)]
      end == FoldLeft(step, [out |-> <<>>, escaped |-> FALSE], field)
  IN IF end.escaped THEN Append(end.out, Malformed) ELSE end.out

Id(n) == ToString(n)

(* A placeholder in the text itself is told apart from a slot by a sentinel, *)
(* put in after the escapes so that its own escape byte is not doubled.      *)
TemplateText_SentinelFirst(pattern) ==
  FlattenSeq([i \in DOMAIN pattern |->
    IF pattern[i] = Slot THEN <<Wildcard>>
    ELSE Escape(Replaced(pattern[i], Wildcard, <<Back, "w">>))])

TemplateText(pattern) ==
  FlattenSeq([i \in DOMAIN pattern |->
    IF pattern[i] = Slot THEN <<Wildcard>>
    ELSE Replaced(Escape(pattern[i]), Wildcard, <<Back, "w">>)])

Header(id, pattern) == <<Id(id), Tab>> \o TemplateText(pattern)

Templated(id, params, terminator) ==
  JoinWith(<<<<"T">>, <<Id(id)>>, JoinWith([k \in DOMAIN params |-> Escape(params[k])], Bar),
             Escape(terminator)>>, Tab)

Verbatim(content, terminator) == JoinWith(<<<<"V">>, Escape(content), Escape(terminator)>>, Tab)

---------------------------------------------------------------------------
(* encode: the wire, or NoEncoding when no template has enough lines or the  *)
(* wire is no smaller than the text.                                         *)
NoEncoding == <<>>

Record(line, c, pattern, params, usable) ==
  IF c \in usable /\ Rendered(pattern, params) = line.content
  THEN Templated(c, params, line.terminator)
  ELSE Verbatim(line.content, line.terminator)

Wire(lines, tokens, mined, usable) ==
  LET pattern(c) == mined.clusters[c].pattern
      headers(ids) == [k \in DOMAIN ids |-> Header(ids[k], pattern(ids[k]))]
      record(k, c) == Record(lines[k], c, pattern(c), Params(pattern(c), tokens[k]), usable)
  IN JoinWith(<<<<Version>>>> \o headers(SetToSortSeq(usable, <)) \o <<<<SectionSeparator>>>>
                \o [k \in DOMAIN lines |-> record(k, mined.assigned[k])], LF)

Usable(mined) ==
  {c \in DOMAIN mined.clusters :
     Cardinality({k \in DOMAIN mined.assigned : mined.assigned[k] = c}) >= MinSupport}

Smaller(text, usable, wire) ==
  IF usable = {} \/ Size(wire) >= Size(text) THEN NoEncoding ELSE wire

EncodeLines(text, lines, tokens) ==
  LET From(mined, usable) == Smaller(text, usable, Wire(lines, tokens, mined, usable))
      Mined(mined) == From(mined, Usable(mined))
  IN Mined(Mine(tokens))

Encode(text) ==
  LET Of(lines) == EncodeLines(text, lines, [k \in DOMAIN lines |-> Tokenize(lines[k].content)])
  IN Of(Lines(text))

(* decode, which shares nothing with the encoder but the constants.          *)
DecodedLine(parsed, params) ==
  IF Len(params) # Len(parsed) - 1 THEN <<Malformed>>
  ELSE FlattenSeq([k \in DOMAIN parsed |-> IF k = 1 THEN parsed[k] ELSE params[k - 1] \o parsed[k]])

Unescaped(parts) == [k \in DOMAIN parts |-> Unescape(parts[k])]

DecodedFields(fields, headers) ==
  LET parsed(h) == Unescaped(SplitAt(Tail(Tail(h)), Wildcard))
      params(blob) == IF blob = <<>> THEN <<>> ELSE Unescaped(SplitAt(blob, Bar))
      named == {h \in Range(headers) : <<h[1]>> = fields[2]}
  IN IF fields[1] = <<"V">> /\ Len(fields) = 3 THEN Unescape(fields[2]) \o Unescape(fields[3])
     ELSE IF fields[1] = <<"T">> /\ Len(fields) = 4 /\ named # {}
     THEN DecodedLine(parsed(CHOOSE h \in named : TRUE), params(fields[3])) \o Unescape(fields[4])
     ELSE <<Malformed>>

DecodedRecord(line, headers) == DecodedFields(SplitAt(line, Tab), headers)

DecodedLines(lines, sep) ==
  LET headers == SubSeq(lines, 2, sep - 1)
      wellFormed(h) == Len(h) >= 2 /\ h[2] = Tab
  IN IF \E h \in Range(headers) : ~wellFormed(h) THEN <<Malformed>>
     ELSE FlattenSeq([k \in 1 .. Len(lines) - sep |-> DecodedRecord(lines[sep + k], headers)])

Decode(wire) ==
  LET From(lines, seps) ==
        IF lines[1] # <<Version>> \/ seps = {} THEN <<Malformed>> ELSE DecodedLines(lines, Min(seps))
      Of(lines) == From(lines, {i \in DOMAIN lines : lines[i] = <<SectionSeparator>>})
  IN Of(SplitAt(wire, LF))

(* The entry point the router calls: an encoding that does not decode to the *)
(* text is not used.                                                         *)
Verified(text, wire) == IF wire = NoEncoding \/ Decode(wire) # text THEN NoEncoding ELSE wire
EncodeVerified(text) == Verified(text, Encode(text))

(* The encoder needs no rescue: whatever it emits decodes to the text, with  *)
(* delimiters, escape bytes, placeholders and every line ending in the text. *)
LosslessByConstruction(text) == EncodeVerified(text) = Encode(text)
============================================================================
