---------------------------- MODULE ContentShape ----------------------------
(* What the router sees in a text: whether it is mixed, how it splits into   *)
(* sections, the type a detector gives it and the strategy that follows      *)
(* (router_split.py, content_detector.py, router_policy.py, the sniffs of    *)
(* csv_ingest.py and envelope_ingest.py).  A line is the set of patterns it  *)
(* matches; a text is a sequence of lines.                                   *)
EXTENDS Integers, Sequences, FiniteSets, SequencesExt

CONSTANTS ProseFloor,    \* prose matches a text may have without counting as prose
          MinDataRows    \* data rows a table needs

(* fence is ```lang alone on its line, ticks any other line that begins with *)
(* ```; array, object and envelope are JSON on one line, opens and closes a  *)
(* bracket of JSON over several; checklist is "[x] done", which begins with  *)
(* a bracket and is no JSON; cells has the field count of a table's header.  *)
Pattern == {"fence", "ticks", "array", "object", "envelope", "opens", "closes", "checklist",
            "search", "prose", "header", "change", "log", "severe", "code", "cells", "blank"}

Has(line, patterns) == line \cap patterns # {}
Filled(lines) == {i \in DOMAIN lines : "blank" \notin lines[i]}
Count(lines, patterns) == Cardinality({i \in Filled(lines) : Has(lines[i], patterns)})
IsBlank(lines) == Filled(lines) = {}

SourceCode == "source_code"
JsonArray == "json_array"
SearchResults == "search"
BuildOutput == "build"
GitDiff == "diff"
PlainText == "text"

IsMixed(lines) ==
  Cardinality({indicator \in {"fences", "json", "prose", "search"} :
    CASE indicator = "fences" -> Count(lines, {"fence"}) > 0
      [] indicator = "json" -> Count(lines, {"array", "object", "envelope", "opens", "checklist"}) > 0
      [] indicator = "prose" -> Count(lines, {"prose"}) > ProseFloor
      [] indicator = "search" -> Count(lines, {"search"}) > 0}) >= 2

---------------------------------------------------------------------------
(* split_into_sections.                                                      *)
StartsJson(line) == Has(line, {"array", "object", "envelope", "opens"})

(* _extract_json_block: the line where the brackets balance, or 0.           *)
JsonEnd(lines, start) ==
  LET depth(j) == Cardinality({k \in start .. j : "opens" \in lines[k]})
                  - Cardinality({k \in start .. j : "closes" \in lines[k]})
      ends == {j \in start .. Len(lines) : depth(j) <= 0}
  IN IF ends = {} THEN 0 ELSE Min(ends)

(* The first line from i on that satisfies P, or one past the end.           *)
Until(lines, i, P(_)) ==
  LET found == {j \in i .. Len(lines) : P(lines[j])}
  IN IF found = {} THEN Len(lines) + 1 ELSE Min(found)

StartsSection(line) == Has(line, {"fence", "search"}) \/ StartsJson(line)

Section(type, first, last, fenced) ==
  [type |-> type, first |-> first, last |-> last, fenced |-> fenced]

(* One turn of the loop at line i: the section it appends, if any, and the   *)
(* line where the loop goes on.                                              *)
Turn(sections, next) == [sections |-> sections, next |-> next]

FenceTurn(lines, i) ==
  LET close == Until(lines, i + 1, LAMBDA l : Has(l, {"fence", "ticks"}))
  IN Turn(<<Section(SourceCode, i + 1, close - 1, TRUE)>>, close + 1)

JsonTurn(lines, i) ==
  Turn(<<Section(JsonArray, i, JsonEnd(lines, i), FALSE)>>, JsonEnd(lines, i) + 1)

SearchTurn(lines, i) ==
  LET next == Until(lines, i, LAMBDA l : "search" \notin l)
  IN Turn(<<Section(SearchResults, i, next - 1, FALSE)>>, next)

TextTurn(lines, i) ==
  LET next == Until(lines, i + 1, StartsSection)
  IN Turn(IF \A j \in i .. next - 1 : "blank" \in lines[j] THEN <<>>
          ELSE <<Section(PlainText, i, next - 1, FALSE)>>, next)

TurnAt(lines, i) ==
  IF "fence" \in lines[i] THEN FenceTurn(lines, i)
  ELSE IF StartsJson(lines[i]) /\ JsonEnd(lines, i) > 0 THEN JsonTurn(lines, i)
  ELSE IF "search" \in lines[i] THEN SearchTurn(lines, i)
  ELSE TextTurn(lines, i)

(* The sections of the lines from the i-th on.                               *)
SplitFrom(lines) ==
  LET from[i \in 1 .. Len(lines) + 2] ==
        IF i > Len(lines) THEN <<>>
        ELSE TurnAt(lines, i).sections \o from[TurnAt(lines, i).next]
  IN from

SplitSections(lines) == SplitFrom(lines)[1]

Covered_EndExclusive(section) == section.first .. section.last - 1
Covered(section) == section.first .. section.last

(* The split loses no text: the sections come in order and do not overlap,   *)
(* and a line that is in none is blank or begins with ```.                   *)
SplitCovers(lines) ==
  LET sections == SplitSections(lines)
      covered == UNION {Covered(sections[k]) : k \in DOMAIN sections}
  IN /\ \A k \in 2 .. Len(sections) : sections[k].first > sections[k - 1].last
     /\ \A i \in Filled(lines) \ covered : Has(lines[i], {"fence", "ticks"})

---------------------------------------------------------------------------
(* The detectors, in the order detect_content_type tries them.  A confidence *)
(* and its threshold are written as one inequality over the counts.          *)
IsJson(lines) ==
  /\ ~IsBlank(lines)
  /\ LET first == Min(Filled(lines)) IN
       \/ "array" \in lines[first] /\ Filled(lines) = {first}
       \/ /\ "opens" \in lines[first]
          /\ JsonEnd(lines, first) = Max(Filled(lines))
          /\ \A i \in Filled(lines) : Has(lines[i], {"array", "object", "opens", "closes"})

(* sniff_envelope: an object with exactly one array of records.              *)
IsEnvelope(lines) == Cardinality(Filled(lines)) = 1 /\ Count(lines, {"envelope"}) = 1

(* A diff header alone gives the confidence that is asked for.               *)
IsDiff(lines) == Count(lines, {"header"}) > 0

IsSearch(lines) ==
  LET m == Count(lines, {"search"}) IN m > 0 /\ 3 * m >= Cardinality(Filled(lines))

(* sniff_csv: rectangular under the header, enough rows, and no JSON.        *)
IsTable(lines) ==
  /\ Cardinality(Filled(lines)) > MinDataRows
  /\ \A i \in Filled(lines) : "cells" \in lines[i]
  /\ ~Has(lines[Min(Filled(lines))], {"array", "object", "envelope", "opens", "checklist"})

IsLog(lines) ==
  LET n == Cardinality(Filled(lines))
      p == Count(lines, {"log", "severe"})
  IN p > 0 /\ 10 * p >= n /\ 50 * p + 5 * n * Count(lines, {"severe"}) >= 20 * n

IsCode(lines) ==
  LET n == Cardinality(Filled(lines))
      s == Count(lines, {"code"})
  IN s >= 3 /\ 40 * s + 2 * s * n >= 10 * n

PythonType(lines) ==
  IF IsBlank(lines) THEN PlainText
  ELSE IF IsJson(lines) \/ IsEnvelope(lines) THEN JsonArray
  ELSE IF IsDiff(lines) THEN GitDiff
  ELSE IF IsSearch(lines) THEN SearchResults
  ELSE IF IsTable(lines) THEN JsonArray
  ELSE IF IsLog(lines) THEN BuildOutput
  ELSE IF IsCode(lines) THEN SourceCode
  ELSE PlainText

(* _detect_content: the native chain knows diffs and nothing else; whatever  *)
(* it calls plain text the Python detector sees again.                       *)
NativeType(lines) ==
  IF Count(lines, {"header"}) > 0 /\ Count(lines, {"change"}) > 0 THEN GitDiff ELSE PlainText

Detect(lines) == IF NativeType(lines) # PlainText THEN NativeType(lines) ELSE PythonType(lines)

---------------------------------------------------------------------------
(* The policy: strategies, and the ratio a compression must beat, in         *)
(* hundredths, under a context pressure in hundredths.                       *)
StrategyOf(type, codeAware) ==
  CASE type = SourceCode -> IF codeAware THEN "code_aware" ELSE "passthrough"
    [] type = JsonArray -> "smart_crusher"
    [] type = SearchResults -> "search"
    [] type = BuildOutput -> "log"
    [] type = GitDiff -> "diff"
    [] type = PlainText -> "text"

DetermineStrategy(lines, codeAware) ==
  IF IsMixed(lines) THEN "mixed" ELSE StrategyOf(Detect(lines), codeAware)

AdaptiveMinRatio(relaxed, aggressive, pressure) ==
  LET ratio == relaxed + ((aggressive - relaxed) * pressure) \div 100
  IN IF ratio < relaxed THEN relaxed ELSE IF ratio > aggressive THEN aggressive ELSE ratio
=============================================================================
