----------------------------- MODULE LineSearch -----------------------------
(* Searching lines with a pattern its caller wrote.  A pattern that could    *)
(* backtrack without end is screened at the door; what gets in is run by RE2 *)
(* when there is one, else under an alarm on the main thread, else with no   *)
(* budget at all.                                                            *)
(*                                                                           *)
(* A pattern is its characters and what the two engines, which are not       *)
(* modelled, make of it: whether Python compiles it and whether RE2 does.  A *)
(* line is its length, the patterns it contains and those that would take    *)
(* Python's engine past the budget.  Both callers compile a pattern from its *)
(* source alone, so RE2 sees every flag; an RE2 search that raises is left   *)
(* out.                                                                      *)
EXTENDS Integers, Sequences, FiniteSets, FiniteSetsExt

CONSTANTS
  MaxPatternChars,   \* _MAX_PATTERN_CHARS
  MaxLineChars,      \* _MAX_REGEX_LINE_CHARS
  MaxQuantifiers     \* _MAX_VARIABLE_QUANTIFIERS

Back == "\\"

(* count_variable_quantifiers: one pass that skips an escaped character, a   *)
(* class, the ? of a group extension and a repetition without a comma.       *)
Quantifiers(text) ==
  LET Close(i) == {j \in i + 1 .. Len(text) : text[j] = "}"}
      IsRange(i) == Close(i) # {} /\ \E j \in i + 1 .. Min(Close(i)) : text[j] = ","
      Opens(i) == text[i] = "?" /\ i > 1 /\ text[i - 1] = "("
      Counts(i) == text[i] \in {"?", "*", "+"} /\ ~Opens(i)
      From[i \in 1 .. Len(text) + 2, class \in BOOLEAN] ==
        IF i > Len(text) THEN 0
        ELSE IF text[i] = Back THEN From[i + 2, class]
        ELSE IF class THEN From[i + 1, text[i] # "]"]
        ELSE IF text[i] = "{" /\ IsRange(i) THEN 1 + From[Min(Close(i)) + 1, FALSE]
        ELSE (IF Counts(i) THEN 1 ELSE 0) + From[i + 1, text[i] = "["]
  IN From[1, FALSE]

(* _NESTED_QUANTIFIER_RE: a group with + or * inside and + or * behind.      *)
Nested(text) ==
  \E open, close \in DOMAIN text :
    /\ open < close /\ text[open] = "(" /\ text[close] = ")"
    /\ \A k \in open + 1 .. close - 1 : text[k] # ")"
    /\ \E k \in open + 1 .. close - 1 : text[k] \in {"+", "*"}
    /\ close < Len(text) /\ text[close + 1] \in {"+", "*"}

(* _pattern_literal_text: nothing in it means anything to an engine.         *)
Meta == {".", "*", "+", "?", "{", "}", "[", "]", "(", ")", "|", "^", "$", Back}
IsLiteral(p) == \A k \in DOMAIN p.text : p.text[k] \notin Meta

(* classify_boundability.                                                    *)
Classify(host, p) ==
  IF ~host.re2 \/ ~p.regex THEN "unknown" ELSE IF p.linear THEN "boundable" ELSE "unboundable"

(* _validate_pattern and _reject_pathological_pattern: the four screens.     *)
Admitted_UnboundableToo(host, p) ==
  Len(p.text) <= MaxPatternChars /\ ~Nested(p.text) /\ Quantifiers(p.text) <= MaxQuantifiers
Admitted(host, p) ==
  /\ Len(p.text) <= MaxPatternChars
  /\ Classify(host, p) # "unboundable"
  /\ ~Nested(p.text)
  /\ Quantifiers(p.text) <= MaxQuantifiers

(* search_within_budget: RE2 if it takes the pattern; else the alarm, which  *)
(* rings on the main thread only; else nothing stops the match.              *)
Engine(host, p) ==
  IF host.re2 /\ p.linear THEN "re2" ELSE IF host.main THEN "alarm" ELSE "unbudgeted"

Verdict(host, p, line) ==
  IF Engine(host, p) = "alarm" /\ p \in line.slow THEN "budget_exceeded"
  ELSE IF p \in line.hits THEN "match" ELSE "no_match"

(* matches_within_budget: an overrun counts as no match.                     *)
WithinBudget(host, p, line) == Verdict(host, p, line) = "match"

(* The server matches on worker threads and, without RE2, refuses filters    *)
(* that carry a pattern.  Off the main thread a host is the server here; an  *)
(* embedder's own worker thread without RE2 has no such refusal, and no      *)
(* budget either, as search_within_budget says.                              *)
Refuses(host) == ~host.re2 /\ ~host.main

---------------------------------------------------------------------------
(* No pattern that gets past the screens, and past the server's refusal, is  *)
(* ever run without a bound: on a worker thread RE2 runs it, on the main     *)
(* thread RE2 or the alarm does.                                             *)
AlwaysBounded(host, p) ==
  p.regex /\ Admitted(host, p) /\ ~Refuses(host) => Engine(host, p) # "unbudgeted"

(* The quantifiers counted are those an engine repeats by: as many as the    *)
(* pattern has outside escapes, classes and group extensions.  Stated for    *)
(* patterns that have none of these.                                         *)
CountsPlain(p) ==
  (\A k \in DOMAIN p.text : p.text[k] \notin {Back, "[", "(", "{"}) =>
    Quantifiers(p.text) = Cardinality({k \in DOMAIN p.text : p.text[k] \in {"?", "*", "+"}})
=============================================================================
