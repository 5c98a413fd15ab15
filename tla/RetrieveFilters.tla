-------------------------- MODULE RetrieveFilters --------------------------
(* The slices of a retrieved original: how loose arguments become a filter,  *)
(* and what each filter keeps of the text or of the rows.                    *)
(*                                                                           *)
(* A JSON value is its type with a value, the items of a list or the keys of *)
(* an object, which map to values.  The arguments map the names that were    *)
(* passed to values; one of type "pattern" is a string given as the pattern. *)
(* An original is its lines and what parsing it as JSON gives, which may be  *)
(* that it is no JSON.                                                       *)
EXTENDS LineSearch, SequencesExt

CONSTANTS
  MaxContext,     \* _MAX_CONTEXT_LINES
  DefaultLimit    \* _DEFAULT_SELECT_LIMIT

None == [type |-> "null", v |-> 0]
IsNone(x) == x.type = "null"
FilterError == [kind |-> "error"]

Get(args, name) == IF name \in DOMAIN args THEN args[name] ELSE None
Present(args, name) == ~IsNone(Get(args, name))

(* bool is a type of its own here, as the isinstance checks make it.         *)
IsInt(x) == x.type = "int"
IsNumber(x) == x.type \in {"int", "float"}

---------------------------------------------------------------------------
(* RetrieveFilters.parse.  Every rule must hold; which of them is reported   *)
(* first is wording.                                                         *)
PatternOK(host, args) ==
  LET p == Get(args, "pattern") IN Present(args, "pattern") => p.type = "pattern" /\ Admitted(host, p.source) /\ p.source.regex

Context(args) == IF "context_lines" \in DOMAIN args THEN args["context_lines"] ELSE [type |-> "int", v |-> 0]
ContextOK(args) == IsInt(Context(args)) /\ Context(args).v \in 0 .. MaxContext

(* _parse_line_range: a pair of bounds from 1, either of them open.          *)
Bound(args, k) == IF Present(args, "line_range") THEN args["line_range"].items[k] ELSE None
LineRangeOK(args) ==
  Present(args, "line_range") =>
    /\ args["line_range"].type = "list" /\ Len(args["line_range"].items) = 2
    /\ \A k \in 1 .. 2 : ~IsNone(Bound(args, k)) => IsInt(Bound(args, k)) /\ Bound(args, k).v >= 1
    /\ ~IsNone(Bound(args, 1)) /\ ~IsNone(Bound(args, 2)) => Bound(args, 2).v >= Bound(args, 1).v

FieldsOK(args) ==
  LET f == Get(args, "fields")
  IN Present(args, "fields") => f.type = "list" /\ f.items # <<>> /\ \A k \in DOMAIN f.items : f.items[k].type = "str"

(* _parse_bound and _parse_limit.                                            *)
BoundOK(x) == ~IsNone(x) => IsNumber(x)
LimitOK(x) == ~IsNone(x) => IsInt(x) /\ x.v >= 1

(* _parse_select: the field is the anchor, equality and range exclude each   *)
(* other, and a limit needs rows to bound.                                   *)
HasRange(args) == Present(args, "select_min") \/ Present(args, "select_max")
Anchored(args) == Present(args, "select_field") \/ "select_equals" \in DOMAIN args \/ HasRange(args)
SelectOK(args) ==
  LET lo == Get(args, "select_min")  hi == Get(args, "select_max")
  IN Anchored(args) \/ Present(args, "limit") =>
       /\ LimitOK(Get(args, "limit"))
       /\ IF ~Present(args, "select_field")
          THEN ~Anchored(args) /\ Present(args, "fields")
          ELSE /\ args["select_field"].type = "str"
               /\ ~("select_equals" \in DOMAIN args /\ HasRange(args))
               /\ Get(args, "select_equals").type \notin {"list", "dict"}
               /\ BoundOK(lo) /\ BoundOK(hi)
               /\ ~IsNone(lo) /\ ~IsNone(hi) => hi.v >= lo.v

HasLines(f) == ~(IsNone(f.pattern) /\ IsNone(f.start) /\ IsNone(f.end))
HasSelect(f) == ~IsNone(f.select)
IsEmpty(f) == ~HasLines(f) /\ IsNone(f.fields) /\ ~HasSelect(f)

Filters(args) ==
  [kind |-> "filters", pattern |-> Get(args, "pattern"), context |-> Context(args).v,
   start |-> Bound(args, 1), end |-> Bound(args, 2), fields |-> Get(args, "fields"),
   select |-> Get(args, "select_field"), equals |-> Get(args, "select_equals"),
   min |-> Get(args, "select_min"), max |-> Get(args, "select_max"),
   limit |-> IF Present(args, "select_field") /\ ~Present(args, "limit")
             THEN [type |-> "int", v |-> DefaultLimit] ELSE Get(args, "limit")]

Parse(host, args) ==
  IF /\ PatternOK(host, args) /\ ContextOK(args) /\ LineRangeOK(args) /\ FieldsOK(args)
     /\ ~(Present(args, "fields") /\ HasLines(Filters(args)))
     /\ SelectOK(args)
     /\ ~(Present(args, "select_field") /\ HasLines(Filters(args)))
  THEN Filters(args)
  ELSE FilterError

---------------------------------------------------------------------------
(* _line_matches: a line above the cap is searched for a literal only.       *)
LineMatches(host, p, line) ==
  IF line.chars <= MaxLineChars THEN WithinBudget(host, p, line) ELSE IsLiteral(p) /\ p \in line.hits

(* _filter_lines: the window first, then the matches with their context      *)
(* inside it, and the lines the cap kept from the search counted.            *)
Window(lines, f) ==
  LET start == IF IsNone(f.start) THEN 1 ELSE f.start.v
      end == IF IsNone(f.end) THEN Len(lines) ELSE f.end.v
  IN start .. Min({end, Len(lines)})

Around_Unbounded(lines, window, matches, context) ==
  {i \in DOMAIN lines : \E j \in matches : i \in j - context .. j + context}
Around(lines, window, matches, context) ==
  {i \in window : \E j \in matches : i \in j - context .. j + context}

Skipped_LiteralToo(p, lines, window) == 0
Skipped(p, lines, window) ==
  IF IsLiteral(p) THEN 0 ELSE Cardinality({i \in window : lines[i].chars > MaxLineChars})

FilterLines(host, lines, f) ==
  LET window == Window(lines, f)
      matches == {i \in window : LineMatches(host, f.pattern.source, lines[i])}
      kept == IF IsNone(f.pattern) THEN window ELSE Around(lines, window, matches, f.context)
  IN [kind |-> "lines", shown |-> kept, matched |-> Cardinality(kept), total |-> Len(lines),
      skipped |-> IF IsNone(f.pattern) THEN 0 ELSE Skipped(f.pattern.source, lines, window)]

(* _project_row: an absent key is left out.                                  *)
ProjectRow(row, fields) ==
  IF IsNone(fields) THEN row ELSE [key \in {k \in DOMAIN row : \E j \in DOMAIN fields.items : fields.items[j].v = k} |-> row[key]]

(* The rows up to the limit, and the marker row when some are left out.      *)
Limited(kind, rows, limit, total) ==
  LET cut == ~IsNone(limit) /\ Len(rows) > limit.v
  IN [kind |-> kind, shown |-> IF cut THEN SubSeq(rows, 1, limit.v) ELSE rows, truncated |-> cut,
      matched |-> Len(rows), total |-> total]

Rows(items) == SelectSeq(items, LAMBDA item : item.type = "dict")
Project(rows, fields) == [k \in DOMAIN rows |-> ProjectRow(rows[k].keys, fields)]

(* _project_fields.                                                          *)
ProjectFields(json, f) ==
  IF json.type # "list" THEN FilterError
  ELSE Limited("fields", Project(Rows(json.items), f.fields), f.limit, Len(json.items))

(* _extract_rows: the list itself, or the one list of objects in an object.  *)
IsRows(x) == x.type = "list" /\ x.items # <<>> /\ Len(Rows(x.items)) = Len(x.items)
ExtractRows(json) ==
  CASE json.type = "list" -> IF IsRows(json) THEN json ELSE None
    [] json.type = "dict" ->
         LET dominant == {k \in DOMAIN json.keys : IsRows(json.keys[k])}
         IN IF Cardinality(dominant) = 1 THEN json.keys[CHOOSE k \in dominant : TRUE] ELSE None
    [] OTHER -> None

(* _equals: Python equates True with 1; here a boolean equals only itself.   *)
Numeric == {"bool", "int", "float"}
Equals_Python(cell, target) == (cell.type = target.type \/ {cell.type, target.type} \subseteq Numeric) /\ cell.v = target.v
Equals(cell, target) ==
  /\ (cell.type = "bool") = (target.type = "bool")
  /\ cell.type = target.type \/ (IsNumber(cell) /\ IsNumber(target))
  /\ cell.v = target.v

(* _select_rows: by equality unless a range is given; an absent field is     *)
(* null to the one and outside the other.                                    *)
Selected(row, f) ==
  LET cell == Get(row, f.select.v)
  IN IF IsNone(f.min) /\ IsNone(f.max) THEN Equals(cell, f.equals)
     ELSE /\ IsNumber(cell)
          /\ ~IsNone(f.min) => f.min.v <= cell.v
          /\ ~IsNone(f.max) => cell.v <= f.max.v

SelectRows(json, f) ==
  LET rows == ExtractRows(json)
      kept == SelectSeq(rows.items, LAMBDA row : Selected(row.keys, f))
  IN IF IsNone(rows) THEN FilterError ELSE Limited("rows", Project(kept, f.fields), f.limit, Len(rows.items))

(* apply_filters.                                                            *)
ApplyFilters(host, original, f) ==
  IF HasSelect(f) THEN SelectRows(original.json, f)
  ELSE IF ~IsNone(f.fields) THEN ProjectFields(original.json, f)
  ELSE FilterLines(host, original.lines, f)

(* retrieve and the server's handler: bad arguments, a pattern nothing would *)
(* bound, and a query next to a filter are refused; an empty filter gives    *)
(* the whole original.                                                       *)
Slice(host, original, args, query) ==
  LET f == Parse(host, args)
  IN IF f.kind = "error" THEN FilterError
     ELSE IF ~IsNone(f.pattern) /\ Refuses(host) THEN FilterError
     ELSE IF query /\ ~IsEmpty(f) THEN FilterError
     ELSE IF IsEmpty(f) THEN [kind |-> "whole"]
     ELSE ApplyFilters(host, original, f)

---------------------------------------------------------------------------
(* What a caller who asked for a row means by it.                            *)
Asked(cell, args) ==
  LET target == Get(args, "select_equals")
  IN CASE HasRange(args) ->
            /\ cell.type \in {"int", "float"}
            /\ Present(args, "select_min") => cell.v >= args["select_min"].v
            /\ Present(args, "select_max") => cell.v <= args["select_max"].v
       [] target.type \in {"int", "float"} -> cell.type \in {"int", "float"} /\ cell.v = target.v
       [] OTHER -> cell.type = target.type /\ cell.v = target.v

(* A slice of lines shows nothing outside the window it was asked for, shows *)
(* a line only near a line that has the pattern, and hides a line that has   *)
(* it only if it says so or the match ran out of its budget.                 *)
LinesTrue(host, original, args, r) ==
  LET asked == {i \in DOMAIN original.lines :
                  /\ ~IsNone(Bound(args, 1)) => i >= Bound(args, 1).v
                  /\ ~IsNone(Bound(args, 2)) => i <= Bound(args, 2).v}
      p == args["pattern"].source
      having == {i \in asked : p \in original.lines[i].hits}
  IN /\ r.shown \subseteq asked
     /\ ~Present(args, "pattern") => r.shown = asked
     /\ Present(args, "pattern") =>
          /\ \A i \in r.shown : \E j \in having : j - i \in - Context(args).v .. Context(args).v
          /\ \A i \in having \ r.shown :
               \/ original.lines[i].chars > MaxLineChars /\ r.skipped > 0
               \/ p \in original.lines[i].slow /\ host.main

(* A slice of rows is the rows that were asked for, no boolean among numbers *)
(* and no missing field among values; a cut is announced, and counts what it *)
(* cut.                                                                      *)
RowsTrue(original, args, r) ==
  LET rows == ExtractRows(original.json).items
      asked == {k \in DOMAIN rows : Asked(Get(rows[k].keys, args["select_field"].v), args)}
  IN r.kind = "rows" =>
       /\ r.matched = Cardinality(asked)
       /\ r.truncated = (Len(r.shown) < r.matched)
       /\ \A k \in DOMAIN r.shown : \E j \in asked :
            /\ DOMAIN r.shown[k] \subseteq DOMAIN rows[j].keys
            /\ \A key \in DOMAIN r.shown[k] : r.shown[k][key] = rows[j].keys[key]

(* A slice says only what is so of the original, nothing unbounded runs for  *)
(* it, and an original without rows is an error, never an empty slice.       *)
SliceTrue(host, original, args, query) ==
  LET r == Slice(host, original, args, query)
  IN /\ r.kind = "lines" => LinesTrue(host, original, args, r)
     /\ r.kind = "lines" /\ Present(args, "pattern") => AlwaysBounded(host, args["pattern"].source) /\ CountsPlain(args["pattern"].source)
     /\ RowsTrue(original, args, r)
     /\ IsNone(ExtractRows(original.json)) => r.kind # "rows"
     /\ r.kind \in {"rows", "fields"} => original.json.type \in {"list", "dict"}
     /\ r.kind = "whole" => \A name \in DOMAIN args \ {"context_lines", "line_range"} : IsNone(args[name])
=============================================================================
