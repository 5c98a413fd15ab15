---------------------------- MODULE MCTransforms ----------------------------
(* TLC instances of the pure transforms: a step draws the inputs of one of   *)
(* them, and the properties say what it must do with any input.  The shell   *)
(* pipe, which carries a text through processes of its own, takes its steps  *)
(* instead of a draw.                                                        *)
EXTENDS HookPipe, RetrievalFeedback, TLC

VARIABLE sample

Width(c) == CASE c = "word" -> 40 [] c = "--RECORDS--" -> 11 [] c \in {"<*>", "LT1"} -> 3 [] OTHER -> 1

Log == INSTANCE LogTemplate WITH PrefixDepth <- 1, MinSupport <- 2
Preview == INSTANCE OffloadPreview WITH
  TopValues <- 2, MaxCategorical <- 2, RatioPercent <- 50, SampleRows <- 3, HeadLines <- 1, TailLines <- 1,
  MaxErrorLines <- 2, SiblingKeys <- 3, SiblingChars <- 6, SiblingReserve <- 2
Code == INSTANCE CodeAware WITH RatePercent <- 60, MaxBodyLines <- 3, DocMode <- "first_line"

Slices == INSTANCE RetrieveFilters WITH
  MaxPatternChars <- 7, MaxLineChars <- 2, MaxQuantifiers <- 2, MaxContext <- 1, DefaultLimit <- 2
Sections == INSTANCE SectionPatterns WITH MaxPatternChars <- 7, MaxLineChars <- 2, MaxQuantifiers <- 2
Response == INSTANCE HookResponse

(* The settings a command may find at the places the host keeps them.        *)
Settings(files, override, rootSet, configSet) ==
  [files |-> files, override |-> override, rootSet |-> rootSet, configSet |-> configSet]
Rules(kind, entries) == [state |-> "read", rules |-> kind :> entries]
Plainly == Rules("allow", {"Read", "BashOutput"})
Blanket == Rules("ask", {"Bash"})
Scenes2 == {Settings("home" :> Plainly, "unset", TRUE, FALSE), Settings("root" :> Blanket, "unset", TRUE, FALSE),
            Settings(<<>>, "neither", TRUE, FALSE)}

(* What is retrieved, and the shapes that hints are asked for.               *)
Entries3 == {<<"", "log">>, <<"bash", "log">>, <<"bash", "diff">>}
Lookups2 == {[tool |-> "bash", type |-> "build"], [tool |-> "", type |-> "build"]}

Draws(kind, of) == sample' = [kind |-> kind, of |-> of]

(* Lines of one shape, with every character that means something to the wire.*)
Token == {"word", "<*>", "|", "\\", "n"}
LineOf(t, u) == <<"word", " ", t, " ", u>>

DrawText ==
  \E t, u \in Token, v \in {"word", "<*>", "n"}, space \in {" ", "TAB"}, x \in {<<"LF">>, <<"CR">>, <<"CR", "LF">>},
     y \in {<<"LF">>, <<"CR", "LF">>}, z \in {<<>>, <<"LF">>} :
    Draws("text", LineOf(t, "word") \o x \o LineOf(u, "word") \o y \o <<"word", space, v, " ", t>> \o z)

Cell == {[type |-> t, text |-> n, long |-> FALSE] : t \in {"int", "str", "null"}, n \in 1 .. 2}
          \cup {[type |-> "bool", text |-> 1, long |-> FALSE]} \cup {[type |-> "str", text |-> n, long |-> TRUE] : n \in 3 .. 4}

DrawRows ==
  \E a, b, c, d \in Cell, p \in SUBSET {1, 4} :
    Draws("rows", [i \in 1 .. 4 |-> (1 :> <<a, b, c, d>>[i]) @@ (IF i \in p THEN 2 :> a ELSE <<>>)])

DrawCount == \E n \in 0 .. 12 : Draws("count", n)
DrawSiblings == \E k \in 0 .. 4 : \E sizes \in [1 .. k -> 1 .. 5] : Draws("siblings", sizes)
DrawLines == \E k \in 0 .. 7 : \E severe \in [1 .. k -> BOOLEAN] : Draws("lines", severe)

DrawLanguage ==
  \E p, j, t, c, x \in 0 .. 2, e, f \in 0 .. 1, available \in BOOLEAN :
    Draws("language",
      [score |-> [l \in Range(Code!Languages) |-> CASE l = "python" -> p [] l = "javascript" -> j
                    [] l = "typescript" -> t [] l = "c" -> c [] l = "cpp" -> x [] OTHER -> 0],
       parses |-> [l \in {"javascript", "typescript", "cpp"} |->
                     [errors |-> IF l = "cpp" THEN e ELSE f, nodes |-> IF l = "cpp" THEN 1 ELSE 2]],
       available |-> available])

Symbol == {[name |-> n, top |-> top, refs |-> r, fanOut |-> o, public |-> TRUE, dunder |-> FALSE, matched |-> m, size |-> z] :
             n \in {"f", "g"}, top \in BOOLEAN, r \in 0 .. 1, o \in {1}, m \in BOOLEAN, z \in {1, 4}}

DrawSymbols ==
  \E a, b \in Symbol, extra \in 0 .. 4, c \in {s \in Symbol : s.refs = 0 /\ ~s.matched} :
    Draws("symbols", [symbols |-> <<a, b, c>>, lines |-> extra + a.size + b.size + c.size])

(* A function at a row: signature, docstring and statements of given sizes.  *)
FunctionAt(row, name, doc, sizes) ==
  LET start(j) == row + 1 + doc + Code!SumOver(1 .. j - 1, LAMBDA i : sizes[i])
  IN [kind |-> "function", name |-> name, first |-> row, last |-> start(Len(sizes) + 1) - 1, body |-> row + 1,
      hasBody |-> TRUE, doc |-> doc, decorators |-> 0, closing |-> {}, children |-> <<>>,
      stmts |-> [j \in DOMAIN sizes |-> [first |-> start(j), last |-> start(j + 1) - 1]]]

Plain(kind, row, rows, children) ==
  [kind |-> kind, name |-> "none", first |-> row, last |-> row + rows - 1, body |-> row + 1, hasBody |-> TRUE,
   doc |-> 0, decorators |-> 0, closing |-> {}, children |-> children, stmts |-> <<>>]

Sizes == UNION {[1 .. n -> {1, 3}] : n \in 1 .. 3}

DrawFile ==
  \E doc \in {0, 2}, s, t \in Sizes, kind \in {"class", "block"}, limit \in 0 .. 3, deco \in 0 .. 1 :
    LET f == [FunctionAt(3, "f", doc, s) EXCEPT !.decorators = deco]
        g == FunctionAt(f.last + 3, "g", 0, t)
        attribute == Plain("other", f.last + 2, 1, <<>>)
        owner == Plain(kind, f.last + 1, g.last - f.last, <<attribute, g>>)
    IN Draws("file", [file |-> <<Plain("import", 1, 1, <<>>), f, owner, Plain("other", g.last + 1, 1, <<>>)>>,
                      limits |-> ("f" :> limit) @@ ("g" :> 1)])

(* What a caller may pass as a pattern: a literal, an expression, one RE2    *)
(* refuses, a nested quantifier, a chain, one too long, a glob, and          *)
(* quantifiers that are escaped or in a class.                               *)
Pattern(text, regex, linear) == [text |-> text, regex |-> regex, linear |-> linear]
Literal == Pattern(<<"a">>, TRUE, TRUE)
Expression == Pattern(<<"a", "+", "b">>, TRUE, TRUE)
Lookahead == Pattern(<<"a", "(", "?", "=", "b", ")">>, TRUE, FALSE)
Glob == Pattern(<<"*", "p">>, FALSE, FALSE)
Patterns ==
  {Literal, Expression, Lookahead, Glob, Pattern(<<"(", "a", "+", ")", "+">>, TRUE, TRUE),
   Pattern(<<"a", "?", "b", "*", "c", "+">>, TRUE, TRUE), Pattern(<<"a", "b", "c", "d", "e", "f", "g", "h">>, TRUE, TRUE),
   Pattern(<<"[", "*", "+", "?", "]", "\\", "*">>, TRUE, TRUE), Pattern(<<"a", "{", "1", ",", "}", "b", "?">>, TRUE, TRUE)}

Hosts == [re2 : BOOLEAN, main : BOOLEAN]
Line(n, hits, slow) == [chars |-> n, hits |-> hits, slow |-> slow]
LinesFor(p) == {Line(1, {}, {}), Line(2, {p}, {}), Line(1, {p}, {p}), Line(3, {p}, {})}

Arg(name, value) == name :> value
Absent == <<>>
Value(type, v) == [type |-> type, v |-> v]
ListOf(items) == [type |-> "list", items |-> items]
Object(keys) == [type |-> "dict", keys |-> keys]
Source(p) == Arg("pattern", [type |-> "pattern", source |-> p])
Null == Value("null", 0)
Num(n) == Value("int", n)
Str(n) == Value("str", n)
Pair(a, b) == ListOf(<<a, b>>)
Ranges == {Absent} \union {Arg("line_range", r) : r \in
            {Null, Pair(Null, Num(2)), Pair(Num(2), Null), Pair(Num(2), Num(2)), Pair(Num(2), Num(1)), Pair(Num(4), Null), Num(1)}}
Text(lines) == [lines |-> lines, json |-> Value("none", 0)]

DrawLineArguments ==
  \E host \in Hosts, p \in Patterns, range \in Ranges, query \in BOOLEAN,
     context \in {Absent} \union {Arg("context_lines", c) : c \in {Num(0), Num(1), Num(2), Null, Value("bool", 1)}} :
    Draws("slice", [host |-> host, args |-> Source(p) @@ range @@ context, query |-> query,
                    original |-> Text(<<Line(1, {p}, {}), Line(1, {}, {}), Line(3, {p}, {})>>)])

DrawLineSlice ==
  \E host \in Hosts, p \in {Literal, Expression, Lookahead}, given \in BOOLEAN, range \in Ranges, c \in 0 .. 1 :
    \E lines \in [1 .. 3 -> LinesFor(p)] :
      Draws("slice", [host |-> host, original |-> Text(lines), query |-> FALSE,
                      args |-> (IF given THEN Source(p) ELSE Absent) @@ range @@ Arg("context_lines", Num(c))])

Fields == {Absent} \union {Arg("fields", f) : f \in {ListOf(<<Str(2)>>), ListOf(<<>>), ListOf(<<Num(1)>>), Num(1)}}
Selects == {Absent, Arg("select_field", Str(1)), Arg("select_field", Num(1))}
Equals == {Absent} \union {Arg("select_equals", e) : e \in {Null, Value("bool", 1), Num(1), Str(1), ListOf(<<>>)}}
Bounds(name) == {Absent} \union {Arg(name, b) : b \in {Num(1), Num(2), Value("bool", 1)}}
Limits == {Absent} \union {Arg("limit", n) : n \in {Num(1), Num(0), Value("bool", 1)}}

Row(cell) == Object(IF cell = Absent THEN 2 :> Num(7) ELSE (1 :> cell) @@ (2 :> Num(7)))
Rows == {Row(c) : c \in {Absent, Null, Value("bool", 1), Num(1), Value("float", 2), Str(1)}}
Json(j) == [lines |-> <<Line(1, {}, {})>>, json |-> j]
Shapes ==
  {Value("none", 0), Value("str", 0), ListOf(<<>>), ListOf(<<Row(Num(1)), Num(1)>>), Object(<<Num(1)>>),
   Object(<<ListOf(<<Row(Num(1))>>), Num(1)>>), Object(<<ListOf(<<Row(Num(1))>>), ListOf(<<Row(Num(1))>>)>>)}

DrawRowArguments ==
  \E fields \in Fields, select \in Selects, equals \in Equals, lo \in Bounds("select_min"), hi \in Bounds("select_max"), limit \in Limits :
    Draws("slice", [host |-> [re2 |-> TRUE, main |-> FALSE], query |-> FALSE, args |-> fields @@ select @@ equals @@ lo @@ hi @@ limit,
                    original |-> Json(ListOf(<<Row(Num(1)), Row(Value("bool", 1))>>))])

DrawRowSlice ==
  \E fields \in {Absent, Arg("fields", ListOf(<<Str(2)>>))}, limit \in {Absent, Arg("limit", Num(1))},
     test \in Equals \union Bounds("select_min") \union Bounds("select_max"), wrapped \in BOOLEAN :
    \E json \in Shapes \union {IF wrapped THEN Object(<<ListOf(r)>>) ELSE ListOf(r) : r \in [1 .. 3 -> Rows]} :
      Draws("slice", [host |-> [re2 |-> TRUE, main |-> FALSE], query |-> FALSE,
                      args |-> Arg("select_field", Str(1)) @@ fields @@ limit @@ test, original |-> Json(json)])

DrawSections ==
  \E host \in Hosts, include \in SUBSET {Literal, Glob}, exclude \in {{}, {Expression}, {Lookahead}} :
    \E lines \in [1 .. 3 -> {Line(1, {}, {}), Line(1, {Literal}, {}), Line(1, {Literal} \union exclude, {}),
                               Line(1, exclude, exclude), Line(3, {Literal}, {}), Line(2, {Glob}, {})}] :
      Draws("sections", [host |-> host, include |-> include, exclude |-> exclude, lines |-> lines])

SettingsFiles ==
  {Missing, Plainly, Blanket, File("unreadable", <<>>), File("garbled", <<>>), Rules("deny", {"Bash(rm:*", "Read"}),
   Rules("allow", {"Bash(ls:*)"}), Rules("deny", NotList), Rules("ask", {"not text", "Read"})}
Places == {"managed", "fragment", "policy", "policy fragment", "root", "cwd", "home", "config"}

DrawSettings ==
  \E p, q \in Places, f \in SettingsFiles, g \in {Plainly, Blanket}, override \in {"unset", "file", "directory", "neither"},
     rootSet, configSet \in BOOLEAN :
    Draws("settings", Settings((p :> f) @@ (q :> g), override, rootSet, configSet))

Field(name, values) == {<<>>} \union {name :> v : v \in values}
Word == Response!Text(<<"x">>)
Secret == Response!Text(<<"x", "key">>)
Empty == Response!Text(<<>>)
Streams == {Word, Secret, Empty, Response!Text(<<" ">>), Response!Null}
Contents ==
  {Word, Empty, Response!Null, Response!Blocks(<<>>), Response!Blocks(<<Word, Secret>>), Response!Blocks(<<Word, Response!Null>>),
   Response!Object("stdout" :> Word), Response!Object("text" :> Empty)}

DrawResponse ==
  \/ \E content \in Contents : Draws("response", content)
  \/ \E content \in Field("content", Contents), stdout \in Field("stdout", Streams), stderr \in Field("stderr", Streams),
        result \in Field("result", {Word, Empty}), text \in Field("text", {Word, Empty}) :
       Draws("response", Response!Object(content @@ stdout @@ stderr @@ result @@ text))

(* A behaviour is about one of the transforms from its first state on.        *)
Awaits(what) == sample = [kind |-> "none", of |-> what]

Subjects ==
  {"pipe", "text", "rows", "counts", "language", "symbols", "file", "line arguments", "line slices",
   "row arguments", "row slices", "sections", "feedback", "settings", "response"}

Init == PipeInit /\ FeedbackInit /\ \E what \in Subjects : Awaits(what)

Drawn ==
  /\ \/ Awaits("text") /\ DrawText
     \/ Awaits("rows") /\ DrawRows
     \/ Awaits("counts") /\ (DrawCount \/ DrawSiblings \/ DrawLines)
     \/ Awaits("language") /\ DrawLanguage
     \/ Awaits("symbols") /\ DrawSymbols
     \/ Awaits("file") /\ DrawFile
     \/ Awaits("line arguments") /\ DrawLineArguments
     \/ Awaits("line slices") /\ DrawLineSlice
     \/ Awaits("row arguments") /\ DrawRowArguments
     \/ Awaits("row slices") /\ DrawRowSlice
     \/ Awaits("sections") /\ DrawSections
     \/ Awaits("settings") /\ DrawSettings
     \/ Awaits("response") /\ DrawResponse
  /\ UNCHANGED <<command, project, clock, asks, events, calls>>

Piped == Awaits("pipe") /\ PipeNext /\ UNCHANGED <<sample, clock, asks, events, calls>>
Advised == Awaits("feedback") /\ FeedbackNext /\ UNCHANGED <<sample, command, project>>

Next == Piped \/ Advised \/ Drawn

Spec == Init /\ [][Next]_<<sample, command, project, clock, asks, events, calls>>

(* What is taken apart is put together again: the log-template encoder never *)
(* needs its decode check, for what it emits decodes to the text it was      *)
(* given; the runs of a filtered compression are its lines, with no line the *)
(* caller excluded in a run that is compressed; and a shorter text goes back *)
(* into a tool's response where the text was read.                           *)
TextKept ==
  /\ sample.kind = "text" => Log!LosslessByConstruction(sample.of)
  /\ sample.kind = "sections" =>
       Sections!PartitionKeeps(sample.of.host, sample.of.include, sample.of.exclude, sample.of.lines)
  /\ sample.kind = "response" => Response!Mirrors(sample.of)

(* What a partial view shows is so: of a stored text the offload preview,     *)
(* which fits its budget, and the slices of a retrieval; and of the host's    *)
(* rules the settings files that the permission guard finds, for a command is *)
(* rewritten only if no rule governs it.                                      *)
ViewsTrue ==
  /\ sample.kind = "rows" => Preview!SummaryTrue(sample.of)
  /\ sample.kind = "count" => Preview!SampleSpans(sample.of)
  /\ sample.kind = "siblings" => Preview!SiblingsFit(sample.of)
  /\ sample.kind = "lines" => Preview!ErrorsSurface(sample.of)
  /\ sample.kind = "slice" => Slices!SliceTrue(sample.of.host, sample.of.original, sample.of.args, sample.of.query)
  /\ sample.kind = "settings" => NeverMasks(sample.of)

(* The code compressor reads the right language, shares its budget fairly,   *)
(* keeps every signature and announces what it omits.                        *)
CodeKeeps ==
  /\ sample.kind = "language" => Code!LanguageSound(sample.of.score, sample.of.parses, sample.of.available)
  /\ sample.kind = "symbols" => Code!BudgetFair(sample.of.symbols, sample.of.lines)
  /\ sample.kind = "file" => Code!RenderKeeps(sample.of.file, sample.of.limits)
=============================================================================
