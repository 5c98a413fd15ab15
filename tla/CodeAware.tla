------------------------------ MODULE CodeAware ------------------------------
(* The code compressor (code_aware_compressor.py): the language it settles   *)
(* on, the lines of body it allots to each symbol, and what it keeps of a    *)
(* file.  A file is a sequence of the nodes tree-sitter finds at its top; a  *)
(* node has its rows, and a function the rows of its signature, its          *)
(* docstring and its statements.  The gates a render passes before it ships  *)
(* are in ContentEngine.                                                     *)
(* Rows stand for the text the code slices by byte offset, which is that     *)
(* text as long as no character before it takes more than one byte.          *)
EXTENDS Integers, Sequences, FiniteSets, SequencesExt

CONSTANTS RatePercent,     \* target_compression_rate, in hundredths
          MaxBodyLines,    \* max_body_lines
          DocMode          \* docstring_mode: "full", "first_line" or "remove"

SumOver(S, f(_)) == FoldSet(LAMBDA x, n : f(x) + n, 0, S)
AtLeast(a, b) == IF a < b THEN b ELSE a
AtMost(a, b) == IF a > b THEN b ELSE a

---------------------------------------------------------------------------
(* detect_language.  score counts the hits of a language's patterns, in the  *)
(* order of the table; errors and nodes are those of its parse.              *)
Languages == <<"python", "javascript", "typescript", "go", "rust", "java", "c", "cpp">>
Unknown == "unknown"

Settled(score) ==
  [lang \in DOMAIN score |->
     IF \/ lang = "javascript" /\ score["typescript"] >= 2
        \/ lang = "c" /\ score["cpp"] >= 2
     THEN 0 ELSE score[lang]]

(* Ties go to the language with more hits, then to the earlier of the table. *)
Order(lang) == CHOOSE k \in DOMAIN Languages : Languages[k] = lang
Before(score, a, b) == score[a] > score[b] \/ (score[a] = score[b] /\ Order(a) < Order(b))

DetectLanguage(score, parses, available) ==
  LET rated == Settled(score)
      candidates == {lang \in DOMAIN rated : rated[lang] > 0}
      parsed == {lang \in candidates : lang \in DOMAIN parses}
      better(a, b) == \/ parses[a].errors < parses[b].errors
                      \/ /\ parses[a].errors = parses[b].errors
                         /\ \/ parses[a].nodes > parses[b].nodes
                            \/ parses[a].nodes = parses[b].nodes /\ Before(rated, a, b)
  IN IF available /\ parsed # {}
     THEN CHOOSE a \in parsed : \A b \in parsed \ {a} : better(a, b)
     ELSE IF candidates # {}
     THEN CHOOSE a \in candidates : \A b \in candidates \ {a} : Before(rated, a, b)
     ELSE Unknown

(* A hint that names a known language is taken; any other is no hint.        *)
ResolveLanguage(hints, detected) ==
  LET known == SelectSeq(hints, LAMBDA h : h \in Range(Languages))
  IN IF known = <<>> THEN detected ELSE known[1]

---------------------------------------------------------------------------
(* A symbol: its name, whether it is defined at the top, its occurrences     *)
(* besides its definitions, the defined names it mentions, what its name     *)
(* tells (public, dunder, in the context), and the size of its body.         *)
Raw(s) == 2 * s.refs + s.fanOut + (IF s.public THEN 2 ELSE 0)
            + (IF s.dunder THEN 4 ELSE 0) + (IF s.matched THEN 6 ELSE 0)

(* round: half to even.                                                      *)
Rounded(p, q) ==
  LET floor == p \div q
      rest == 2 * (p % q)
  IN IF rest > q \/ (rest = q /\ floor % 2 = 1) THEN floor + 1 ELSE floor

(* The score of each symbol in thousandths, relative to the file's others.   *)
Scores(symbols) ==
  LET raws == {Raw(symbols[k]) : k \in DOMAIN symbols}
      low == Min(raws)
      span == Max(raws) - low
  IN [k \in DOMAIN symbols |->
        IF span > 0 THEN Rounded(1000 * (Raw(symbols[k]) - low), span) ELSE 500]

Weight(symbols, k) == AtLeast(Scores(symbols)[k], 50) * symbols[k].size
BodyLines(symbols) == SumOver(DOMAIN symbols, LAMBDA k : symbols[k].size)

(* What the target leaves for bodies, in hundredths of a line.               *)
BodyBudget(symbols, totalLines) ==
  AtLeast(0, totalLines * RatePercent - 100 * AtLeast(0, totalLines - BodyLines(symbols)))

Allotted_Unweighted(symbols, totalLines) ==
  [k \in DOMAIN symbols |-> BodyBudget(symbols, totalLines) \div 100]

Allotted(symbols, totalLines) ==
  LET total == SumOver(DOMAIN symbols, LAMBDA k : Weight(symbols, k))
  IN [k \in DOMAIN symbols |->
        AtMost(Rounded(BodyBudget(symbols, totalLines) * Weight(symbols, k), 100 * total),
               symbols[k].size)]

(* Limits are looked up by short name: a symbol at the top writes its own, a *)
(* method only raises it.                                                    *)
Limits(symbols, totalLines) ==
  LET allotted == Allotted(symbols, totalLines)
      write(limits, k) ==
        LET name == symbols[k].name
            known == name \in DOMAIN limits
            new == IF symbols[k].top \/ ~known THEN allotted[k] ELSE AtLeast(limits[name], allotted[k])
        IN [n \in DOMAIN limits \cup {name} |-> IF n = name THEN new ELSE limits[n]]
  IN FoldLeft(write, <<>>, [k \in DOMAIN symbols |-> k])

BodyLimit(limits, name) ==
  IF name \in DOMAIN limits THEN AtMost(limits[name], MaxBodyLines) ELSE MaxBodyLines

---------------------------------------------------------------------------
(* The body of a function: whole statements while they fit; the first one    *)
(* stays whatever its size.                                                  *)
Span(s) == s.last - s.first + 1
SpanOf(stmts, k) == SumOver(1 .. k, LAMBDA j : Span(stmts[j]))

KeptStatements(stmts, limit) ==
  Max({k \in 0 .. Len(stmts) : \A j \in 2 .. k : SpanOf(stmts, j) <= limit} \cap
      {k \in 0 .. Len(stmts) : stmts # <<>> => k >= 1})

Omitted_Budget(stmts, limit) == SpanOf(stmts, Len(stmts)) - limit
Omitted(stmts, limit) == SpanOf(stmts, Len(stmts)) - SpanOf(stmts, KeptStatements(stmts, limit))

RowsOf(s) == s.first .. s.last
Decorators(node) == node.first - node.decorators .. node.first - 1

DocRows(node) ==
  IF node.doc = 0 \/ DocMode = "remove" THEN {}
  ELSE IF DocMode = "full" THEN node.body .. node.body + node.doc - 1
  ELSE {node.body}

(* What shows of a definition: rows of the source, and how many lines its    *)
(* note says were omitted.                                                   *)
Whole(node) == [rows |-> RowsOf(node), omitted |-> 0]

CompressFunction(node, limits) ==
  LET limit == BodyLimit(limits, node.name)
      kept == KeptStatements(node.stmts, limit)
  IN IF Span(node) <= limit + 2 \/ ~node.hasBody THEN Whole(node)
     ELSE [rows |-> (node.first .. node.body - 1) \cup DocRows(node) \cup node.closing
                      \cup UNION {RowsOf(node.stmts[j]) : j \in 1 .. kept},
           omitted |-> Omitted(node.stmts, limit)]

(* A class keeps its header and what is no method; its methods are functions.*)
CompressClass(node, limits) ==
  IF ~node.hasBody THEN Whole(node)
  ELSE LET methods == {j \in DOMAIN node.children : node.children[j].kind = "function"}
           shown(j) == CompressFunction(node.children[j], limits)
       IN [rows |-> (node.first .. node.body - 1) \cup node.closing
                      \cup UNION {shown(j).rows \cup Decorators(node.children[j]) : j \in methods}
                      \cup UNION {RowsOf(node.children[j]) : j \in DOMAIN node.children \ methods},
           omitted |-> SumOver(methods, LAMBDA j : shown(j).omitted)]

Compressed(node, limits) ==
  LET shown == CASE node.kind = "function" -> CompressFunction(node, limits)
                 [] node.kind = "class" -> CompressClass(node, limits)
                 [] OTHER -> Whole(node)
  IN [shown EXCEPT !.rows = @ \cup Decorators(node)]

(* _extract_structure and _assemble_compressed: the definitions by kind,     *)
(* each in its order; what the visitor does not capture it enters, and that  *)
(* node is then shown whole as well, after everything else.                  *)
Captured(node) == node.kind \in {"import", "type", "class", "function"}

Found(file, kind) ==
  FlattenSeq([i \in DOMAIN file |->
    SelectSeq(IF Captured(file[i]) THEN <<file[i]>> ELSE file[i].children,
              LAMBDA n : n.kind = kind)])

Render_TopDropped(file, limits) ==
  LET of(kind) == LET found == Found(file, kind) IN [i \in DOMAIN found |-> Compressed(found[i], limits)]
  IN of("import") \o of("type") \o of("class") \o of("function")

Render(file, limits) ==
  LET of(kind) == LET found == Found(file, kind) IN [i \in DOMAIN found |-> Compressed(found[i], limits)]
      rest == SelectSeq(file, LAMBDA n : ~Captured(n))
  IN of("import") \o of("type") \o of("class") \o of("function")
       \o [i \in DOMAIN rest |-> Whole(rest[i])]

---------------------------------------------------------------------------
(* The superset language wins with two hits of its own, whatever its parse;  *)
(* with parsers at hand nothing with more errors than another candidate wins.*)
LanguageSound(score, parses, available) ==
  LET found == DetectLanguage(score, parses, available)
  IN /\ found = Unknown <=> \A lang \in DOMAIN score : score[lang] = 0
     /\ score["typescript"] >= 2 => found # "javascript"
     /\ score["cpp"] >= 2 => found # "c"
     /\ available /\ found \in DOMAIN parses =>
          \A lang \in DOMAIN parses : Settled(score)[lang] > 0 => parses[found].errors <= parses[lang].errors

(* No allotment exceeds its body; together they exceed the budget by no more *)
(* than the rounding; of two bodies of one size the more important gets no   *)
(* less; and the cap holds for every name.                                   *)
BudgetFair(symbols, totalLines) ==
  LET allotted == Allotted(symbols, totalLines)
      scores == Scores(symbols)
  IN /\ \A k \in DOMAIN symbols : allotted[k] \in 0 .. symbols[k].size
     /\ 200 * SumOver(DOMAIN symbols, LAMBDA k : allotted[k])
          <= 2 * BodyBudget(symbols, totalLines) + 100 * Len(symbols)
     /\ \A j, k \in DOMAIN symbols :
          symbols[j].size = symbols[k].size /\ scores[j] <= scores[k] => allotted[j] <= allotted[k]
     /\ \A k \in DOMAIN symbols :
          BodyLimit(Limits(symbols, totalLines), symbols[k].name) \in 0 .. MaxBodyLines

(* A render shows every line outside the bodies of functions, and of a body  *)
(* it shows all the statements, or says that at least as many lines are      *)
(* omitted as are; a file never loses a node for where it stands.            *)
StatementRows(node) == UNION {RowsOf(node.stmts[j]) : j \in DOMAIN node.stmts}

Skeleton(node) ==
  IF node.kind # "class" THEN (IF node.kind = "function" THEN node.first .. node.body - 1 ELSE RowsOf(node))
  ELSE (node.first .. node.body - 1)
         \cup UNION {LET c == node.children[j]
                     IN IF c.kind = "function" THEN c.first .. c.body - 1 ELSE RowsOf(c) : j \in DOMAIN node.children}

RenderKeeps(file, limits) ==
  LET render == Render(file, limits)
      shown == UNION {render[i].rows : i \in DOMAIN render}
      functions(node) == IF node.kind = "class" THEN Range(node.children) ELSE {node}
      body(node) == UNION {StatementRows(f) : f \in functions(node)}
  IN \A i \in DOMAIN file :
       /\ Skeleton(file[i]) \subseteq shown
       /\ Decorators(file[i]) \subseteq shown
       /\ Cardinality(body(file[i]) \ shown)
            <= SumOver({k \in DOMAIN render : render[k].rows \cap RowsOf(file[i]) # {}},
                       LAMBDA k : render[k].omitted)
===============================================================================
