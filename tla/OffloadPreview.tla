---------------------------- MODULE OffloadPreview ----------------------------
(* The preview that ships in place of an offloaded text (router_engine.py):  *)
(* a summary of the rows of an array, or the head and tail of a text.  The   *)
(* original is in the store; what the preview itself says must be true.      *)
(* A cell is [type, text, long]: its Python type, its str() as a number in   *)
(* the order of the strings, and whether it exceeds the field budget (then   *)
(* it shows as a prefix, which all long cells of the model share).  A row is *)
(* a function from some of the fields, which are numbers in name order.      *)
EXTENDS Integers, Sequences, FiniteSets, FiniteSetsExt

CONSTANTS TopValues,       \* _SUMMARY_TOP_VALUES
          MaxCategorical,  \* _SUMMARY_MAX_CATEGORICAL_DISTINCT
          RatioPercent,    \* _SUMMARY_CATEGORICAL_RATIO, in hundredths
          SampleRows,      \* _SUMMARY_SAMPLE_ROWS
          HeadLines, TailLines, MaxErrorLines,
          SiblingKeys, SiblingChars, SiblingReserve

Holding(rows, f) == {i \in DOMAIN rows : f \in DOMAIN rows[i]}
Fields(rows) == UNION {DOMAIN rows[i] : i \in DOMAIN rows}

(* Only hashable scalars are counted, and Python counts True with 1.         *)
IsCounted(cell) == cell.type \in {"str", "int", "float", "bool"}
KeyOf(cell) == IF cell.type = "bool" THEN [cell EXCEPT !.type = "int"] ELSE cell

Bearing(rows, f, key) ==
  {i \in Holding(rows, f) : IsCounted(rows[i][f]) /\ KeyOf(rows[i][f]) = key}
Distinct(rows, f) == {KeyOf(rows[i][f]) : i \in {j \in Holding(rows, f) : IsCounted(rows[j][f])}}
CountOf(rows, f, key) == Cardinality(Bearing(rows, f, key))

IsCategorical(rows, f) ==
  LET d == Cardinality(Distinct(rows, f))
  IN d > 0 /\ (d <= MaxCategorical \/ 100 * d < RatioPercent * Len(rows))

SummaryKey(key) == IF key.long THEN [key EXCEPT !.text = 0] ELSE key

FirstOf(S, Before(_, _), n) == {x \in S : Cardinality({y \in S : Before(y, x)}) < n}

(* _top_value_counts: by count, then by text; keys that the truncation makes *)
(* one have their counts added.                                              *)
Top(rows, f) ==
  FirstOf(Distinct(rows, f),
          LAMBDA a, b : \/ CountOf(rows, f, a) > CountOf(rows, f, b)
                        \/ CountOf(rows, f, a) = CountOf(rows, f, b) /\ a.text < b.text,
          TopValues)

Histogram_Overwritten(rows, f) ==
  [shown \in {SummaryKey(key) : key \in Top(rows, f)} |->
     CountOf(rows, f, CHOOSE key \in Top(rows, f) : SummaryKey(key) = shown)]

Histogram(rows, f) ==
  [shown \in {SummaryKey(key) : key \in Top(rows, f)} |->
     MapThenSumSet(LAMBDA key : CountOf(rows, f, key), {key \in Top(rows, f) : SummaryKey(key) = shown})]

(* most_common: by count, then by first appearance.                          *)
MostCommon(rows, f) ==
  FirstOf(Distinct(rows, f),
          LAMBDA a, b : \/ CountOf(rows, f, a) > CountOf(rows, f, b)
                        \/ /\ CountOf(rows, f, a) = CountOf(rows, f, b)
                           /\ Min(Bearing(rows, f, a)) < Min(Bearing(rows, f, b)),
          TopValues)

Categorical(rows) == {f \in Fields(rows) : IsCategorical(rows, f)}

(* _primary_categorical_field: most rows, then most values, then its name.   *)
PrimaryField(rows) ==
  LET weight(f) == <<Cardinality(Holding(rows, f)), Cardinality(Distinct(rows, f))>>
      below(a, b) == a[1] < b[1] \/ (a[1] = b[1] /\ a[2] < b[2])
  IN CHOOSE f \in Categorical(rows) : \A g \in Categorical(rows) :
       below(weight(g), weight(f)) \/ (weight(g) = weight(f) /\ f <= g)

(* _build_examples: the first row of each wanted value.                      *)
Examples(rows) ==
  LET f == PrimaryField(rows)
      wanted == MostCommon(rows, f)
      bearing(shown) == UNION {Bearing(rows, f, key) : key \in {k \in wanted : SummaryKey(k) = shown}}
  IN [shown \in {SummaryKey(key) : key \in wanted} |-> Min(bearing(shown))]

(* _sample_indices, counted from 0.                                          *)
SampleIndices_NoLast(n) ==
  LET count == IF SampleRows < n THEN SampleRows ELSE n
  IN IF count <= 1 THEN 0 .. count - 1
     ELSE {(step * (n - 1)) \div count : step \in 0 .. count - 1}

SampleIndices(n) ==
  LET count == IF SampleRows < n THEN SampleRows ELSE n
  IN IF count <= 1 THEN 0 .. count - 1
     ELSE {(step * (n - 1)) \div (count - 1) : step \in 0 .. count - 1}

(* The text preview: the lines of it that show, a text being which of its    *)
(* lines carry a severity word.                                              *)
ErrorLines(severe) ==
  FirstOf({i \in HeadLines + 1 .. Len(severe) - TailLines : severe[i]}, LAMBDA a, b : a < b, MaxErrorLines)

ShownLines(severe) ==
  IF Len(severe) <= HeadLines + TailLines THEN DOMAIN severe
  ELSE 1 .. HeadLines \cup ErrorLines(severe) \cup Len(severe) - TailLines + 1 .. Len(severe)

(* _compact_sibling_fields: how many of the siblings, by serialized size,    *)
(* are kept, and the size of what ships, its note about the rest included.   *)
SizeOf(sizes, k) == MapThenSumSet(LAMBDA i : sizes[i], 1 .. k)

KeptSiblings(sizes) ==
  Max({k \in 0 .. Len(sizes) :
         k <= SiblingKeys /\ \A j \in 1 .. k : SizeOf(sizes, j) <= SiblingChars - SiblingReserve})

SiblingSize(sizes) ==
  SizeOf(sizes, KeptSiblings(sizes)) + (IF KeptSiblings(sizes) < Len(sizes) THEN SiblingReserve ELSE 0)

---------------------------------------------------------------------------
(* What the summary of some rows says is so: the counts it shows are counts  *)
(* of rows, no row is counted twice and the most frequent value is there;    *)
(* every example is the first row with a value of its key.                   *)
SummaryTrue(rows) ==
  /\ \A f \in Categorical(rows) :
       LET h == Histogram(rows, f)
           counted == {i \in Holding(rows, f) : IsCounted(rows[i][f])}
       IN /\ \A shown \in DOMAIN h :
               h[shown] = Cardinality({i \in counted : KeyOf(rows[i][f]) \in Top(rows, f)
                                                       /\ SummaryKey(KeyOf(rows[i][f])) = shown})
          /\ \A key \in Distinct(rows, f) :
               SummaryKey(key) \notin DOMAIN h =>
                 \A kept \in Top(rows, f) : CountOf(rows, f, kept) >= CountOf(rows, f, key)
          /\ Cardinality(Distinct(rows, f)) <= TopValues =>
               MapThenSumSet(LAMBDA shown : h[shown], DOMAIN h) = Cardinality(counted)
  /\ Categorical(rows) # {} =>
       LET f == PrimaryField(rows) IN
       \A shown \in DOMAIN Examples(rows) :
         LET i == Examples(rows)[shown] IN
         /\ f \in DOMAIN rows[i] /\ SummaryKey(KeyOf(rows[i][f])) = shown
         /\ \A j \in 1 .. i - 1 : f \in DOMAIN rows[j] /\ IsCounted(rows[j][f]) =>
              SummaryKey(KeyOf(rows[j][f])) # shown \/ KeyOf(rows[j][f]) \notin MostCommon(rows, f)

(* The sample has the first and the last row and no more rows than it may.   *)
SampleSpans(n) ==
  /\ SampleIndices(n) \subseteq 0 .. n - 1
  /\ Cardinality(SampleIndices(n)) = IF SampleRows < n THEN SampleRows ELSE n
  /\ n > 0 => 0 \in SampleIndices(n)
  /\ n > 1 /\ SampleRows > 1 => n - 1 \in SampleIndices(n)

(* The siblings never exceed their budget, whatever their sizes; an error    *)
(* line shows unless as many errors before it do.                            *)
SiblingsFit(sizes) == SiblingSize(sizes) <= SiblingChars
ErrorsSurface(severe) ==
  \A i \in DOMAIN severe : severe[i] =>
    i \in ShownLines(severe) \/ Cardinality(ErrorLines(severe)) = MaxErrorLines
===============================================================================
