------------------------- MODULE ContentEngineProofs -------------------------
(* The three properties of ContentEngine for every set of configurations,    *)
(* texts and pressures: what a split keeps, what a loss is backed by, and    *)
(* what the routing log claims; then the hints of RetrievalFeedback, for any *)
(* shapes, calls and times.                                                  *)
EXTENDS ContentEngine, RetrievalFeedback, SequenceTheorems, FiniteSetTheorems, NaturalsInduction,
        WellFoundedInduction, TLAPS

(* ------------------------------------------------------------------------- *)
(* The split.  Its loop is a recursion over the lines: that it has an answer  *)
(* at all, and that the answer is sound, is induction from the last line     *)
(* backwards, by the least distance at which it could fail.                  *)

(* Every set of naturals that is not empty has a least member.               *)
LEMMA LeastNatural ==
  ASSUME NEW S \in SUBSET Nat, S # {}
  PROVE \E n \in S : \A m \in S : n <= m
<1> DEFINE R == OpToRel(<, Nat)
<1> DEFINE Q == {ss \in Nat \X Nat : ss[1] < ss[2]}
<1>1. R = Q
  BY Zenon DEF OpToRel
<1>2. IsWellFoundedOn(Q, Nat)
  BY <1>1, NatLessThanWellFounded, Zenon
<1>3. \E n \in S : \A m \in S : ~(<<m, n>> \in Q)
  <2> HIDE DEF Q
  <2> QED BY <1>2, WFMin, Zenon
<1>4. PICK n \in S : \A m \in S : ~(<<m, n>> \in Q)
  BY <1>3
<1>5. ASSUME NEW m \in S PROVE n <= m
  <2>1. <<m, n>> \in Nat \X Nat /\ <<m, n>>[1] = m /\ <<m, n>>[2] = n
    OBVIOUS
  <2>2. ~(m < n)
    BY <1>4, <2>1
  <2> QED BY <2>2
<1> QED BY <1>5

(* The first of a set of lines, or one past the end.                         *)
IsFirst(first, S, n) == first = IF S = {} THEN n + 1 ELSE Min(S)

LEMMA FirstLine ==
  ASSUME NEW n \in Nat, NEW i \in Nat, i <= n + 1, NEW S \in SUBSET (i .. n),
         NEW first, IsFirst(first, S, n)
  PROVE  /\ first \in i .. n + 1
         /\ first <= n => first \in S
         /\ \A j \in i .. first - 1 : j \notin S
<1>1. CASE S = {}
  BY <1>1 DEF IsFirst
<1>2. CASE S # {}
  <2>1. S \in SUBSET Nat
    OBVIOUS
  <2>2. \E j \in S : \A k \in S : j <= k
    BY <1>2, <2>1, LeastNatural
  <2>3. first \in S /\ \A k \in S : first <= k
    BY <1>2, <2>2 DEF Min, IsFirst
  <2> QED BY <2>3, <2>1
<1> QED BY <1>1, <1>2

AllTexts == Seq(SUBSET Pattern)
SectionTypes == {SourceCode, JsonArray, SearchResults, PlainText}
Sections == [type : SectionTypes, first : Int, last : Int, fenced : BOOLEAN]

(* What a turn at a line may answer: it goes on behind that line, and its    *)
(* section lies between; a line it leaves out is blank or begins with ```.   *)
SectionSound(section, i, next) ==
  /\ section = Section(section.type, section.first, section.last, section.fenced)
  /\ section.first \in i .. i + 1
  /\ section.last \in i .. next - 1
  /\ section.fenced \in BOOLEAN
  /\ section.type \in SectionTypes

TurnSound(lines, i, turn) ==
  /\ turn.next \in i + 1 .. Len(lines) + 2
  /\ \/ turn.sections = <<>>
     \/ \E section : turn.sections = <<section>> /\ SectionSound(section, i, turn.next)
  /\ \A j \in i .. turn.next - 1 : j <= Len(lines) =>
       \/ "blank" \in lines[j]
       \/ Has(lines[j], {"fence", "ticks"})
       \/ \E k \in DOMAIN turn.sections : j \in Covered(turn.sections[k])

(* A turn with one section, and one with none.                               *)
LEMMA OneSection ==
  ASSUME NEW lines \in AllTexts, NEW i \in 1 .. Len(lines), NEW next \in i + 1 .. Len(lines) + 2,
         NEW type \in SectionTypes, NEW first \in i .. i + 1, NEW last \in i .. next - 1, NEW fenced \in BOOLEAN,
         \A j \in i .. next - 1 : j <= Len(lines) =>
           "blank" \in lines[j] \/ Has(lines[j], {"fence", "ticks"}) \/ j \in first .. last
  PROVE  TurnSound(lines, i, Turn(<<Section(type, first, last, fenced)>>, next))
<1>1. PICK turn : turn = Turn(<<Section(type, first, last, fenced)>>, next)
  OBVIOUS
<1>2. turn.next = next /\ turn.sections = <<Section(type, first, last, fenced)>>
  BY <1>1 DEF Turn
<1>3. 1 \in DOMAIN turn.sections /\ turn.sections[1] = Section(type, first, last, fenced)
  BY <1>2
<1>4. Covered(Section(type, first, last, fenced)) = first .. last
  BY DEF Covered, Section
<1>5. TurnSound(lines, i, turn)
  <2>1. ASSUME NEW j \in i .. turn.next - 1, j <= Len(lines)
        PROVE  \/ "blank" \in lines[j]
               \/ Has(lines[j], {"fence", "ticks"})
               \/ \E k \in DOMAIN turn.sections : j \in Covered(turn.sections[k])
    <3>1. "blank" \in lines[j] \/ Has(lines[j], {"fence", "ticks"}) \/ j \in first .. last
      BY <1>2, <2>1
    <3>2. CASE j \in first .. last
      BY <3>2, <1>3, <1>4
    <3> QED BY <3>1, <3>2
  <2>2. SectionSound(Section(type, first, last, fenced), i, turn.next)
    BY <1>2 DEF SectionSound, Section
  <2> QED BY <1>2, <2>1, <2>2 DEF TurnSound
<1> QED BY <1>1, <1>5

LEMMA NoSection ==
  ASSUME NEW lines \in AllTexts, NEW i \in 1 .. Len(lines), NEW next \in i + 1 .. Len(lines) + 2,
         \A j \in i .. next - 1 : "blank" \in lines[j]
  PROVE  TurnSound(lines, i, Turn(<<>>, next))
<1>1. PICK turn : turn = Turn(<<>>, next)
  OBVIOUS
<1>2. turn.next = next /\ turn.sections = <<>>
  BY <1>1 DEF Turn
<1>3. TurnSound(lines, i, turn)
  BY <1>2 DEF TurnSound
<1> QED BY <1>1, <1>3

(* The four turns.                                                           *)
LEMMA FenceTurnSound ==
  ASSUME NEW lines \in AllTexts, NEW i \in 1 .. Len(lines), "fence" \in lines[i]
  PROVE  TurnSound(lines, i, FenceTurn(lines, i))
<1>0. Len(lines) \in Nat /\ i \in Nat
  BY DEF AllTexts
<1>1. PICK found : found = {j \in i + 1 .. Len(lines) : Has(lines[j], {"fence", "ticks"})}
  OBVIOUS
<1>2. PICK close : close = IF found = {} THEN Len(lines) + 1 ELSE Min(found)
  OBVIOUS
<1>3. close \in i + 1 .. Len(lines) + 1 /\ (close <= Len(lines) => close \in found)
  <2>1. Len(lines) \in Nat /\ i + 1 \in Nat /\ i + 1 <= Len(lines) + 1
    BY <1>0
  <2>2. found \in SUBSET (i + 1 .. Len(lines))
    BY <1>1
  <2>3. IsFirst(close, found, Len(lines))
    BY <1>2 DEF IsFirst
  <2> QED BY <2>1, <2>2, <2>3, FirstLine
<1>4. FenceTurn(lines, i) = Turn(<<Section(SourceCode, i + 1, close - 1, TRUE)>>, close + 1)
  BY <1>1, <1>2 DEF FenceTurn, Until
<1>5. PICK next : next = close + 1
  OBVIOUS
<1>6. ASSUME NEW j \in i .. next - 1, j <= Len(lines)
      PROVE  "blank" \in lines[j] \/ Has(lines[j], {"fence", "ticks"}) \/ j \in i + 1 .. close - 1
  <2>1. CASE j = i
    BY <2>1 DEF Has
  <2>2. CASE j = close
    BY <2>2, <1>1, <1>3, <1>6
  <2> QED BY <2>1, <2>2, <1>0, <1>3, <1>5
<1>7. next \in i + 1 .. Len(lines) + 2 /\ i + 1 \in i .. i + 1 /\ close - 1 \in i .. next - 1
  BY <1>0, <1>3, <1>5
<1>8. FenceTurn(lines, i) = Turn(<<Section(SourceCode, i + 1, close - 1, TRUE)>>, next)
  BY <1>4, <1>5
<1> QED BY <1>6, <1>7, <1>8, OneSection DEF SectionTypes

LEMMA JsonTurnSound ==
  ASSUME NEW lines \in AllTexts, NEW i \in 1 .. Len(lines), JsonEnd(lines, i) > 0
  PROVE  TurnSound(lines, i, JsonTurn(lines, i))
<1>0. Len(lines) \in Nat /\ i \in Nat
  BY DEF AllTexts
<1> DEFINE depth(j) == Cardinality({k \in i .. j : "opens" \in lines[k]})
                  - Cardinality({k \in i .. j : "closes" \in lines[k]})
<1>1. PICK ends : ends = {j \in i .. Len(lines) : depth(j) <= 0}
  OBVIOUS
<1>2. JsonEnd(lines, i) = IF ends = {} THEN 0 ELSE Min(ends)
  BY <1>1 DEF JsonEnd
<1>3. ends # {}
  BY <1>2
<1>4. PICK first : first = IF ends = {} THEN Len(lines) + 1 ELSE Min(ends)
  OBVIOUS
<1>5. first \in i .. Len(lines) + 1 /\ (first <= Len(lines) => first \in ends) /\ (\A j \in i .. first - 1 : j \notin ends)
  <2>1. ends \in SUBSET (i .. Len(lines)) /\ i <= Len(lines) + 1
    BY <1>0, <1>1
  <2>2. Len(lines) \in Nat /\ i \in Nat
    BY <1>0
  <2> HIDE DEF depth
  <2>3. IsFirst(first, ends, Len(lines))
    BY <1>4 DEF IsFirst
  <2> QED BY <2>1, <2>2, <2>3, FirstLine
<1>6. JsonEnd(lines, i) = first /\ first \in i .. Len(lines)
  <2>1. PICK e \in ends : e \in i .. Len(lines)
    BY <1>1, <1>3
  <2> QED BY <1>0, <1>2, <1>3, <1>4, <1>5, <2>1
<1>7. PICK next : next = first + 1
  OBVIOUS
<1>8. JsonTurn(lines, i) = Turn(<<Section(JsonArray, i, first, FALSE)>>, next)
  BY <1>6, <1>7 DEF JsonTurn
<1>9. next \in i + 1 .. Len(lines) + 2 /\ i \in i .. i + 1 /\ first \in i .. next - 1
      /\ \A j \in i .. next - 1 : j \in i .. first
  BY <1>0, <1>6, <1>7
<1> QED BY <1>8, <1>9, OneSection DEF SectionTypes

LEMMA SearchTurnSound ==
  ASSUME NEW lines \in AllTexts, NEW i \in 1 .. Len(lines), "search" \in lines[i]
  PROVE  TurnSound(lines, i, SearchTurn(lines, i))
<1>0. Len(lines) \in Nat /\ i \in Nat
  BY DEF AllTexts
<1>1. PICK found : found = {j \in i .. Len(lines) : "search" \notin lines[j]}
  OBVIOUS
<1>2. PICK next : next = IF found = {} THEN Len(lines) + 1 ELSE Min(found)
  OBVIOUS
<1>3. next \in i .. Len(lines) + 1 /\ (next <= Len(lines) => next \in found)
  <2>1. found \in SUBSET (i .. Len(lines)) /\ i <= Len(lines) + 1
    BY <1>0, <1>1
  <2>2. IsFirst(next, found, Len(lines))
    BY <1>2 DEF IsFirst
  <2> QED BY <1>0, <2>1, <2>2, FirstLine
<1>4. SearchTurn(lines, i) = Turn(<<Section(SearchResults, i, next - 1, FALSE)>>, next)
  BY <1>1, <1>2 DEF SearchTurn, Until
<1>5. next # i
  BY <1>0, <1>1, <1>3
<1>6. next \in i + 1 .. Len(lines) + 2 /\ i \in i .. i + 1 /\ next - 1 \in i .. next - 1
  BY <1>0, <1>3, <1>5
<1> QED BY <1>4, <1>6, OneSection DEF SectionTypes

LEMMA TextTurnSound ==
  ASSUME NEW lines \in AllTexts, NEW i \in 1 .. Len(lines)
  PROVE  TurnSound(lines, i, TextTurn(lines, i))
<1>0. Len(lines) \in Nat /\ i \in Nat
  BY DEF AllTexts
<1>1. PICK found : found = {j \in i + 1 .. Len(lines) : StartsSection(lines[j])}
  OBVIOUS
<1>2. PICK next : next = IF found = {} THEN Len(lines) + 1 ELSE Min(found)
  OBVIOUS
<1>3. next \in i + 1 .. Len(lines) + 1
  <2>1. Len(lines) \in Nat /\ i + 1 \in Nat /\ i + 1 <= Len(lines) + 1
    BY <1>0
  <2>2. found \in SUBSET (i + 1 .. Len(lines))
    BY <1>1
  <2>3. IsFirst(next, found, Len(lines))
    BY <1>2 DEF IsFirst
  <2> QED BY <2>1, <2>2, <2>3, FirstLine
<1>4. TextTurn(lines, i) =
        Turn(IF \A j \in i .. next - 1 : "blank" \in lines[j] THEN <<>>
             ELSE <<Section(PlainText, i, next - 1, FALSE)>>, next)
  BY <1>1, <1>2 DEF TextTurn, Until
<1>5. next \in i + 1 .. Len(lines) + 2 /\ i \in i .. i + 1 /\ next - 1 \in i .. next - 1
  BY <1>0, <1>3
<1>6. CASE \A j \in i .. next - 1 : "blank" \in lines[j]
  BY <1>4, <1>5, <1>6, NoSection
<1>7. CASE ~ \A j \in i .. next - 1 : "blank" \in lines[j]
  BY <1>4, <1>5, <1>7, OneSection DEF SectionTypes
<1> QED BY <1>6, <1>7

LEMMA TurnAtSound ==
  ASSUME NEW lines \in AllTexts, NEW i \in 1 .. Len(lines)
  PROVE  TurnSound(lines, i, TurnAt(lines, i))
BY FenceTurnSound, JsonTurnSound, SearchTurnSound, TextTurnSound DEF TurnAt

---------------------------------------------------------------------------
(* The loop.  What it makes of the lines from the i-th on, given what it     *)
(* makes of the later ones; and a table of its answers from line k on.       *)
Loop(lines, i, f) ==
  IF i > Len(lines) THEN <<>> ELSE TurnAt(lines, i).sections \o f[TurnAt(lines, i).next]

LoopTable(lines, k, f) ==
  f = [i \in k .. Len(lines) + 2 |-> Loop(lines, i, f)]

(* A line more can always be answered, because a turn goes on behind its     *)
(* line.                                                                     *)
LEMMA OneLineMore ==
  ASSUME NEW lines \in AllTexts, NEW k \in 1 .. Len(lines) + 1, NEW f, LoopTable(lines, k + 1, f)
  PROVE  \E g : LoopTable(lines, k, g)
<1>0. Len(lines) \in Nat /\ k \in Nat
  BY DEF AllTexts
<1> PICK g : g = [i \in k .. Len(lines) + 2 |-> IF i = k THEN Loop(lines, k, f) ELSE f[i]]
  OBVIOUS
<1>2. ASSUME NEW i \in k .. Len(lines) + 2
      PROVE  g[i] = Loop(lines, i, g)
  <2>1. CASE i > Len(lines)
    <3>1. g[i] = <<>>
      <4>1. CASE i = k
        BY <2>1, <4>1 DEF Loop
      <4>2. CASE i # k
        BY <2>1, <4>2, <1>0 DEF LoopTable, Loop
      <4> QED BY <4>1, <4>2
    <3> QED BY <2>1, <3>1 DEF Loop
  <2>2. CASE i <= Len(lines)
    <3>1. PICK turn : turn = TurnAt(lines, i)
      OBVIOUS
    <3>2. turn.next \in i + 1 .. Len(lines) + 2
      BY <2>2, <3>1, <1>0, TurnAtSound DEF TurnSound
    <3>3. turn.next \in k + 1 .. Len(lines) + 2 /\ g[turn.next] = f[turn.next]
      BY <1>0, <3>2
    <3>4. \A h : Loop(lines, i, h) = turn.sections \o h[turn.next]
      <4>1. ~(i > Len(lines))
        BY <1>0, <2>2
      <4> QED BY <3>1, <4>1 DEF Loop
    <3>5. g[i] = Loop(lines, i, f)
      <4>1. CASE i = k
        BY <4>1
      <4>2. CASE i # k
        <5>1. i \in k + 1 .. Len(lines) + 2
          BY <4>2, <1>0
        <5> QED BY <4>2, <5>1 DEF LoopTable
      <4> QED BY <4>1, <4>2
    <3> QED BY <3>3, <3>4, <3>5
  <2> QED BY <2>1, <2>2, <1>0
<1>3. g = [i \in k .. Len(lines) + 2 |-> Loop(lines, i, g)]
  BY <1>2
<1> QED BY <1>3 DEF LoopTable

LEMMA NoLine ==
  ASSUME NEW lines \in AllTexts
  PROVE  \E f : LoopTable(lines, Len(lines) + 2, f)
<1> PICK f : f = [i \in Len(lines) + 2 .. Len(lines) + 2 |-> <<>>]
  OBVIOUS
<1>1. \A i \in Len(lines) + 2 .. Len(lines) + 2 : Loop(lines, i, f) = <<>>
  BY DEF Loop, AllTexts
<1> QED BY <1>1 DEF LoopTable

LEMMA AllLines ==
  ASSUME NEW lines \in AllTexts
  PROVE  \E f : LoopTable(lines, 1, f)
<1>0. Len(lines) \in Nat
  BY DEF AllTexts
<1> DEFINE Bad == {m \in 0 .. Len(lines) + 1 : ~ \E f : LoopTable(lines, Len(lines) + 2 - m, f)}
<1>1. SUFFICES ASSUME Bad # {} PROVE FALSE
  <2>1. Len(lines) + 1 \notin Bad /\ Len(lines) + 2 - (Len(lines) + 1) = 1
    BY <1>0, <1>1
  <2>2. \E f : LoopTable(lines, Len(lines) + 2 - (Len(lines) + 1), f)
    BY <1>0, <2>1
  <2> QED BY <2>1, <2>2
<1>2. PICK m \in Bad : \A n \in Bad : m <= n
  <2>1. Bad \in SUBSET Nat
    OBVIOUS
  <2> HIDE DEF Bad
  <2> QED BY <1>1, <2>1, LeastNatural
<1>3. m # 0
  BY <1>0, NoLine
<1>4. m - 1 \in 0 .. Len(lines) + 1 /\ m - 1 \notin Bad
  BY <1>0, <1>2, <1>3
<1>5. PICK k : k = Len(lines) + 2 - m
  OBVIOUS
<1>6. Len(lines) + 2 - (m - 1) = k + 1 /\ k \in 1 .. Len(lines) + 1
  BY <1>0, <1>3, <1>4, <1>5
<1>7. \E f : LoopTable(lines, k + 1, f)
  BY <1>4, <1>6
<1>8. \E f : LoopTable(lines, k, f)
  BY <1>6, <1>7, OneLineMore
<1> QED BY <1>2, <1>5, <1>8

(* So the recursion of SplitFrom has an answer, and it is one.               *)
LEMMA SplitFromLoops ==
  ASSUME NEW lines \in AllTexts
  PROVE  LoopTable(lines, 1, SplitFrom(lines))
<1>1. SplitFrom(lines) = CHOOSE f : f = [i \in 1 .. Len(lines) + 2 |->
          IF i > Len(lines) THEN <<>>
          ELSE TurnAt(lines, i).sections \o f[TurnAt(lines, i).next]]
  BY DEF SplitFrom
<1>2. \E f : f = [i \in 1 .. Len(lines) + 2 |->
          IF i > Len(lines) THEN <<>>
          ELSE TurnAt(lines, i).sections \o f[TurnAt(lines, i).next]]
  BY AllLines DEF LoopTable, Loop
<1>3. PICK from : from = SplitFrom(lines)
  OBVIOUS
<1>4. from = [i \in 1 .. Len(lines) + 2 |->
          IF i > Len(lines) THEN <<>>
          ELSE TurnAt(lines, i).sections \o from[TurnAt(lines, i).next]]
  BY <1>1, <1>2, <1>3
<1> QED BY <1>3, <1>4 DEF LoopTable, Loop

---------------------------------------------------------------------------
(* What the sections from line i on are: in order, apart, behind line i, and *)
(* complete but for blank lines and lines that begin with ```.               *)
SectionsSound(lines, i, sections) ==
  /\ sections \in Seq(Sections)
  /\ \A k \in DOMAIN sections : sections[k].first >= i
  /\ \A k \in 2 .. Len(sections) : sections[k].first > sections[k - 1].last
  /\ \A j \in i .. Len(lines) :
       \/ "blank" \in lines[j]
       \/ Has(lines[j], {"fence", "ticks"})
       \/ \E k \in DOMAIN sections : j \in Covered(sections[k])

LEMMA SectionsBefore ==
  ASSUME NEW lines \in AllTexts, NEW i \in 1 .. Len(lines), NEW turn, TurnSound(lines, i, turn),
         NEW rest, SectionsSound(lines, turn.next, rest)
  PROVE  SectionsSound(lines, i, turn.sections \o rest)
<1>0. Len(lines) \in Nat /\ i \in Nat
  BY DEF AllTexts
<1>1. turn.next \in i + 1 .. Len(lines) + 2
  BY DEF TurnSound
<1>2. rest \in Seq(Sections) /\ Len(rest) \in Nat /\ DOMAIN rest = 1 .. Len(rest)
  BY LenProperties DEF SectionsSound
<1>3. ASSUME NEW j \in i .. Len(lines)
      PROVE  \/ "blank" \in lines[j]
             \/ Has(lines[j], {"fence", "ticks"})
             \/ \E k \in DOMAIN turn.sections : j \in Covered(turn.sections[k])
             \/ \E k \in DOMAIN rest : j \in Covered(rest[k])
  <2>1. CASE j \in i .. turn.next - 1
    BY <2>1, <1>0 DEF TurnSound
  <2>2. CASE j \in turn.next .. Len(lines)
    BY <2>2 DEF SectionsSound
  <2> QED BY <2>1, <2>2, <1>0, <1>1
<1>4. CASE turn.sections = <<>>
  <2>1. turn.sections \o rest = rest
    BY <1>2, <1>4
  <2>2. \A k \in DOMAIN rest : rest[k].first >= i
    <3> TAKE k \in DOMAIN rest
    <3>1. rest[k].first >= turn.next /\ rest[k] \in Sections
      BY <1>2, ElementOfSeq DEF SectionsSound
    <3> QED BY <1>0, <1>1, <3>1 DEF Sections
  <2>3. \A j \in i .. Len(lines) :
          \/ "blank" \in lines[j]
          \/ Has(lines[j], {"fence", "ticks"})
          \/ \E k \in DOMAIN rest : j \in Covered(rest[k])
    BY <1>3, <1>4
  <2> QED BY <2>1, <2>2, <2>3 DEF SectionsSound
<1>5. ASSUME NEW section, turn.sections = <<section>>, SectionSound(section, i, turn.next)
      PROVE  SectionsSound(lines, i, turn.sections \o rest)
  <2>1. section \in Sections /\ section.first >= i /\ section.last < turn.next
    BY <1>0, <1>1, <1>5 DEF SectionSound, Sections, Section
  <2>2. PICK all : all = turn.sections \o rest
    OBVIOUS
  <2>3. /\ all \in Seq(Sections) /\ Len(all) = Len(rest) + 1
        /\ DOMAIN all = 1 .. Len(rest) + 1
        /\ all[1] = section
        /\ \A k \in 1 .. Len(rest) : all[k + 1] = rest[k]
    BY <1>2, <1>5, <2>1, <2>2
  <2>4. ASSUME NEW k \in DOMAIN rest
        PROVE  rest[k].first >= turn.next /\ rest[k].first \in Int
    <3>1. rest[k] \in Sections
      BY <1>2, <2>4, ElementOfSeq
    <3> QED BY <2>4, <3>1 DEF SectionsSound, Sections
  <2>5. ASSUME NEW k \in DOMAIN all
        PROVE  all[k].first >= i
    <3>1. CASE k = 1
      BY <3>1, <2>1, <2>3
    <3>2. CASE k # 1
      <4>1. k - 1 \in 1 .. Len(rest) /\ all[(k - 1) + 1] = rest[k - 1] /\ (k - 1) + 1 = k
        BY <1>2, <2>3, <3>2
      <4> QED BY <1>0, <1>1, <1>2, <4>1, <2>4
    <3> QED BY <3>1, <3>2
  <2>6. ASSUME NEW k \in 2 .. Len(all)
        PROVE  all[k].first > all[k - 1].last
    <3>1. k - 1 \in 1 .. Len(rest) /\ all[k] = rest[k - 1]
      <4>1. k - 1 \in 1 .. Len(rest) /\ (k - 1) + 1 = k
        BY <1>2, <2>3
      <4> QED BY <4>1, <2>3
    <3>2. CASE k = 2
      <4>1. all[k - 1] = section /\ section.last \in Int
        BY <2>1, <2>3, <3>2 DEF Sections
      <4> QED BY <3>1, <4>1, <2>1, <2>4, <1>0, <1>1, <1>2
    <3>3. CASE k # 2
      <4>1. k - 1 \in 2 .. Len(rest) /\ k - 2 \in 1 .. Len(rest) /\ (k - 2) + 1 = k - 1
        BY <3>1, <3>3, <1>2, <2>3
      <4>2. all[k - 1] = rest[k - 2]
        BY <4>1, <2>3
      <4>3. rest[k - 1].first > rest[(k - 1) - 1].last /\ (k - 1) - 1 = k - 2
        BY <4>1 DEF SectionsSound
      <4> QED BY <3>1, <4>2, <4>3
    <3> QED BY <3>2, <3>3
  <2>7. ASSUME NEW j \in i .. Len(lines)
        PROVE  \/ "blank" \in lines[j]
               \/ Has(lines[j], {"fence", "ticks"})
               \/ \E k \in DOMAIN all : j \in Covered(all[k])
    <3>1. CASE \E k \in DOMAIN turn.sections : j \in Covered(turn.sections[k])
      <4>1. j \in Covered(all[1]) /\ 1 \in DOMAIN all
        BY <3>1, <1>2, <1>5, <2>3
      <4> QED BY <4>1
    <3>2. CASE \E k \in DOMAIN rest : j \in Covered(rest[k])
      <4>1. PICK k \in DOMAIN rest : j \in Covered(rest[k])
        BY <3>2
      <4>2. k + 1 \in DOMAIN all /\ all[k + 1] = rest[k]
        BY <1>2, <2>3
      <4> QED BY <4>1, <4>2
    <3> QED BY <1>3, <3>1, <3>2
  <2> QED BY <2>2, <2>3, <2>5, <2>6, <2>7 DEF SectionsSound
<1> QED BY <1>4, <1>5 DEF TurnSound

(* Behind the last line there is no section.                                 *)
LEMMA SectionsNone ==
  ASSUME NEW lines \in AllTexts, NEW i \in Nat, i > Len(lines)
  PROVE  SectionsSound(lines, i, <<>>)
BY DEF SectionsSound, AllTexts

LEMMA SplitFromSound ==
  ASSUME NEW lines \in AllTexts
  PROVE  \A i \in 1 .. Len(lines) + 2 : SectionsSound(lines, i, SplitFrom(lines)[i])
<1>0. Len(lines) \in Nat
  BY DEF AllTexts
<1>1. PICK from : from = SplitFrom(lines) /\ LoopTable(lines, 1, from)
  BY SplitFromLoops
<1> DEFINE Bad == {m \in 0 .. Len(lines) + 1 : ~ SectionsSound(lines, Len(lines) + 2 - m, from[Len(lines) + 2 - m])}
<1>2. SUFFICES ASSUME Bad # {} PROVE FALSE
  <2>1. ASSUME NEW i \in 1 .. Len(lines) + 2
        PROVE  SectionsSound(lines, i, from[i])
    <3>1. Len(lines) + 2 - i \in 0 .. Len(lines) + 1 /\ Len(lines) + 2 - (Len(lines) + 2 - i) = i
      BY <1>0
    <3> QED BY <1>2, <3>1
  <2> QED BY <1>1, <2>1
<1>3. PICK m \in Bad : \A n \in Bad : m <= n
  <2>1. Bad \in SUBSET Nat
    OBVIOUS
  <2> HIDE DEF Bad
  <2> QED BY <1>2, <2>1, LeastNatural
<1>4. PICK i : i = Len(lines) + 2 - m
  OBVIOUS
<1>5. i \in 1 .. Len(lines) + 2 /\ m = Len(lines) + 2 - i
  BY <1>0, <1>4
<1>6. from[i] = Loop(lines, i, from)
  BY <1>1, <1>5 DEF LoopTable
<1>7. SectionsSound(lines, i, from[i])
  <2>1. CASE i > Len(lines)
    BY <2>1, <1>0, <1>5, <1>6, SectionsNone DEF Loop
  <2>2. CASE ~(i > Len(lines))
    <3>1. PICK turn : turn = TurnAt(lines, i) /\ TurnSound(lines, i, turn)
      BY <2>2, <1>0, <1>5, TurnAtSound
    <3>2. from[i] = turn.sections \o from[turn.next]
      BY <2>2, <3>1, <1>6 DEF Loop
    <3>3. turn.next \in i + 1 .. Len(lines) + 2
      BY <3>1 DEF TurnSound
    <3>4. PICK n : n = Len(lines) + 2 - turn.next
      OBVIOUS
    <3>5. n \in 0 .. Len(lines) + 1 /\ n < m /\ Len(lines) + 2 - n = turn.next
      <4>1. PICK next : next = turn.next
        OBVIOUS
      <4>2. next \in i + 1 .. Len(lines) + 2 /\ n = Len(lines) + 2 - next
        BY <3>3, <3>4, <4>1
      <4>3. PICK l : l = Len(lines)
        OBVIOUS
      <4>4. l \in Nat /\ i \in 1 .. l + 2 /\ m = l + 2 - i /\ next \in i + 1 .. l + 2 /\ n = l + 2 - next
        BY <4>2, <4>3, <1>0, <1>5
      <4>5. n \in 0 .. l + 1 /\ n < m /\ l + 2 - n = next
        BY <4>4
      <4> QED BY <4>1, <4>3, <4>5
    <3>6. n \notin Bad
      BY <3>5, <1>3
    <3>7. SectionsSound(lines, turn.next, from[turn.next])
      BY <3>5, <3>6
    <3>8. i \in 1 .. Len(lines)
      BY <2>2, <1>0, <1>5
    <3>9. SectionsSound(lines, i, turn.sections \o from[turn.next])
      BY <3>1, <3>7, <3>8, SectionsBefore
    <3> QED BY <3>2, <3>9
  <2> QED BY <2>1, <2>2
<1> QED BY <1>3, <1>4, <1>7

LEMMA SplitSound ==
  ASSUME NEW lines \in AllTexts
  PROVE  SplitSections(lines) \in Seq(Sections) /\ SplitCovers(lines)
<1>0. Len(lines) \in Nat /\ DOMAIN lines = 1 .. Len(lines)
  BY LenProperties DEF AllTexts
<1>1. PICK sections : sections = SplitSections(lines)
  OBVIOUS
<1>2. SectionsSound(lines, 1, sections)
  BY <1>0, <1>1, SplitFromSound DEF SplitSections
<1>3. \A j \in Filled(lines) \ UNION {Covered(sections[k]) : k \in DOMAIN sections} :
         Has(lines[j], {"fence", "ticks"})
  BY <1>0, <1>2 DEF SectionsSound, Filled
<1> QED BY <1>1, <1>2, <1>3 DEF SectionsSound, SplitCovers

---------------------------------------------------------------------------

(* A piece of the output may be served as it stands: a loss has its backing, *)
(* and a table met no compressor that drops lines.                           *)
Backed(p) ==
  p.form = "lossy" =>
    /\ ~config.lossless
    /\ IF p.marked THEN p.of \in stored ELSE p.by \in {"search", "diff"}

TableKept(p) ==
  p.via = "smart_crusher" /\ IsConverted(p.of) => p.by \in {"none", "smart_crusher"}

PieceSound(p) ==
  /\ p.form \in Forms /\ p.marked \in BOOLEAN
  /\ Backed(p)
  /\ TableKept(p)

PiecesSound ==
  /\ pieces \in Seq(Range(pieces))
  /\ \A k \in DOMAIN pieces : PieceSound(pieces[k])

(* The invariant: the settings never change, and every piece is sound        *)
(* wherever the content is on its way, not only once it is served, because a *)
(* write is never taken back.                                                *)
SettingsOK ==
  /\ config \in Configs /\ text \in Texts /\ traits \in Traits
  /\ minRatio \in config.relaxed .. config.aggressive

StepOK ==
  /\ pc \in {"start", "section", "guard", "offload", "gate", "served", "rejected", "raised"}
  /\ verbatim \in BOOLEAN

IInv == SettingsOK /\ StepOK /\ PiecesSound

(* A count of tokens for a unit, which is a number when the unit is a set of *)
(* lines.                                                                    *)
CountsTokens(unit, tokens) == IsFiniteSet(unit) => tokens \in Int

LEMMA CostCounted ==
  ASSUME NEW unit
  PROVE  /\ CountsTokens(unit, Cost(unit)) /\ CountsTokens(unit, Cost(unit) \div 2)
         /\ CountsTokens(unit, Cost(unit) - 1) /\ CountsTokens(unit, Cost(unit) + 1) /\ CountsTokens(unit, 0)
<1>1. IsFiniteSet(unit) => Cost(unit) \in Int
  BY FS_CardinalityType DEF Cost
<1> QED BY <1>1 DEF CountsTokens

(* What any compressor may answer for a unit.                                *)
Answer(unit, out) ==
  /\ out = [piece |-> out.piece, writes |-> out.writes, raised |-> out.raised]
  /\ out.piece = Piece(unit, out.piece.form, out.piece.by, out.piece.tokens, out.piece.marked)
  /\ out.piece.form \in Forms /\ out.piece.marked \in BOOLEAN
  /\ CountsTokens(unit, out.piece.tokens)
  /\ out.piece.form = "same" => out.piece.tokens = Cost(unit)
  /\ out.piece.form = "lossy" =>
       /\ ~config.lossless
       /\ IF out.piece.marked THEN unit \in out.writes ELSE out.piece.by \in {"search", "diff"}

---------------------------------------------------------------------------
(* A rendering of the unit is an answer, provided a loss comes with its      *)
(* write, or is one of the two compressors'.                                 *)
LEMMA PieceAnswers ==
  ASSUME NEW unit, NEW form \in Forms \ {"same"}, NEW by, NEW tokens, CountsTokens(unit, tokens),
         NEW marked \in BOOLEAN, NEW writes,
         form = "lossy" =>
           ~config.lossless /\ IF marked THEN unit \in writes ELSE by \in {"search", "diff"}
  PROVE  /\ Answer(unit, Outcome(Piece(unit, form, by, tokens, marked), writes))
         /\ Outcome(Piece(unit, form, by, tokens, marked), writes).piece.by = by
  BY DEF Answer, Outcome, Piece, Forms

(* Leaving a unit as it is, or raising, is always an answer.                 *)
LEMMA SameAnswers ==
  ASSUME NEW unit, NEW writes
  PROVE  /\ Answer(unit, Outcome(Same(unit), writes))
         /\ Answer(unit, Raised(unit, writes))
         /\ Outcome(Same(unit), writes).piece.by = "none"
         /\ Raised(unit, writes).piece.by = "none"
  BY CostCounted DEF Answer, Outcome, Raised, Same, Piece, Forms

(* persist_to_python_ccr: the marker with the write, or neither.             *)
LEMMA MarkedAnswers ==
  ASSUME NEW unit, NEW by, ~config.lossless, NEW out \in Marked(unit, by)
  PROVE  Answer(unit, out) /\ out.piece.by \in {by, "none"}
<1>1. PICK tokens : /\ CountsTokens(unit, tokens)
                    /\ \/ out = Outcome(Piece(unit, "lossy", by, tokens, TRUE), {unit})
                       \/ out = Outcome(Same(unit), {})
  BY CostCounted, Zenon DEF Marked, Persisted
<1>2. Answer(unit, Outcome(Piece(unit, "lossy", by, tokens, TRUE), {unit}))
      /\ Outcome(Piece(unit, "lossy", by, tokens, TRUE), {unit}).piece.by = by
  BY <1>1 DEF Answer, Outcome, Piece, Forms
<1>3. Answer(unit, Outcome(Same(unit), {})) /\ Outcome(Same(unit), {}).piece.by = "none"
  BY SameAnswers
<1> QED BY <1>1, <1>2, <1>3

(* The search and diff compressors may drop lines without a marker.          *)
LEMMA UnmarkedAnswers ==
  ASSUME NEW unit, NEW by \in {"search", "diff"}, ~config.lossless, NEW out \in Unmarked(unit, by)
  PROVE  Answer(unit, out)
<1>1. out = Outcome(Piece(unit, "lossy", by, Cost(unit) - 1, FALSE), {})
  BY DEF Unmarked
<1> QED BY <1>1, PieceAnswers, CostCounted DEF Forms

LEMMA BlankAnswers ==
  ASSUME NEW unit, NEW by, NEW out \in Blank(unit, by)
  PROVE  Answer(unit, out)
<1>1. out = Outcome(Piece(unit, "blank", by, 0, FALSE), {})
  BY DEF Blank
<1> QED BY <1>1, PieceAnswers, CostCounted DEF Forms

(* The compressors that run outside strict mode only.                        *)
LEMMA DroppersAnswer ==
  ASSUME NEW unit, ~config.lossless,
         NEW out \in SearchCompress(unit) \cup DiffCompress(unit) \cup LogCompress(unit)
                     \cup TextCompress(unit) \cup CodeCompress(unit) \cup HtmlCompress(unit)
  PROVE  Answer(unit, out)
<1>1. CASE out = Outcome(Same(unit), {})
  BY <1>1, SameAnswers
<1>2. CASE \E by \in {"search", "diff", "log", "text", "code_aware", "html"} : out \in Marked(unit, by)
  BY <1>2, MarkedAnswers
<1>3. CASE \E by \in {"search", "diff"} : out \in Unmarked(unit, by)
  BY <1>3, UnmarkedAnswers
<1>4. CASE out \in Blank(unit, "text")
  BY <1>4, BlankAnswers
<1> QED
  BY <1>1, <1>2, <1>3, <1>4
     DEF SearchCompress, DiffCompress, LogCompress, TextCompress, CodeCompress, HtmlCompress

(* SmartCrusher itself: lossless in strict mode, and a drop has its write.   *)
LEMMA CrushAnswers ==
  ASSUME NEW unit, NEW out \in Crush(unit)
  PROVE  Answer(unit, out)
<1>1. CASE out = Outcome(Same(unit), {}) \/ out = Raised(unit, {})
  BY <1>1, SameAnswers
<1>2. CASE \E tokens :
             /\ CountsTokens(unit, tokens)
             /\ out = Outcome(Piece(unit, "lossless", "smart_crusher", tokens, FALSE), {})
  <2>1. PICK tokens : /\ CountsTokens(unit, tokens)
                      /\ out = Outcome(Piece(unit, "lossless", "smart_crusher", tokens, FALSE), {})
    BY <1>2
  <2> QED BY <2>1 DEF Answer, Outcome, Piece, Forms
<1>3. CASE /\ ~config.lossless
           /\ out = Outcome(Piece(unit, "lossy", "smart_crusher", Cost(unit) \div 2, TRUE), {unit})
  BY <1>3, PieceAnswers, CostCounted DEF Forms
<1>4. \A t \in {Cost(unit) \div 2, Cost(unit), Cost(unit) + 1} : CountsTokens(unit, t)
  BY CostCounted
<1> QED BY <1>1, <1>2, <1>3, <1>4 DEF Crush

(* A conversion never falls through to a compressor that drops lines.        *)
LEMMA ConvertAnswers ==
  ASSUME NEW unit, ~config.lossless, NEW out \in Convert(unit)
  PROVE  Answer(unit, out) /\ out.piece.by \in {"none", "smart_crusher"}
<1>1. CASE out = Outcome(Same(unit), {}) \/ out = Raised(unit, {})
  BY <1>1, SameAnswers
<1>2. CASE out \in Marked(unit, "smart_crusher")
  BY <1>2, MarkedAnswers
<1> QED BY <1>1, <1>2 DEF Convert

(* The second tries after SMART_CRUSHER keep what the first one wrote.       *)
LEMMA AfterCrushAnswers ==
  ASSUME NEW unit, NEW first, Answer(unit, first), NEW out \in AfterCrush(unit, first)
  PROVE  Answer(unit, out)
<1>1. CASE out = first
  BY <1>1
<1>2. CASE out = [first EXCEPT !.piece = Same(unit)]
  BY <1>2, CostCounted DEF Answer, Same, Piece, Forms
<1>3. CASE /\ ~config.lossless
           /\ \E tried \in LogCompress(unit) : out = [tried EXCEPT !.writes = @ \cup first.writes]
  <2>1. PICK tried \in LogCompress(unit) : out = [tried EXCEPT !.writes = @ \cup first.writes]
    BY <1>3
  <2>2. Answer(unit, tried)
    BY <1>3, DroppersAnswer
  <2>3. out.piece = tried.piece /\ tried.writes \subseteq out.writes
        /\ out = [piece |-> out.piece, writes |-> out.writes, raised |-> out.raised]
    BY <2>1, <2>2 DEF Answer
  <2> QED BY <2>2, <2>3 DEF Answer
<1> QED BY <1>1, <1>2, <1>3 DEF AfterCrush

LEMMA CrushArmAnswers ==
  ASSUME NEW unit, NEW out \in CrushArm(unit)
  PROVE  /\ Answer(unit, out)
         /\ IsConverted(unit) => out.piece.by \in {"none", "smart_crusher"}
<1>1. CASE out = Outcome(Same(unit), {})
  BY <1>1, SameAnswers
<1>2. CASE IsConverted(unit) /\ out \in Convert(unit)
  BY <1>2, ConvertAnswers DEF IsConverted
<1>3. CASE ~IsConverted(unit) /\ out \in UNION {AfterCrush(unit, first) : first \in Crush(unit)}
  BY <1>3, CrushAnswers, AfterCrushAnswers
<1> QED BY <1>1, <1>2, <1>3 DEF CrushArm

LEMMA LogArmAnswers ==
  ASSUME NEW unit, NEW out \in LogArm(unit)
  PROVE  Answer(unit, out)
<1>1. CASE out = Outcome(Piece(unit, "lossless", "log_template", Cost(unit) - 1, FALSE), {})
  BY <1>1, PieceAnswers, CostCounted DEF Forms
<1>2. CASE ~config.lossless /\ out \in LogCompress(unit)
  BY <1>2, DroppersAnswer
<1>3. CASE out = Outcome(Same(unit), {})
  BY <1>3, SameAnswers
<1> QED BY <1>1, <1>2, <1>3 DEF LogArm

LEMMA TextArmAnswers ==
  ASSUME NEW unit, NEW out \in TextArm(unit)
  PROVE  Answer(unit, out)
<1>1. CASE ~config.lossless /\ out \in HtmlCompress(unit) \cup TextCompress(unit)
  BY <1>1, DroppersAnswer
<1>2. CASE out = Outcome(Same(unit), {})
  BY <1>2, SameAnswers
<1> QED BY <1>1, <1>2 DEF TextArm

LEMMA GatedAnswers ==
  ASSUME NEW unit, NEW enabled, NEW out \in Gated(unit, enabled, SearchCompress(unit))
                        \cup Gated(unit, enabled, DiffCompress(unit))
                        \cup Gated(unit, enabled, CodeCompress(unit))
  PROVE  Answer(unit, out)
<1>1. CASE ~config.lossless /\ out \in SearchCompress(unit) \cup DiffCompress(unit) \cup CodeCompress(unit)
  BY <1>1, DroppersAnswer
<1>2. CASE out = Outcome(Same(unit), {})
  BY <1>2, SameAnswers
<1> QED BY <1>1, <1>2 DEF Gated

(* StrategyDispatcher.apply, whichever arm it takes.                         *)
LEMMA ApplyAnswers ==
  ASSUME NEW unit, NEW strategy \in Strategies, NEW out \in Apply(unit, strategy)
  PROVE  /\ Answer(unit, out)
         /\ strategy = "smart_crusher" /\ IsConverted(unit) => out.piece.by \in {"none", "smart_crusher"}
<1>1. CASE strategy = "smart_crusher"
  BY <1>1, CrushArmAnswers DEF Apply
<1>2. CASE strategy \in {"search", "diff", "code_aware"}
  BY <1>2, GatedAnswers DEF Apply
<1>3. CASE strategy = "log"
  BY <1>3, LogArmAnswers DEF Apply
<1>4. CASE strategy = "text"
  BY <1>4, TextArmAnswers DEF Apply
<1>5. CASE strategy = "passthrough"
  BY <1>5, SameAnswers DEF Apply
<1> QED BY <1>1, <1>2, <1>3, <1>4, <1>5 DEF Strategies

---------------------------------------------------------------------------
(* What Takes does with an answer: the piece it leaves is sound in the next  *)
(* state, because its write is in the store by then.                         *)
LEMMA AnswerIsSound ==
  ASSUME NEW unit, NEW strategy \in Strategies, NEW out \in Apply(unit, strategy), NEW next,
         Takes(out, next), UNCHANGED <<config, text>>
  PROVE  LET piece == [out.piece EXCEPT !.via = strategy] IN PieceSound(piece)'
<1> DEFINE piece == [out.piece EXCEPT !.via = strategy]
<1>1. /\ Answer(unit, out)
      /\ strategy = "smart_crusher" /\ IsConverted(unit) => out.piece.by \in {"none", "smart_crusher"}
  BY ApplyAnswers
<1>2. /\ piece.of = unit /\ piece.via = strategy
      /\ piece.form = out.piece.form /\ piece.by = out.piece.by /\ piece.marked = out.piece.marked
  BY <1>1 DEF Answer, Piece
<1>3. out.writes \subseteq stored' /\ config' = config /\ text' = text
  BY DEF Takes
<1> HIDE DEF piece
<1>4. piece.form \in Forms /\ piece.marked \in BOOLEAN
  BY <1>1, <1>2 DEF Answer
<1>5. Backed(piece)'
  BY <1>1, <1>2, <1>3 DEF Answer, Backed
<1>6. TableKept(piece)'
  BY <1>1, <1>2, <1>3 DEF TableKept, IsConverted, Lines
<1> QED BY <1>4, <1>5, <1>6 DEF PieceSound, piece

(* A unit left as it is is sound, and so is a text the store has.            *)
LEMMA SameIsSound ==
  ASSUME NEW unit
  PROVE  PieceSound(Same(unit))
  BY DEF PieceSound, Backed, TableKept, Same, Piece, Forms

LEMMA PreviewIsSound ==
  ASSUME NEW unit \in stored, NEW tokens, ~config.lossless
  PROVE  PieceSound(Piece(unit, "lossy", "ccr_offload", tokens, TRUE))
  BY DEF PieceSound, Backed, TableKept, Piece, Forms

(* Writes are never taken back: what was sound stays so.                     *)
LEMMA SoundStays ==
  ASSUME stored \subseteq stored', UNCHANGED <<config, text>>
  PROVE  \A p : PieceSound(p) => PieceSound(p)'
  BY DEF PieceSound, Backed, TableKept, IsConverted, Lines

(* The output is no piece, one piece, or one piece more.                     *)
LEMMA NoPiece ==
  ASSUME pieces = <<>>
  PROVE  PiecesSound
<1>1. DOMAIN pieces = {}
  OBVIOUS
<1>2. pieces \in Seq(Range(pieces))
  BY SeqOfRange, EmptySeq
<1> QED BY <1>1, <1>2 DEF PiecesSound

LEMMA OnePiece ==
  ASSUME NEW p, pieces' = <<p>>, PieceSound(p)'
  PROVE  PiecesSound'
<1>1. pieces' \in Seq({p}) /\ DOMAIN pieces' = {1} /\ pieces'[1] = p
  OBVIOUS
<1>2. pieces' \in Seq(Range(pieces'))
  BY <1>1, SeqOfRange
<1>3. \A k \in DOMAIN pieces' : PieceSound(pieces[k])'
  BY <1>1 DEF PieceSound, Backed, TableKept
<1> QED BY <1>2, <1>3 DEF PiecesSound

LEMMA OneMorePiece ==
  ASSUME NEW p, PiecesSound, pieces' = Append(pieces, p), PieceSound(p)',
         stored \subseteq stored', UNCHANGED <<config, text>>
  PROVE  PiecesSound'
<1> DEFINE S == Range(pieces) \cup {p}
<1>1. pieces \in Seq(S)
  BY SeqMonotonic DEF PiecesSound
<1> HIDE DEF S
<1>2. p \in S
  BY DEF S
<1>3. /\ pieces' \in Seq(S)
      /\ DOMAIN pieces' = 1 .. Len(pieces) + 1 /\ Len(pieces) \in Nat
      /\ \A k \in 1 .. Len(pieces) : pieces'[k] = pieces[k]
      /\ pieces'[Len(pieces) + 1] = p
      /\ DOMAIN pieces = 1 .. Len(pieces)
  BY <1>1, <1>2, AppendProperties, LenProperties
<1>4. pieces' \in Seq(Range(pieces'))
  BY <1>3, SeqOfRange
<1>5. ASSUME NEW k \in DOMAIN pieces'
      PROVE  PieceSound(pieces[k])'
  <2>1. CASE k \in DOMAIN pieces
    <3>1. PieceSound(pieces[k])
      BY <2>1 DEF PiecesSound
    <3>2. pieces'[k] = pieces[k]
      BY <2>1, <1>3
    <3> QED BY <3>1, <3>2 DEF PieceSound, Backed, TableKept, IsConverted, Lines
  <2>2. CASE k = Len(pieces) + 1
    BY <2>2, <1>3 DEF PieceSound, Backed, TableKept
  <2> QED BY <2>1, <2>2, <1>3
<1> QED BY <1>4, <1>5 DEF PiecesSound

LEMMA SamePieces ==
  ASSUME PiecesSound, pieces' = pieces, stored \subseteq stored', UNCHANGED <<config, text>>
  PROVE  PiecesSound'
  BY DEF PiecesSound, PieceSound, Backed, TableKept, IsConverted, Lines

---------------------------------------------------------------------------
(* adaptive_min_ratio is clamped between the two thresholds.                 *)
LEMMA RatioClamped ==
  ASSUME NEW relaxed \in Int, NEW aggressive \in Int, relaxed <= aggressive, NEW pressure \in Int
  PROVE  AdaptiveMinRatio(relaxed, aggressive, pressure) \in relaxed .. aggressive
<1>1. ((aggressive - relaxed) * pressure) \div 100 \in Int
  OBVIOUS
<1> QED BY <1>1 DEF AdaptiveMinRatio

LEMMA EngineInit == Init => IInv
<1> SUFFICES ASSUME Init PROVE IInv
  OBVIOUS
<1>1. minRatio \in config.relaxed .. config.aggressive
  BY RatioClamped, EngineAssumption DEF Init
<1>2. traits \in Traits
  BY DEF Init
<1>3. SettingsOK /\ StepOK
  BY <1>1, <1>2 DEF Init, SettingsOK, StepOK
<1>4. PiecesSound
  BY NoPiece DEF Init
<1> QED BY <1>3, <1>4 DEF IInv

---------------------------------------------------------------------------
(* The steps.  A fallback to the original string and a preview of a stored   *)
(* text are each one sound piece.                                            *)
LEMMA PassthroughIsSound ==
  ASSUME NEW decisions, Passthrough(decisions)
  PROVE  PiecesSound' /\ verbatim' \in BOOLEAN
<1>1. PICK unit : pieces' = <<Same(unit)>>
  BY DEF Passthrough
<1>2. PieceSound(Same(unit))'
  BY DEF PieceSound, Backed, TableKept, Same, Piece, Forms
<1>3. Same(unit)' = Same(unit)
  BY DEF Same, Piece, Cost
<1>4. PiecesSound'
  BY <1>1, <1>2, <1>3, OnePiece
<1> QED BY <1>4 DEF Passthrough

LEMMA OffloadIsSound ==
  ASSUME IInv, NEW decisions, NEW next \in {"guard", "gate"}, ~config.lossless,
         Offload(decisions, next), UNCHANGED <<config, text>>
  PROVE  PiecesSound' /\ StepOK'
<1>1. CASE /\ stored' = stored \cup {Whole}
           /\ \E t \in {Cost(Whole) \div 2, Cost(Whole) + 1} :
                /\ pieces' = <<Piece(Whole, "lossy", "ccr_offload", t, TRUE)>>
                /\ verbatim' = FALSE
                /\ log' = Decision(Cost(Whole), t)
  <2>1. PICK t : pieces' = <<Piece(Whole, "lossy", "ccr_offload", t, TRUE)>> /\ verbatim' = FALSE
    BY <1>1
  <2> DEFINE p == Piece(Whole, "lossy", "ccr_offload", t, TRUE)
  <2>2. PieceSound(p)'
    BY <1>1 DEF PieceSound, Backed, TableKept, Piece, Forms, Whole
  <2>3. PiecesSound'
    BY <2>1, <2>2, OnePiece DEF Whole
  <2> QED BY <2>1, <2>3 DEF StepOK, Offload
<1>2. CASE /\ stored' = stored
           /\ IF pieces = <<>> THEN Passthrough(decisions) ELSE UNCHANGED <<pieces, verbatim, log>>
  <2>1. CASE Passthrough(decisions)
    BY <2>1, PassthroughIsSound DEF StepOK, Offload
  <2>2. CASE UNCHANGED <<pieces, verbatim>>
    BY <1>2, <2>2, SamePieces DEF IInv, StepOK, Offload
  <2> QED BY <1>2, <2>1, <2>2
<1> QED BY <1>1, <1>2 DEF Offload

THEOREM EngineStep == IInv /\ [Next]_vars => IInv'
<1> SUFFICES ASSUME IInv, [Next]_vars PROVE IInv'
  OBVIOUS
<1>1. SettingsOK'
  <2>1. UNCHANGED <<config, text, traits, minRatio>>
    BY DEF Next, vars, Empty, Huge, Pure, Mixed, CompressSection, Reassemble, Guard, LastResort, NoLastResort, Gate
  <2> QED BY <2>1 DEF IInv, SettingsOK
<1>2. CASE Empty
  BY <1>1, <1>2, PassthroughIsSound DEF IInv, StepOK, Empty
<1>3. CASE Huge
  <2>1. ~config.lossless /\ Offload(NoDecisions, "guard") /\ UNCHANGED <<config, text>>
    BY <1>3 DEF Huge, OffloadEnabled
  <2> QED BY <1>1, <2>1, OffloadIsSound DEF IInv
<1>4. CASE Pure
  <2>0. PICK strategy \in Strategies : \E out \in Apply(Whole, strategy) :
          /\ Takes(out, "guard")
          /\ pieces' = <<[out.piece EXCEPT !.via = strategy]>>
          /\ verbatim' = (out.piece.form = "same")
    BY <1>4 DEF Pure
  <2>1. PICK out \in Apply(Whole, strategy) :
          /\ Takes(out, "guard")
          /\ pieces' = <<[out.piece EXCEPT !.via = strategy]>>
          /\ verbatim' = (out.piece.form = "same")
    BY <2>0
  <2>2. UNCHANGED <<config, text>>
    BY <1>4 DEF Pure
  <2>3. PieceSound([out.piece EXCEPT !.via = strategy])'
    BY <2>1, <2>2, AnswerIsSound
  <2>4. PiecesSound'
    BY <2>1, <2>3, OnePiece
  <2>5. StepOK'
    BY <2>1 DEF StepOK, Takes
  <2> QED BY <1>1, <2>4, <2>5 DEF IInv
<1>5. CASE Mixed
  <2>1. CASE Passthrough(NoDecisions) /\ pc' = "guard"
    BY <1>1, <2>1, PassthroughIsSound DEF IInv, StepOK
  <2>2. CASE UNCHANGED <<pieces, verbatim>> /\ pc' = "section"
    <3>1. PiecesSound'
      BY <1>5, <2>2, SamePieces DEF IInv, Mixed
    <3> QED BY <1>1, <2>2, <3>1 DEF IInv, StepOK
  <2> QED BY <1>5, <2>1, <2>2 DEF Mixed
<1>6. CASE CompressSection
  <2> DEFINE unit == Covered(Head(todo))
  <2>0. PICK strategy \in Strategies : \E out \in Apply(unit, strategy) :
          /\ Takes(out, "section")
          /\ pieces' = Append(pieces, [out.piece EXCEPT !.via = strategy])
    BY <1>6 DEF CompressSection
  <2>1. PICK out \in Apply(unit, strategy) :
          /\ Takes(out, "section")
          /\ pieces' = Append(pieces, [out.piece EXCEPT !.via = strategy])
    BY <2>0
  <2>2. UNCHANGED <<config, text, verbatim>>
    BY <1>6 DEF CompressSection
  <2>3. PieceSound([out.piece EXCEPT !.via = strategy])'
    <3> HIDE DEF unit
    <3> QED BY <2>1, <2>2, AnswerIsSound
  <2>4. stored \subseteq stored'
    BY <2>1 DEF Takes
  <2>5. PiecesSound'
    BY <2>1, <2>2, <2>3, <2>4, OneMorePiece DEF IInv
  <2>6. StepOK'
    BY <2>1, <2>2 DEF IInv, StepOK, Takes
  <2> QED BY <1>1, <2>5, <2>6 DEF IInv
<1>7. CASE Reassemble \/ Guard
  <2>1. stored' = stored /\ UNCHANGED <<config, text>> /\ pc' \in {"guard", "offload"}
    BY <1>7 DEF Reassemble, Guard
  <2>2. CASE Passthrough(Honest(log))
    BY <1>1, <2>1, <2>2, PassthroughIsSound DEF IInv, StepOK
  <2>3. CASE UNCHANGED <<pieces, verbatim>>
    BY <1>1, <2>1, <2>3, SamePieces DEF IInv, StepOK
  <2> QED BY <1>7, <2>2, <2>3 DEF Reassemble, Guard
<1>8. CASE LastResort
  <2>1. ~config.lossless /\ Offload(log, "gate") /\ UNCHANGED <<config, text>>
    BY <1>8 DEF LastResort, ShouldOffload, OffloadEnabled
  <2> QED BY <1>1, <2>1, OffloadIsSound DEF IInv
<1>9. CASE NoLastResort \/ Gate \/ UNCHANGED vars
  <2>1. UNCHANGED <<config, text, stored, pieces, verbatim>>
    BY <1>9 DEF NoLastResort, Gate, vars
  <2>2. pc' \in {"gate", "served", "rejected", pc}
    BY <1>9 DEF NoLastResort, Gate, vars
  <2> QED BY <1>1, <2>1, <2>2, SamePieces DEF IInv, StepOK
<1> QED BY <1>2, <1>3, <1>4, <1>5, <1>6, <1>7, <1>8, <1>9 DEF Next

(* Whatever the configurations, the texts and the thresholds, no loss is     *)
(* served without its backing, and no table meets a compressor that drops    *)
(* lines.                                                                    *)
THEOREM EngineRoutesSoundly == Spec => []RoutingSound
<1>1. IInv => RoutingSound
  BY DEF IInv, SettingsOK, StepOK, PiecesSound, PieceSound, Backed, TableKept,
         RoutingSound, TypeOK, LossIsBacked, TablesKept
<1> QED BY <1>1, EngineInit, EngineStep, PTL DEF Spec

---------------------------------------------------------------------------
(* A split of any text is complete, so that of this one is.                  *)
THEOREM SplitLosesNothing == Spec => []SplitKeepsText
<1>1. IInv => SplitKeepsText
  BY SplitSound, EngineAssumption DEF IInv, SettingsOK, SplitKeepsText, AllTexts
<1> QED BY <1>1, EngineInit, EngineStep, PTL DEF Spec

---------------------------------------------------------------------------
(* What the routing log claims, at every step: its totals are numbers, an    *)
(* output that is the original string claims nothing, and there is none      *)
(* before there is an output.                                                *)
TotalsOK ==
  /\ log = Decision(Original, Compressed)
  /\ Original \in Int /\ Compressed \in Int

ClaimsHonest ==
  /\ pc \in {"start", "section"} => ~verbatim
  /\ verbatim \/ pieces = <<>> => Compressed = Original
  /\ pc = "served" => Accepts

HonestInv == TotalsOK /\ ClaimsHonest /\ todo \in Seq(Sections)

(* The whole text and a section are sets of lines.                           *)
LEMMA WholeFinite ==
  ASSUME SettingsOK
  PROVE  IsFiniteSet(Whole) /\ Cost(Whole) \in Int
<1>1. text \in Seq(SUBSET Pattern)
  BY EngineAssumption DEF SettingsOK
<1>2. Whole = 1 .. Len(text) /\ Len(text) \in Nat
  BY <1>1, LenProperties DEF Whole
<1>3. IsFiniteSet(Whole)
  BY <1>2, FS_Interval
<1> QED BY <1>3, FS_CardinalityType DEF Cost

LEMMA SectionFinite ==
  ASSUME NEW section \in Sections
  PROVE  IsFiniteSet(Covered(section)) /\ Cost(Covered(section)) \in Int
<1>1. IsFiniteSet(Covered(section))
  BY FS_Interval DEF Covered, Sections
<1> QED BY <1>1, FS_CardinalityType DEF Cost

(* The original string with honest decisions is an honest claim.             *)
LEMMA PassthroughIsHonest ==
  ASSUME NEW tokens \in Int, Passthrough(Decision(tokens, tokens)),
         pc' \notin {"start", "section", "served"}
  PROVE  TotalsOK' /\ ClaimsHonest'
<1>1. log' = Decision(tokens, tokens) /\ log'.original = tokens /\ log'.compressed = tokens
  BY DEF Passthrough, Decision
<1> QED BY <1>1 DEF TotalsOK, ClaimsHonest, Original, Compressed, Passthrough

(* An output of one piece, or of one more.                                   *)
LEMMA OutputIsHonest ==
  ASSUME NEW original \in Int, NEW compressed \in Int, log' = Decision(original, compressed),
         pieces' # <<>>, verbatim' => compressed = original /\ pc' \notin {"start", "section"},
         pc' # "served"
  PROVE  TotalsOK' /\ ClaimsHonest'
<1>1. log'.original = original /\ log'.compressed = compressed
  BY DEF Decision
<1> QED BY <1>1 DEF TotalsOK, ClaimsHonest, Original, Compressed

LEMMA OffloadIsHonest ==
  ASSUME SettingsOK, HonestInv, NEW decisions, Offload(decisions, pc'),
         pieces = <<>> => \E tokens \in Int : decisions = Decision(tokens, tokens),
         pc' \in {"guard", "gate"}
  PROVE  TotalsOK' /\ ClaimsHonest'
<1>1. CASE \E t \in {Cost(Whole) \div 2, Cost(Whole) + 1} :
             /\ pieces' = <<Piece(Whole, "lossy", "ccr_offload", t, TRUE)>>
             /\ verbatim' = FALSE
             /\ log' = Decision(Cost(Whole), t)
  <2>1. PICK t \in {Cost(Whole) \div 2, Cost(Whole) + 1} :
          /\ \E p : pieces' = <<p>>
          /\ verbatim' = FALSE /\ log' = Decision(Cost(Whole), t)
    BY <1>1
  <2>2. t \in Int /\ Cost(Whole) \in Int
    BY WholeFinite, <2>1
  <2>3. pieces' # <<>>
    BY <2>1
  <2> QED BY <2>1, <2>2, <2>3, OutputIsHonest
<1>2. CASE pieces = <<>> /\ Passthrough(decisions)
  BY <1>2, PassthroughIsHonest
<1>3. CASE UNCHANGED <<pieces, verbatim, log>>
  BY <1>3 DEF HonestInv, TotalsOK, ClaimsHonest, Original, Compressed
<1> QED BY <1>1, <1>2, <1>3 DEF Offload

LEMMA HonestStep ==
  ASSUME IInv, HonestInv, [Next]_vars
  PROVE  HonestInv'
<1>0. SettingsOK /\ PiecesSound
  BY DEF IInv
<1>1. CASE Empty
  <2>1. Passthrough(Decision(0, 0)) /\ pc' = "offload" /\ todo' = todo
    BY <1>1 DEF Empty, NoDecisions
  <2> QED BY <2>1, PassthroughIsHonest DEF HonestInv
<1>2. CASE Huge
  <2>1. Offload(NoDecisions, pc') /\ pc' = "guard" /\ todo' = todo
    BY <1>2 DEF Huge, Offload
  <2>2. \E tokens \in Int : NoDecisions = Decision(tokens, tokens)
    BY DEF NoDecisions
  <2> QED BY <1>0, <2>1, <2>2, OffloadIsHonest DEF HonestInv
<1>3. CASE Pure
  <2>0. PICK strategy \in Strategies : \E out \in Apply(Whole, strategy) :
          /\ Takes(out, "guard")
          /\ pieces' = <<[out.piece EXCEPT !.via = strategy]>>
          /\ verbatim' = (out.piece.form = "same")
          /\ log' = Decision(Cost(Whole), out.piece.tokens)
    BY <1>3 DEF Pure
  <2>1. PICK out \in Apply(Whole, strategy) :
          /\ Takes(out, "guard")
          /\ pieces' = <<[out.piece EXCEPT !.via = strategy]>>
          /\ verbatim' = (out.piece.form = "same")
          /\ log' = Decision(Cost(Whole), out.piece.tokens)
    BY <2>0
  <2>2. Answer(Whole, out)
    BY ApplyAnswers
  <2>3. Cost(Whole) \in Int /\ out.piece.tokens \in Int
    BY <1>0, <2>2, WholeFinite DEF Answer, CountsTokens
  <2>4. verbatim' => out.piece.tokens = Cost(Whole)
    BY <2>1, <2>2 DEF Answer
  <2>5. pieces' # <<>> /\ pc' \in {"guard", "raised"} /\ todo' = todo
    BY <1>3, <2>1 DEF Takes, Pure
  <2> QED BY <2>1, <2>3, <2>4, <2>5, OutputIsHonest DEF HonestInv
<1>4. CASE Mixed
  <2>1. CASE Passthrough(NoDecisions) /\ pc' = "guard" /\ UNCHANGED todo
    BY <2>1, PassthroughIsHonest DEF HonestInv, NoDecisions
  <2>2. CASE todo' = SplitSections(text) /\ pc' = "section" /\ UNCHANGED <<pieces, verbatim, log>>
    <3>1. todo' \in Seq(Sections)
      BY <2>2, <1>0, SplitSound, EngineAssumption DEF SettingsOK, AllTexts
    <3>2. pc = "start"
      BY <1>4 DEF Mixed, Routes
    <3> QED BY <2>2, <3>1, <3>2 DEF HonestInv, TotalsOK, ClaimsHonest, Original, Compressed
  <2> QED BY <1>4, <2>1, <2>2 DEF Mixed
<1>5. CASE CompressSection
  <2>1. PICK section : section = Head(todo) /\ section \in Sections /\ Tail(todo) \in Seq(Sections)
    BY <1>5, HeadTailProperties DEF CompressSection, HonestInv
  <2>2. PICK unit : unit = Covered(section)
    OBVIOUS
  <2>3. PICK fence : fence \in Int /\ fence = IF section.fenced THEN 1 ELSE 0
    OBVIOUS
  <2>4. PICK strategy \in Strategies : \E out \in Apply(unit, strategy) :
          /\ Takes(out, "section")
          /\ pieces' = Append(pieces, [out.piece EXCEPT !.via = strategy])
          /\ log' = Added(log, Decision(Cost(unit), out.piece.tokens + fence))
    BY <1>5, <2>1, <2>2, <2>3 DEF CompressSection
  <2>5. PICK out \in Apply(unit, strategy) :
          /\ Takes(out, "section")
          /\ pieces' = Append(pieces, [out.piece EXCEPT !.via = strategy])
          /\ log' = Added(log, Decision(Cost(unit), out.piece.tokens + fence))
    BY <2>4
  <2>6. Cost(unit) \in Int /\ out.piece.tokens \in Int
    BY <2>1, <2>2, SectionFinite, ApplyAnswers DEF Answer, CountsTokens
  <2>7. log' = Decision(Original + Cost(unit), Compressed + (out.piece.tokens + fence))
    BY <2>5 DEF Added, Decision, Original, Compressed
  <2>8. Original + Cost(unit) \in Int /\ Compressed + (out.piece.tokens + fence) \in Int
    BY <2>3, <2>6 DEF HonestInv, TotalsOK
  <2>9. pieces' # <<>>
    <3>1. PICK p : pieces' = Append(pieces, p)
      BY <2>5
    <3>2. pieces' \in Seq(Range(pieces) \cup {p}) /\ Len(pieces') = Len(pieces) + 1 /\ Len(pieces) \in Nat
      <4>1. pieces \in Seq(Range(pieces) \cup {p}) /\ p \in Range(pieces) \cup {p}
        BY <1>0, SeqMonotonic DEF PiecesSound
      <4> QED BY <3>1, <4>1, AppendProperties, LenProperties
    <3> QED BY <3>2, EmptySeq
  <2>10. ~verbatim' /\ pc' \in {"section", "raised"} /\ todo' \in Seq(Sections)
    BY <1>5, <2>1, <2>5 DEF CompressSection, Takes, HonestInv, ClaimsHonest
  <2> QED BY <2>7, <2>8, <2>9, <2>10, OutputIsHonest DEF HonestInv
<1>6. CASE Reassemble \/ Guard
  <2>1. todo' = todo /\ pc' \in {"guard", "offload"}
    BY <1>6 DEF Reassemble, Guard
  <2>2. CASE Passthrough(Honest(log))
    <3>1. Honest(log) = Decision(Original, Original) /\ Original \in Int
      BY DEF Honest, Original, HonestInv, TotalsOK
    <3> QED BY <2>1, <2>2, <3>1, PassthroughIsHonest DEF HonestInv
  <2>3. CASE UNCHANGED <<pieces, verbatim, log>>
    BY <2>1, <2>3 DEF HonestInv, TotalsOK, ClaimsHonest, Original, Compressed
  <2> QED BY <1>6, <2>2, <2>3 DEF Reassemble, Guard
<1>7. CASE LastResort
  <2>1. Offload(log, pc') /\ pc' = "gate" /\ todo' = todo
    BY <1>7 DEF LastResort, Offload
  <2>2. pieces = <<>> => \E tokens \in Int : log = Decision(tokens, tokens)
    BY DEF HonestInv, TotalsOK, ClaimsHonest
  <2> QED BY <1>0, <2>1, <2>2, OffloadIsHonest DEF HonestInv
<1>8. CASE NoLastResort \/ Gate \/ UNCHANGED vars
  <2>1. UNCHANGED <<todo, pieces, verbatim, log, minRatio>>
    BY <1>8 DEF NoLastResort, Gate, vars
  <2>2. \/ pc' \in {"gate", "rejected", pc}
        \/ pc' = "served" /\ Accepts
    BY <1>8 DEF NoLastResort, Gate, vars
  <2> QED BY <2>1, <2>2 DEF HonestInv, TotalsOK, ClaimsHonest, Original, Compressed, Accepts
<1> QED BY <1>1, <1>2, <1>3, <1>4, <1>5, <1>6, <1>7, <1>8 DEF Next

(* A result below a ratio of at most one is smaller than the original.       *)
LEMMA BelowRatio ==
  ASSUME NEW original \in Int, NEW compressed \in Int, NEW ratio \in Int,
         original > 0, ratio <= 100, 100 * compressed < ratio * original
  PROVE  compressed < original
<1>1. ratio * original <= 100 * original
  <2>1. (100 - ratio) * original >= 0
    OBVIOUS
  <2> QED BY <2>1
<1> QED BY <1>1

(* Wherever the thresholds are ratios of at most one, as in every mode of    *)
(* furl_compress, the claims are honest: the fallbacks to the original       *)
(* string claim nothing and are never served, and what is served is smaller. *)
THEOREM EngineClaimsHonestly ==
  ASSUME \A c \in Configs : c.aggressive <= 100
  PROVE  Spec => []HonestSavings
<1>1. Init => HonestInv
  BY DEF Init, HonestInv, TotalsOK, ClaimsHonest, NoDecisions, Decision, Original, Compressed
<1>2. IInv /\ HonestInv /\ [Next]_vars => HonestInv'
  BY HonestStep
<1>3. IInv /\ HonestInv => HonestSavings
  <2> SUFFICES ASSUME IInv, HonestInv PROVE HonestSavings
    OBVIOUS
  <2>1. minRatio \in Int /\ minRatio <= 100
    BY EngineAssumption DEF IInv, SettingsOK
  <2>2. ASSUME pc = "served" PROVE Compressed < Original
    BY <2>1, <2>2, BelowRatio DEF HonestInv, TotalsOK, ClaimsHonest, Accepts
  <2>3. Compressed < Original => Compressed # Original
    BY DEF HonestInv, TotalsOK
  <2> QED BY <2>2, <2>3 DEF HonestInv, ClaimsHonest, HonestSavings
<1> QED BY <1>1, <1>2, <1>3, EngineInit, EngineStep, PTL DEF Spec

-----------------------------------------------------------------------------
(***************************************************************************)
(* The hints that the router asks for: RetrievalFeedback, over any threads,  *)
(* shapes, calls and times.  m is how many of the calls cs the window ev     *)
(* takes account of, and at gives the calls its times come from.             *)
(***************************************************************************)
RecordsIn(cs, m, s) == {k \in 1..m : cs[k].op = "record" /\ cs[k].shape = s}
Recording(cs, m, s) == cs[m + 1].op = "record" /\ cs[m + 1].shape = s
SeenIn(cs) == {cs[k].shape : k \in {j \in DOMAIN cs : cs[j].op = "record"}}
InOrder(cs) == \A j, k \in DOMAIN cs : j < k => cs[j].now <= cs[k].now

CallShapes == Lookups \cup {EntryShape(e[1], e[2]) : e \in Entries}
CallRecords == [op : {"record", "hints"}, shape : CallShapes, now : Nat]

\* Where the times of a bucket come from: in their order, and up to the last.
Trace(times, at, cs, m, s) ==
  /\ times \in Seq(Nat) /\ at \in Seq(Nat) /\ Len(at) = Len(times) /\ Len(times) > 0
  /\ \A i \in 1..Len(times) : at[i] \in RecordsIn(cs, m, s) /\ cs[at[i]].now = times[i]
  /\ \A i, j \in 1..Len(times) : i < j => at[i] < at[j]
  /\ \A k \in RecordsIn(cs, m, s) : k <= at[Len(times)]

\* Why a retrieval is not in its bucket: it aged, or enough came after it.
In(at, k) == \E i \in 1..Len(at) : at[i] = k
Aged(cs, k) == \E j \in DOMAIN cs : cs[k].now <= cs[j].now - WindowSeconds
After(cs, m, s, k) == {j \in RecordsIn(cs, m, s) : k < j}
Crowded(cs, m, s, k) == Cardinality(After(cs, m, s, k)) >= MaxEvents

Explained(ev, cs, at, m) ==
  \A s : \A k \in RecordsIn(cs, m, s) :
    (s \in DOMAIN ev /\ In(at[s], k)) \/ Aged(cs, k) \/ Crowded(cs, m, s, k)

Fresher(ev, cs, m) ==
  \A s : \A k \in RecordsIn(cs, m, s) :
    s \in DOMAIN ev \/ Aged(cs, k) \/ \A r \in DOMAIN ev : Newest(ev[r]) >= cs[k].now

Accounted(ev, cs, at, m) ==
  /\ \A s \in DOMAIN ev : Trace(ev[s], at[s], cs, m, s)
  /\ Cardinality(SeenIn(cs)) <= MaxShapes => Explained(ev, cs, at, m)
  /\ InOrder(cs) => Fresher(ev, cs, m)

Sized(ev) ==
  /\ IsFiniteSet(DOMAIN ev) /\ Cardinality(DOMAIN ev) <= MaxShapes
  /\ \A s \in DOMAIN ev : ev[s] \in Seq(Nat) /\ Len(ev[s]) \in 1..MaxEvents

FeedbackTypes ==
  /\ clock \in Nat
  /\ asks \in [Threads -> CallRecords \cup {Idle}]
  /\ calls \in Seq(CallRecords)

FeedbackInv ==
  /\ FeedbackTypes /\ Sized(events)
  /\ \E at : Accounted(events, calls, at, Len(calls))

-----------------------------------------------------------------------------
LEMMA GreatestNumber ==
  ASSUME NEW n \in Nat, NEW S \in SUBSET (1..n), S # {}
  PROVE  \E x \in S : \A y \in S : y <= x
<1> DEFINE D == {n - x : x \in S}
<1>1. D \in SUBSET Nat /\ D # {}
  <2>1. PICK x : x \in S
    OBVIOUS
  <2>2. n - x \in D
    BY <2>1
  <2> QED
    BY <2>2
<1>2. PICK d \in D : \A e \in D : d <= e
  BY <1>1, LeastNatural
<1>3. PICK x \in S : d = n - x
  BY <1>2
<1>4. ASSUME NEW y \in S PROVE y <= x
  <2>1. d <= n - y
    BY <1>2
  <2> QED
    BY <1>3, <2>1
<1> QED
  BY <1>3, <1>4

\* What the pruning of a bucket leaves is its end, from the first time in the window on.
LEMMA UnagedCut ==
  ASSUME NEW times \in Seq(Nat), NEW cutoff \in Int
  PROVE  \E f \in 1..(Len(times) + 1) :
           /\ Unaged(times, cutoff) = SubSeq(times, f, Len(times))
           /\ \A i \in 1..(f - 1) : times[i] <= cutoff
           /\ f <= Len(times) => times[f] > cutoff
<1> DEFINE fresh == {k \in DOMAIN times : times[k] > cutoff}
<1>1. DOMAIN times = 1..Len(times) /\ Len(times) \in Nat /\ \A k \in DOMAIN times : times[k] \in Nat
  OBVIOUS
<1>2. CASE fresh = {}
  <2>1. SubSeq(times, Len(times) + 1, Len(times)) = <<>>
    BY <1>1, SubSeqEmpty
  <2>2. Unaged(times, cutoff) = <<>>
    BY <1>2 DEF Unaged
  <2>3. \A i \in 1..Len(times) : times[i] <= cutoff
    BY <1>1, <1>2
  <2>4. Len(times) + 1 \in 1..(Len(times) + 1) /\ (Len(times) + 1) - 1 = Len(times)
        /\ ~(Len(times) + 1 <= Len(times))
    BY <1>1
  <2> QED
    BY <2>1, <2>2, <2>3, <2>4
<1>3. CASE fresh # {}
  <2>1. fresh \in SUBSET Nat
    BY <1>1
  <2>2. \E n \in fresh : \A m \in fresh : n <= m
    BY <1>3, <2>1, LeastNatural
  <2>3. PICK f : f = Min(fresh)
    OBVIOUS
  <2>4. f \in fresh /\ \A m \in fresh : f <= m
    <3> HIDE DEF fresh
    <3> QED
      BY <2>2, <2>3 DEF Min
  <2>5. Unaged(times, cutoff) = SubSeq(times, f, Len(times))
    BY <1>3, <2>3 DEF Unaged
  <2>6. f \in 1..Len(times) /\ times[f] > cutoff
    BY <1>1, <2>4
  <2>7. \A i \in 1..(f - 1) : times[i] <= cutoff
    BY <1>1, <2>4, <2>6
  <2>8. f \in 1..(Len(times) + 1)
    BY <1>1, <2>6
  <2> QED
    BY <2>5, <2>6, <2>7, <2>8
<1> QED
  BY <1>2, <1>3

\* The end of a bucket has a trace, and only the calls of what is cut leave it.
LEMMA TraceCut ==
  ASSUME NEW times, NEW at, NEW cs, NEW m, NEW s, Trace(times, at, cs, m, s),
         NEW f \in 1..Len(times)
  PROVE  /\ Trace(SubSeq(times, f, Len(times)), SubSeq(at, f, Len(times)), cs, m, s)
         /\ Len(SubSeq(times, f, Len(times))) = Len(times) - f + 1
         /\ Newest(SubSeq(times, f, Len(times))) = Newest(times)
         /\ \A k : In(at, k) => \/ In(SubSeq(at, f, Len(times)), k)
                                \/ \E i \in 1..(f - 1) : at[i] = k
<1>1. /\ times \in Seq(Nat) /\ at \in Seq(Nat) /\ Len(at) = Len(times)
      /\ \A i \in 1..Len(times) : at[i] \in RecordsIn(cs, m, s) /\ cs[at[i]].now = times[i]
      /\ \A i, j \in 1..Len(times) : i < j => at[i] < at[j]
      /\ \A k \in RecordsIn(cs, m, s) : k <= at[Len(times)]
  BY DEF Trace
<1>2. PICK n \in Nat : n = Len(times)
  BY <1>1
<1>3. PICK t2 : t2 = SubSeq(times, f, n)
  OBVIOUS
<1>4. PICK a2 : a2 = SubSeq(at, f, n)
  OBVIOUS
<1>5. f \in 1..n /\ f \in Int /\ n \in Int
  BY <1>2
<1>6. t2 \in Seq(Nat) /\ Len(t2) = n - f + 1 /\ \A i \in 1..(n - f + 1) : t2[i] = times[f + i - 1]
  <2>1. \A i \in f..n : times[i] \in Nat
    BY <1>1, <1>2, <1>5
  <2> QED
    BY <1>3, <1>5, <2>1, SubSeqProperties
<1>7. a2 \in Seq(Nat) /\ Len(a2) = n - f + 1 /\ \A i \in 1..(n - f + 1) : a2[i] = at[f + i - 1]
  <2>1. \A i \in f..n : at[i] \in Nat
    BY <1>1, <1>2, <1>5
  <2> QED
    BY <1>4, <1>5, <2>1, SubSeqProperties
<1>8. \A i \in 1..(n - f + 1) : f + i - 1 \in 1..n
  BY <1>5
<1>9. (n - f + 1) \in 1..(n - f + 1) /\ f + (n - f + 1) - 1 = n
  BY <1>5
<1>10. Trace(t2, a2, cs, m, s)
  <2>1. \A i \in 1..Len(t2) : a2[i] \in RecordsIn(cs, m, s) /\ cs[a2[i]].now = t2[i]
    BY <1>1, <1>2, <1>6, <1>7, <1>8
  <2>2. \A i, j \in 1..Len(t2) : i < j => a2[i] < a2[j]
    <3> SUFFICES ASSUME NEW i \in 1..Len(t2), NEW j \in 1..Len(t2), i < j PROVE a2[i] < a2[j]
      OBVIOUS
    <3>1. i \in 1..(n - f + 1) /\ j \in 1..(n - f + 1) /\ f + i - 1 < f + j - 1
      BY <1>5, <1>6
    <3> QED
      BY <1>1, <1>2, <1>7, <1>8, <3>1
  <2>3. a2[Len(t2)] = at[n] /\ Len(t2) > 0
    BY <1>5, <1>6, <1>7, <1>9
  <2> QED
    BY <1>1, <1>2, <1>6, <1>7, <2>1, <2>2, <2>3 DEF Trace
<1>11. Newest(t2) = Newest(times)
  BY <1>2, <1>6, <1>9 DEF Newest
<1>12. ASSUME NEW k, In(at, k)
       PROVE  In(a2, k) \/ \E i \in 1..(f - 1) : at[i] = k
  <2>1. PICK i \in 1..n : at[i] = k
    BY <1>1, <1>2, <1>12 DEF In
  <2>2. CASE i < f
    BY <1>5, <2>1, <2>2
  <2>3. CASE i >= f
    <3>1. i - f + 1 \in 1..(n - f + 1) /\ f + (i - f + 1) - 1 = i
      BY <1>5, <2>3
    <3> QED
      BY <1>7, <2>1, <3>1 DEF In
  <2> QED
    BY <1>5, <2>2, <2>3
<1> QED
  BY <1>2, <1>3, <1>4, <1>6, <1>10, <1>11, <1>12

\* One more retrieval, of a bucket that is there or new.
LEMMA TraceAppend ==
  ASSUME NEW times, NEW at, NEW cs, NEW m \in Nat, NEW s,
         \/ Trace(times, at, cs, m, s)
         \/ times = <<>> /\ at = <<>>,
         Recording(cs, m, s), cs[m + 1].now \in Nat
  PROVE  /\ Trace(Append(times, cs[m + 1].now), Append(at, m + 1), cs, m + 1, s)
         /\ Len(Append(times, cs[m + 1].now)) = Len(times) + 1
         /\ Newest(Append(times, cs[m + 1].now)) = cs[m + 1].now
         /\ In(Append(at, m + 1), m + 1)
         /\ \A k : In(at, k) => In(Append(at, m + 1), k)
<1>1. /\ times \in Seq(Nat) /\ at \in Seq(Nat) /\ Len(at) = Len(times)
      /\ \A i \in 1..Len(times) : at[i] \in RecordsIn(cs, m, s) /\ cs[at[i]].now = times[i]
      /\ \A i, j \in 1..Len(times) : i < j => at[i] < at[j]
  <2>1. CASE Trace(times, at, cs, m, s)
    BY <2>1 DEF Trace
  <2>2. CASE times = <<>> /\ at = <<>>
    <3>1. <<>> \in Seq(Nat) /\ Len(<<>>) = 0 /\ 1..0 = {}
      OBVIOUS
    <3> QED
      BY <2>2, <3>1
  <2> QED
    BY <2>1, <2>2
<1>2. PICK n \in Nat : n = Len(times)
  BY <1>1
<1>3. PICK t2 : t2 = Append(times, cs[m + 1].now)
  OBVIOUS
<1>4. PICK a2 : a2 = Append(at, m + 1)
  OBVIOUS
<1>5. t2 \in Seq(Nat) /\ Len(t2) = n + 1 /\ (\A i \in 1..n : t2[i] = times[i]) /\ t2[n + 1] = cs[m + 1].now
  BY <1>1, <1>2, <1>3, AppendProperties
<1>6. a2 \in Seq(Nat) /\ Len(a2) = n + 1 /\ (\A i \in 1..n : a2[i] = at[i]) /\ a2[n + 1] = m + 1
  BY <1>1, <1>2, <1>4, AppendProperties
<1>7. RecordsIn(cs, m, s) \subseteq RecordsIn(cs, m + 1, s) /\ m + 1 \in RecordsIn(cs, m + 1, s)
      /\ (\A k \in RecordsIn(cs, m + 1, s) : k \in Int /\ k <= m + 1)
      /\ (\A k \in RecordsIn(cs, m, s) : k \in Int /\ k <= m)
  BY DEF RecordsIn, Recording
<1>8. \A i \in 1..(n + 1) : i \in 1..n \/ i = n + 1
  OBVIOUS
<1>9. \A i \in 1..Len(t2) : a2[i] \in RecordsIn(cs, m + 1, s) /\ cs[a2[i]].now = t2[i]
  BY <1>1, <1>2, <1>5, <1>6, <1>7, <1>8
<1>10. \A i, j \in 1..Len(t2) : i < j => a2[i] < a2[j]
  <2> SUFFICES ASSUME NEW i \in 1..(n + 1), NEW j \in 1..(n + 1), i < j PROVE a2[i] < a2[j]
    BY <1>5
  <2>1. i \in 1..n
    OBVIOUS
  <2>2. a2[i] = at[i] /\ at[i] \in Int /\ at[i] <= m
    BY <1>1, <1>2, <1>6, <1>7, <2>1
  <2>3. CASE j \in 1..n
    BY <1>1, <1>2, <1>6, <2>1, <2>3
  <2>4. CASE j = n + 1
    BY <1>6, <2>2, <2>4
  <2> QED
    BY <1>8, <2>3, <2>4
<1>11. Trace(t2, a2, cs, m + 1, s)
  <2>1. Len(t2) > 0 /\ Len(a2) = Len(t2)
    BY <1>2, <1>5, <1>6
  <2>2. \A k \in RecordsIn(cs, m + 1, s) : k <= a2[Len(t2)]
    BY <1>5, <1>6, <1>7
  <2> QED
    BY <1>5, <1>6, <1>9, <1>10, <2>1, <2>2 DEF Trace
<1>12. Newest(t2) = cs[m + 1].now
  BY <1>5 DEF Newest
<1>13. In(a2, m + 1) /\ \A k : In(at, k) => In(a2, k)
  <2>1. In(a2, m + 1)
    BY <1>6 DEF In
  <2>2. ASSUME NEW k, In(at, k) PROVE In(a2, k)
    <3>1. PICK i \in 1..n : at[i] = k
      BY <1>1, <1>2, <2>2 DEF In
    <3>2. i \in 1..(n + 1)
      OBVIOUS
    <3> QED
      BY <1>6, <3>1, <3>2 DEF In
  <2> QED
    BY <2>1, <2>2
<1> QED
  BY <1>2, <1>3, <1>4, <1>5, <1>11, <1>12, <1>13

-----------------------------------------------------------------------------
LEMMA TunablesTyped ==
  ASSUME Tunables
  PROVE  /\ WindowSeconds \in Nat /\ HintMin \in Nat /\ SkipMin \in Nat
         /\ MaxEvents \in Nat \ {0} /\ MaxShapes \in Nat \ {0}
         /\ 0 < WindowSeconds /\ HintMin <= SkipMin /\ SkipMin <= MaxEvents
  BY DEF Tunables

\* The instance counts as this module does.
LEMMA SameCount == \A S : Cardinality(S) = Cardinality(S)
  BY DEF Cardinality, Cardinality

LEMMA CallTyped ==
  ASSUME NEW cs \in Seq(CallRecords), NEW j \in DOMAIN cs
  PROVE  cs[j] \in CallRecords /\ cs[j].now \in Nat /\ j \in Nat
<1>1. cs[j] \in CallRecords /\ j \in Nat
  OBVIOUS
<1> QED
  BY <1>1 DEF CallRecords

-----------------------------------------------------------------------------
LEMMA SeenFinite ==
  ASSUME NEW cs \in Seq(CallRecords)
  PROVE  IsFiniteSet(SeenIn(cs))
<1> DEFINE K == {j \in DOMAIN cs : cs[j].op = "record"}
           T == {cs[k].shape : k \in K}
           g == [k \in K |-> cs[k].shape]
<1>1. DOMAIN cs = 1..Len(cs) /\ Len(cs) \in Nat
  OBVIOUS
<1>2. IsFiniteSet(1..Len(cs))
  BY <1>1, FS_Interval
<1>3. K \in SUBSET (1..Len(cs))
  BY <1>1
<1>4. g \in Surjection(K, T)
  BY DEF Surjection
<1> HIDE DEF K, T, g
<1>5. IsFiniteSet(K)
  BY <1>2, <1>3, FS_Subset
<1>6. IsFiniteSet(T)
  BY <1>4, <1>5, FS_Surjection
<1> QED
  BY <1>6 DEF SeenIn, T, K

\* What a history has seen, and the order of its times, as it grows.
LEMMA SeenGrows ==
  ASSUME NEW cs \in Seq(CallRecords), NEW c \in CallRecords
  PROVE  /\ IsFiniteSet(SeenIn(Append(cs, c)))
         /\ Cardinality(SeenIn(cs)) <= Cardinality(SeenIn(Append(cs, c)))
         /\ Cardinality(SeenIn(cs)) \in Nat /\ Cardinality(SeenIn(Append(cs, c))) \in Nat
         /\ InOrder(Append(cs, c)) => InOrder(cs)
         /\ \A k : Aged(cs, k) /\ k \in DOMAIN cs => Aged(Append(cs, c), k)
<1>1. PICK d : d = Append(cs, c)
  OBVIOUS
<1>2. /\ d \in Seq(CallRecords) /\ Len(d) = Len(cs) + 1 /\ Len(cs) \in Nat
      /\ DOMAIN d = 1..(Len(cs) + 1) /\ DOMAIN cs = 1..Len(cs)
      /\ \A i \in DOMAIN cs : i \in DOMAIN d /\ d[i] = cs[i]
  <2>1. d \in Seq(CallRecords) /\ Len(d) = Len(cs) + 1 /\ \A i \in 1..Len(cs) : d[i] = cs[i]
    BY <1>1, AppendProperties
  <2> QED
    BY <2>1
<1>3. SeenIn(cs) \subseteq SeenIn(d)
  BY <1>2 DEF SeenIn
<1>4. IsFiniteSet(SeenIn(d))
  BY <1>2, SeenFinite
<1>5. Cardinality(SeenIn(cs)) <= Cardinality(SeenIn(d)) /\ IsFiniteSet(SeenIn(cs))
  BY <1>3, <1>4, FS_Subset
<1>6. Cardinality(SeenIn(cs)) \in Nat /\ Cardinality(SeenIn(d)) \in Nat
  BY <1>4, <1>5, FS_CardinalityType
<1>7. InOrder(d) => InOrder(cs)
  BY <1>2 DEF InOrder
<1>8. \A k : Aged(cs, k) /\ k \in DOMAIN cs => Aged(d, k)
  BY <1>2 DEF Aged
<1> QED
  BY <1>1, <1>4, <1>5, <1>6, <1>7, <1>8

\* The accounts up to m look at no later call.
LEMMA GrowHistory ==
  ASSUME NEW cs \in Seq(CallRecords), NEW c \in CallRecords, NEW ev, NEW at,
         Tunables, Accounted(ev, cs, at, Len(cs))
  PROVE  Accounted(ev, Append(cs, c), at, Len(cs))
<1>1. PICK d : d = Append(cs, c)
  OBVIOUS
<1>2. PICK m \in Nat : m = Len(cs)
  OBVIOUS
<1>3. \A i \in 1..m : i \in DOMAIN cs /\ d[i] = cs[i]
  BY <1>1, <1>2, AppendProperties
<1>4. \A s : RecordsIn(d, m, s) = RecordsIn(cs, m, s) /\ RecordsIn(cs, m, s) \subseteq 1..m
  BY <1>3 DEF RecordsIn
<1>5. /\ Cardinality(SeenIn(d)) <= MaxShapes => Cardinality(SeenIn(cs)) <= MaxShapes
      /\ InOrder(d) => InOrder(cs)
      /\ \A s : \A k \in RecordsIn(cs, m, s) : Aged(cs, k) => Aged(d, k)
  <2>1. /\ Cardinality(SeenIn(cs)) <= Cardinality(SeenIn(d))
        /\ Cardinality(SeenIn(cs)) \in Nat /\ Cardinality(SeenIn(d)) \in Nat
        /\ InOrder(d) => InOrder(cs)
        /\ \A k : Aged(cs, k) /\ k \in DOMAIN cs => Aged(d, k)
    BY <1>1, SeenGrows
  <2>2. Cardinality(SeenIn(d)) <= MaxShapes => Cardinality(SeenIn(cs)) <= MaxShapes
    BY <2>1, TunablesTyped
  <2>3. \A s : \A k \in RecordsIn(cs, m, s) : k \in DOMAIN cs
    BY <1>3, <1>4
  <2> QED
    BY <2>1, <2>2, <2>3
<1>6. \A s \in DOMAIN ev : Trace(ev[s], at[s], d, m, s)
  <2> SUFFICES ASSUME NEW s \in DOMAIN ev PROVE Trace(ev[s], at[s], d, m, s)
    OBVIOUS
  <2>1. Trace(ev[s], at[s], cs, m, s)
    BY <1>2 DEF Accounted
  <2> QED
    BY <1>3, <1>4, <2>1 DEF Trace
<1>7. Cardinality(SeenIn(d)) <= MaxShapes => Explained(ev, d, at, m)
  <2> SUFFICES ASSUME Cardinality(SeenIn(d)) <= MaxShapes PROVE Explained(ev, d, at, m)
    OBVIOUS
  <2>1. Explained(ev, cs, at, m)
    BY <1>2, <1>5 DEF Accounted
  <2>2. \A s, k : Crowded(cs, m, s, k) => Crowded(d, m, s, k)
    BY <1>4 DEF Crowded, After
  <2> QED
    BY <1>4, <1>5, <2>1, <2>2 DEF Explained
<1>8. InOrder(d) => Fresher(ev, d, m)
  <2> SUFFICES ASSUME InOrder(d) PROVE Fresher(ev, d, m)
    OBVIOUS
  <2>1. Fresher(ev, cs, m)
    BY <1>2, <1>5 DEF Accounted
  <2> QED
    BY <1>3, <1>4, <1>5, <2>1 DEF Fresher
<1> QED
  BY <1>1, <1>2, <1>6, <1>7, <1>8 DEF Accounted

\* A call that records nothing is accounted for as it is.
LEMMA SkipCall ==
  ASSUME NEW cs, NEW m \in Nat, cs[m + 1].op # "record", NEW ev, NEW at, Accounted(ev, cs, at, m)
  PROVE  Accounted(ev, cs, at, m + 1)
<1>1. \A s : RecordsIn(cs, m + 1, s) = RecordsIn(cs, m, s)
  <2>1. \A k \in 1..(m + 1) : k \in 1..m \/ k = m + 1
    OBVIOUS
  <2>2. \A k \in 1..m : k \in 1..(m + 1)
    OBVIOUS
  <2> QED
    BY <2>1, <2>2 DEF RecordsIn
<1> QED
  BY <1>1 DEF Accounted, Trace, Explained, Fresher, Crowded, After

\* What is pruned of a bucket is aged; the buckets left keep their newest time.
LEMMA PruneStep ==
  ASSUME NEW cs \in Seq(CallRecords), NEW m \in 0..Len(cs), NEW ev, NEW at,
         Accounted(ev, cs, at, m), Sized(ev), Tunables,
         NEW s, NEW j \in DOMAIN cs, NEW cutoff, cutoff = cs[j].now - WindowSeconds
  PROVE  /\ Sized(Pruned(ev, s, cutoff))
         /\ \E at2 : Accounted(Pruned(ev, s, cutoff), cs, at2, m)
<1>1. cs[j].now \in Nat /\ cutoff \in Int
  BY CallTyped, TunablesTyped
<1>2. PICK ev2 : ev2 = Pruned(ev, s, cutoff)
  OBVIOUS
<1>3. CASE s \notin DOMAIN ev
  <2>1. Unaged(<<>>, cutoff) = <<>>
    BY DEF Unaged
  <2>2. ev2 = [r \in DOMAIN ev \ {s} |-> ev[r]]
    BY <1>2, <1>3, <2>1 DEF Pruned, Times, Without
  <2>3. DOMAIN ev2 = DOMAIN ev /\ \A r \in DOMAIN ev : ev2[r] = ev[r]
    BY <1>3, <2>2
  <2>4. Sized(ev2)
    BY <2>3 DEF Sized
  <2>5. Accounted(ev2, cs, at, m)
    BY <2>3 DEF Accounted, Explained, Fresher
  <2> QED
    BY <1>2, <2>4, <2>5
<1>4. CASE s \in DOMAIN ev
  <2>1. PICK n \in Nat : n = Len(ev[s]) /\ ev[s] \in Seq(Nat) /\ n \in 1..MaxEvents
    BY <1>4 DEF Sized
  <2>2. Trace(ev[s], at[s], cs, m, s)
    BY <1>4 DEF Accounted
  <2>3. PICK f \in 1..(n + 1) :
          /\ Unaged(ev[s], cutoff) = SubSeq(ev[s], f, n)
          /\ \A i \in 1..(f - 1) : ev[s][i] <= cutoff
          /\ f <= n => ev[s][f] > cutoff
    BY <1>1, <2>1, UnagedCut
  <2>4. \A i \in 1..(f - 1) : Aged(cs, at[s][i])
    <3> SUFFICES ASSUME NEW i \in 1..(f - 1) PROVE Aged(cs, at[s][i])
      OBVIOUS
    <3>1. i \in 1..n
      BY <2>3
    <3>2. cs[at[s][i]].now = ev[s][i]
      BY <2>1, <2>2, <3>1 DEF Trace
    <3> QED
      BY <2>3, <3>2 DEF Aged
  <2>5. CASE f = n + 1
    <3>1. SubSeq(ev[s], f, n) = <<>>
      BY <2>1, <2>5, SubSeqEmpty
    <3>2. ev2 = [r \in DOMAIN ev \ {s} |-> ev[r]]
      BY <1>2, <1>4, <2>3, <3>1 DEF Pruned, Times, Without
    <3>3. DOMAIN ev2 = DOMAIN ev \ {s} /\ \A r \in DOMAIN ev \ {s} : ev2[r] = ev[r]
      BY <3>2
    <3>4. Sized(ev2)
      <4>1. IsFiniteSet(DOMAIN ev2) /\ Cardinality(DOMAIN ev2) <= Cardinality(DOMAIN ev)
            /\ Cardinality(DOMAIN ev) \in Nat /\ Cardinality(DOMAIN ev2) \in Nat
        BY <3>3, FS_Subset, FS_CardinalityType DEF Sized
      <4>2. Cardinality(DOMAIN ev2) <= MaxShapes
        BY <4>1, TunablesTyped DEF Sized
      <4> QED
        BY <3>3, <4>1, <4>2 DEF Sized
    <3>5. \A k : In(at[s], k) => Aged(cs, k)
      BY <2>1, <2>2, <2>4, <2>5 DEF In, Trace
    <3>6. \A r \in DOMAIN ev2 : Trace(ev2[r], at[r], cs, m, r)
      BY <3>3 DEF Accounted
    <3>7. Cardinality(SeenIn(cs)) <= MaxShapes => Explained(ev2, cs, at, m)
      BY <3>3, <3>5 DEF Accounted, Explained
    <3>8. InOrder(cs) => Fresher(ev2, cs, m)
      <4> SUFFICES ASSUME InOrder(cs), NEW r, NEW k \in RecordsIn(cs, m, r)
                   PROVE  r \in DOMAIN ev2 \/ Aged(cs, k) \/ \A q \in DOMAIN ev2 : Newest(ev2[q]) >= cs[k].now
        BY DEF Fresher
      <4>1. r \in DOMAIN ev \/ Aged(cs, k) \/ \A q \in DOMAIN ev : Newest(ev[q]) >= cs[k].now
        BY DEF Accounted, Fresher
      <4>2. CASE r = s
        <5>1. k <= at[s][n] /\ at[s][n] \in RecordsIn(cs, m, s) /\ cs[at[s][n]].now = ev[s][n]
          BY <2>1, <2>2, <4>2, SMTT(20) DEF Trace
        <5>2. k \in DOMAIN cs /\ at[s][n] \in DOMAIN cs /\ k \in Int /\ at[s][n] \in Int
          BY <5>1 DEF RecordsIn
        <5>3. cs[k].now \in Nat /\ cs[at[s][n]].now \in Nat
          BY <5>2, CallTyped
        <5>4. cs[k].now <= cs[at[s][n]].now
          BY <5>1, <5>2, <5>3 DEF InOrder
        <5>5. ev[s][n] <= cutoff
          <6>1. n \in 1..(f - 1)
            BY <2>1, <2>5
          <6> QED
            BY <2>3, <6>1
        <5> QED
          BY <1>1, <5>1, <5>3, <5>4, <5>5 DEF Aged
      <4> QED
        BY <3>3, <4>1, <4>2
    <3> QED
      BY <1>2, <3>4, <3>6, <3>7, <3>8 DEF Accounted
  <2>6. CASE f \in 1..n
    <3>1. PICK t2 : t2 = SubSeq(ev[s], f, n)
      OBVIOUS
    <3>2. PICK at2 : at2 = [r \in DOMAIN ev |-> IF r = s THEN SubSeq(at[s], f, n) ELSE at[r]]
      OBVIOUS
    <3>3. /\ Trace(t2, at2[s], cs, m, s) /\ Len(t2) = n - f + 1
          /\ Newest(t2) = Newest(ev[s])
          /\ \A k : In(at[s], k) => In(at2[s], k) \/ \E i \in 1..(f - 1) : at[s][i] = k
      <4>1. f \in 1..Len(ev[s]) /\ at2[s] = SubSeq(at[s], f, n)
        BY <1>4, <2>1, <2>6, <3>2
      <4>2. PICK times : times = ev[s]
        OBVIOUS
      <4>3. PICK a : a = at[s]
        OBVIOUS
      <4>4. Trace(times, a, cs, m, s) /\ f \in 1..Len(times)
        BY <2>2, <4>1, <4>2, <4>3
      <4>5. /\ Trace(SubSeq(times, f, Len(times)), SubSeq(a, f, Len(times)), cs, m, s)
            /\ Len(SubSeq(times, f, Len(times))) = Len(times) - f + 1
            /\ Newest(SubSeq(times, f, Len(times))) = Newest(times)
            /\ \A k : In(a, k) => \/ In(SubSeq(a, f, Len(times)), k)
                                 \/ \E i \in 1..(f - 1) : a[i] = k
        BY <4>4, TraceCut
      <4>6. Len(times) = n /\ t2 = SubSeq(times, f, n) /\ at2[s] = SubSeq(a, f, n)
        BY <2>1, <3>1, <4>1, <4>2, <4>3
      <4> QED
        BY <4>2, <4>3, <4>5, <4>6
    <3>4. t2 # <<>>
      <4>1. Len(t2) > 0
        BY <2>1, <2>6, <3>3
      <4> QED
        BY <4>1
    <3>5. ev2 = [r \in DOMAIN ev \cup {s} |-> IF r = s THEN t2 ELSE ev[r]]
      BY <1>2, <1>4, <2>3, <3>1, <3>4 DEF Pruned, Times, With
    <3>6. DOMAIN ev2 = DOMAIN ev /\ ev2[s] = t2 /\ \A r \in DOMAIN ev \ {s} : ev2[r] = ev[r] /\ at2[r] = at[r]
      BY <1>4, <3>2, <3>5
    <3>7. \A r \in DOMAIN ev : Newest(ev2[r]) = Newest(ev[r])
      BY <3>3, <3>6
    <3>8. t2 \in Seq(Nat) /\ Len(t2) \in 1..MaxEvents
      BY <2>1, <2>6, <3>3, TunablesTyped, SMTT(20) DEF Trace
    <3>9. Sized(ev2)
      BY <3>6, <3>8 DEF Sized
    <3>10. \A k : In(at[s], k) => In(at2[s], k) \/ Aged(cs, k)
      BY <2>4, <3>3
    <3>11. \A r \in DOMAIN ev2 : Trace(ev2[r], at2[r], cs, m, r)
      BY <3>3, <3>6 DEF Accounted
    <3>12. Cardinality(SeenIn(cs)) <= MaxShapes => Explained(ev2, cs, at2, m)
      BY <3>6, <3>10 DEF Accounted, Explained
    <3>13. InOrder(cs) => Fresher(ev2, cs, m)
      BY <3>6, <3>7 DEF Accounted, Fresher
    <3> QED
      BY <1>2, <3>9, <3>11, <3>12, <3>13 DEF Accounted
  <2> QED
    BY <2>1, <2>5, <2>6
<1> QED
  BY <1>3, <1>4

\* Who makes room is decayed or stalest; where every shape has room nobody does.
LEMMA RoomStep ==
  ASSUME NEW cs \in Seq(CallRecords), NEW m \in Nat, m + 1 = Len(cs), NEW ev, NEW at,
         Accounted(ev, cs, at, m), Sized(ev), Tunables,
         NEW s, Recording(cs, m, s),
         NEW room \in Room(ev, s, cs[m + 1].now)
  PROVE  /\ Accounted(room, cs, at, m) /\ Sized(room)
         /\ s \in DOMAIN room \/ Cardinality(DOMAIN room) < MaxShapes
<1>1. CASE s \in DOMAIN ev \/ Cardinality(DOMAIN ev) < MaxShapes
  <2>1. room = ev
    BY <1>1, SameCount DEF Room
  <2> QED
    BY <1>1, <2>1
<1>2. CASE ~(s \in DOMAIN ev \/ Cardinality(DOMAIN ev) < MaxShapes)
  <2>1. PICK n : n = cs[m + 1].now
    OBVIOUS
  <2>2. m + 1 \in DOMAIN cs /\ n \in Nat
    <3>1. m + 1 \in DOMAIN cs
      OBVIOUS
    <3> QED
      BY <2>1, <3>1, CallTyped
  <2>3. PICK D : D = {r \in DOMAIN ev : Newest(ev[r]) <= n - WindowSeconds}
    OBVIOUS
  <2>4. PICK alive : alive = [r \in DOMAIN ev \ D |-> ev[r]]
    OBVIOUS
  <2>5. DOMAIN alive = DOMAIN ev \ D /\ \A r \in DOMAIN alive : alive[r] = ev[r]
    BY <2>4
  <2>6. PICK G \in SUBSET DOMAIN alive :
          /\ room = [r \in DOMAIN alive \ G |-> alive[r]]
          /\ G = {} => Cardinality(DOMAIN alive) < MaxShapes
          /\ G # {} => \E g : G = {g}
          /\ \A g \in G, r \in DOMAIN alive : Newest(ev[g]) <= Newest(ev[r])
    <3>1. room \in MadeRoom(ev, n)
      BY <1>2, <2>1, SameCount DEF Room
    <3>2. CASE Cardinality(DOMAIN alive) < MaxShapes
      <4>1. room = alive
        BY <2>3, <2>4, <3>1, <3>2, SameCount DEF MadeRoom, Without
      <4>2. room = [r \in DOMAIN alive \ {} |-> alive[r]] /\ {} \in SUBSET DOMAIN alive
        BY <2>4, <2>5, <4>1
      <4> QED
        BY <3>2, <4>2
    <3>3. CASE ~(Cardinality(DOMAIN alive) < MaxShapes)
      <4> DEFINE stalest == {q \in DOMAIN alive :
                               \A r \in DOMAIN alive : Newest(alive[q]) <= Newest(alive[r])}
      <4>0. alive = Without(ev, {r \in DOMAIN ev : Newest(ev[r]) <= n - WindowSeconds})
        BY <2>3, <2>4 DEF Without
      <4>3. room \in {Without(alive, {q}) : q \in stalest}
        BY <3>1, <3>3, <4>0, SameCount DEF MadeRoom
      <4>1. PICK g \in stalest : room = [r \in DOMAIN alive \ {g} |-> alive[r]]
        BY <4>3 DEF Without
      <4>2. {g} \in SUBSET DOMAIN alive /\ {g} # {}
            /\ \A r \in DOMAIN alive : Newest(ev[g]) <= Newest(ev[r])
        BY <2>5, <4>1
      <4> QED
        BY <4>1, <4>2
    <3> QED
      BY <3>2, <3>3
  <2>7. DOMAIN room = DOMAIN alive \ G /\ \A r \in DOMAIN room : r \in DOMAIN ev /\ room[r] = ev[r]
    BY <2>5, <2>6
  <2>8. /\ IsFiniteSet(DOMAIN room) /\ Cardinality(DOMAIN room) < MaxShapes
    <3>1. IsFiniteSet(DOMAIN ev) /\ Cardinality(DOMAIN ev) <= MaxShapes /\ Cardinality(DOMAIN ev) \in Nat
      BY FS_CardinalityType DEF Sized
    <3>2. IsFiniteSet(DOMAIN alive) /\ Cardinality(DOMAIN alive) <= MaxShapes /\ Cardinality(DOMAIN alive) \in Nat
      <4>1. DOMAIN alive \in SUBSET DOMAIN ev
        BY <2>5
      <4>2. IsFiniteSet(DOMAIN alive) /\ Cardinality(DOMAIN alive) <= Cardinality(DOMAIN ev)
        BY <3>1, <4>1, FS_Subset
      <4>3. Cardinality(DOMAIN alive) \in Nat
        BY <4>2, FS_CardinalityType
      <4> QED
        BY <3>1, <4>2, <4>3, TunablesTyped
    <3>3. CASE G = {}
      BY <2>6, <2>7, <3>2, <3>3
    <3>4. CASE G # {}
      <4>1. PICK g : G = {g}
        BY <2>6, <3>4
      <4>2. IsFiniteSet(DOMAIN alive \ {g})
            /\ Cardinality(DOMAIN alive \ {g}) = Cardinality(DOMAIN alive) - 1
        <5>1. g \in DOMAIN alive
          BY <4>1
        <5> QED
          BY <3>2, <5>1, FS_RemoveElement
      <4> QED
        BY <2>7, <3>2, <4>1, <4>2, TunablesTyped
    <3> QED
      BY <3>3, <3>4
  <2>9. Sized(room)
    <3>1. Cardinality(DOMAIN room) \in Nat
      BY <2>8, FS_CardinalityType
    <3> QED
      BY <2>7, <2>8, <3>1, TunablesTyped DEF Sized
  <2>10. \A r \in DOMAIN room : Trace(room[r], at[r], cs, m, r)
    BY <2>7 DEF Accounted
  <2>11. ~(Cardinality(SeenIn(cs)) <= MaxShapes)
    <3>1. IsFiniteSet(SeenIn(cs))
      BY SeenFinite
    <3>2. s \in SeenIn(cs)
      BY <2>2 DEF SeenIn, Recording
    <3>3. DOMAIN ev \subseteq SeenIn(cs)
      <4> SUFFICES ASSUME NEW r \in DOMAIN ev PROVE r \in SeenIn(cs)
        OBVIOUS
      <4>1. Trace(ev[r], at[r], cs, m, r)
        BY DEF Accounted
      <4>2. at[r][1] \in RecordsIn(cs, m, r)
        BY <4>1 DEF Trace
      <4>3. at[r][1] \in DOMAIN cs
        BY <4>2 DEF RecordsIn
      <4> QED
        BY <4>2, <4>3 DEF SeenIn, RecordsIn
    <3>4. Cardinality(DOMAIN ev \cup {s}) = Cardinality(DOMAIN ev) + 1 /\ IsFiniteSet(DOMAIN ev)
      BY <1>2, FS_AddElement DEF Sized
    <3>5. Cardinality(DOMAIN ev \cup {s}) <= Cardinality(SeenIn(cs)) /\ Cardinality(SeenIn(cs)) \in Nat
      <4>1. DOMAIN ev \cup {s} \in SUBSET SeenIn(cs)
        BY <3>2, <3>3
      <4> QED
        BY <3>1, <4>1, FS_Subset, FS_CardinalityType
    <3>6. Cardinality(DOMAIN ev) \in Nat
      BY <3>4, FS_CardinalityType
    <3> QED
      BY <1>2, <3>4, <3>5, <3>6, TunablesTyped
  <2>12. InOrder(cs) => Fresher(room, cs, m)
    <3> SUFFICES ASSUME InOrder(cs), NEW r, NEW k \in RecordsIn(cs, m, r)
                 PROVE  r \in DOMAIN room \/ Aged(cs, k)
                        \/ \A q \in DOMAIN room : Newest(room[q]) >= cs[k].now
      BY DEF Fresher
    <3>1. r \in DOMAIN ev \/ Aged(cs, k) \/ \A q \in DOMAIN ev : Newest(ev[q]) >= cs[k].now
      BY DEF Accounted, Fresher
    <3>2. k \in DOMAIN cs /\ cs[k].now \in Nat
      <4>1. k \in DOMAIN cs
        BY DEF RecordsIn
      <4> QED
        BY <4>1, CallTyped
    <3>3. CASE r \in DOMAIN ev
      <4>1. cs[k].now <= Newest(ev[r]) /\ Newest(ev[r]) \in Nat
        <5>1. Trace(ev[r], at[r], cs, m, r)
          BY <3>3 DEF Accounted
        <5>2. PICK l : l = at[r][Len(ev[r])]
          OBVIOUS
        <5>3. k <= l /\ l \in RecordsIn(cs, m, r) /\ cs[l].now = Newest(ev[r])
          <6>1. PICK times : times = ev[r]
            OBVIOUS
          <6>2. PICK a : a = at[r]
            OBVIOUS
          <6>3. Trace(times, a, cs, m, r) /\ l = a[Len(times)]
            BY <5>1, <5>2, <6>1, <6>2
          <6>4. Len(times) \in 1..Len(times)
            BY <6>3 DEF Trace
          <6>5. k <= l /\ l \in RecordsIn(cs, m, r) /\ cs[l].now = times[Len(times)]
            BY <6>3, <6>4 DEF Trace
          <6> QED
            BY <6>1, <6>5 DEF Newest
        <5>4. l \in DOMAIN cs /\ l \in Nat /\ k \in Nat
          BY <5>3 DEF RecordsIn
        <5>5. cs[l].now \in Nat
          BY <5>4, CallTyped
        <5> QED
          BY <3>2, <5>3, <5>4, <5>5 DEF InOrder
      <4>2. CASE r \in D
        <5>1. cs[k].now <= cs[m + 1].now - WindowSeconds
          BY <2>1, <2>2, <2>3, <3>2, <4>1, <4>2, TunablesTyped
        <5> QED
          BY <2>2, <5>1 DEF Aged
      <4>3. CASE r \in G
        <5> SUFFICES ASSUME NEW q \in DOMAIN room PROVE Newest(room[q]) >= cs[k].now
          OBVIOUS
        <5>1. Newest(ev[r]) <= Newest(ev[q]) /\ room[q] = ev[q]
          BY <2>6, <2>7, <4>3
        <5>2. Newest(ev[q]) \in Nat
          <6>1. ev[q] \in Seq(Nat) /\ Len(ev[q]) >= 1
            BY <2>7 DEF Sized
          <6> QED
            BY <6>1 DEF Newest
        <5> QED
          BY <3>2, <4>1, <5>1, <5>2
      <4> QED
        BY <2>5, <2>7, <3>3, <4>2, <4>3
    <3> QED
      BY <2>7, <3>1, <3>3
  <2> QED
    BY <2>8, <2>9, <2>10, <2>11, <2>12 DEF Accounted
<1> QED
  BY <1>1, <1>2

\* What the records of the calls are, with one more of them.
LEMMA OneMoreRecord ==
  ASSUME NEW cs \in Seq(CallRecords), NEW m \in Nat, m + 1 = Len(cs), NEW s,
         Recording(cs, m, s)
  PROVE  /\ \A r : r # s => RecordsIn(cs, m + 1, r) = RecordsIn(cs, m, r)
         /\ RecordsIn(cs, m + 1, s) = RecordsIn(cs, m, s) \cup {m + 1}
         /\ \A r : /\ IsFiniteSet(RecordsIn(cs, m + 1, r)) /\ RecordsIn(cs, m + 1, r) \subseteq DOMAIN cs
                   /\ RecordsIn(cs, m, r) \subseteq RecordsIn(cs, m + 1, r)
<1>1. \A k \in 1..(m + 1) : k \in 1..m \/ k = m + 1
  OBVIOUS
<1>2. \A k \in 1..m : k \in 1..(m + 1) /\ k # m + 1
  OBVIOUS
<1>3. m + 1 \in 1..(m + 1)
  OBVIOUS
<1>4. \A r : r # s => RecordsIn(cs, m + 1, r) = RecordsIn(cs, m, r)
  BY <1>1, <1>2 DEF RecordsIn, Recording
<1>5. RecordsIn(cs, m + 1, s) = RecordsIn(cs, m, s) \cup {m + 1}
  BY <1>1, <1>2, <1>3 DEF RecordsIn, Recording
<1>6. ASSUME NEW r
      PROVE  /\ IsFiniteSet(RecordsIn(cs, m + 1, r)) /\ RecordsIn(cs, m + 1, r) \subseteq DOMAIN cs
             /\ RecordsIn(cs, m, r) \subseteq RecordsIn(cs, m + 1, r)
  <2>1. RecordsIn(cs, m + 1, r) \in SUBSET (1..(m + 1)) /\ IsFiniteSet(1..(m + 1)) /\ DOMAIN cs = 1..(m + 1)
    BY FS_Interval DEF RecordsIn
  <2>2. RecordsIn(cs, m, r) \subseteq RecordsIn(cs, m + 1, r)
    BY <1>2 DEF RecordsIn
  <2> QED
    BY <2>1, <2>2, FS_Subset
<1> QED
  BY <1>4, <1>5, <1>6

\* A full bucket's first call is followed by as many of its shape as it can hold.
LEMMA FirstIsCrowded ==
  ASSUME NEW times, NEW at, NEW cs \in Seq(CallRecords), NEW m \in Nat, NEW s,
         Trace(times, at, cs, m, s), Len(times) = MaxEvents + 1, IsFiniteSet(RecordsIn(cs, m, s)),
         Tunables
  PROVE  Crowded(cs, m, s, at[1])
<1>1. PICK e \in Nat \ {0} : e = MaxEvents
  BY TunablesTyped
<1> DEFINE A == After(cs, m, s, at[1])
           g == [i \in 2..(e + 1) |-> at[i]]
<1>2. \A i \in 2..(e + 1) : i \in 1..Len(times) /\ 1 \in 1..Len(times) /\ 1 < i
  BY <1>1
<1>3. \A i \in 1..Len(times) : at[i] \in Nat
  BY DEF Trace, RecordsIn
<1>4. g \in [2..(e + 1) -> A]
  BY <1>2 DEF Trace, After
<1>5. ASSUME NEW i \in 2..(e + 1), NEW j \in 2..(e + 1), i # j
      PROVE  at[i] # at[j]
  <2>1. i < j \/ j < i
    BY <1>5
  <2> QED
    BY <1>2, <1>3, <2>1 DEF Trace
<1>6. g \in Injection(2..(e + 1), A)
  BY <1>4, <1>5 DEF Injection, IsInjective
<1>7. IsFiniteSet(A)
  <2>1. A \in SUBSET RecordsIn(cs, m, s)
    BY DEF After
  <2> QED
    BY <2>1, FS_Subset
<1> HIDE DEF g, A
<1>8. Cardinality(2..(e + 1)) <= Cardinality(A)
  BY <1>6, <1>7, FS_Injection
<1>9. Cardinality(2..(e + 1)) = e
  BY <1>1, FS_Interval
<1> QED
  BY <1>1, <1>8, <1>9 DEF Crowded, A

\* A retrieval enters its bucket, and the oldest may leave it.
LEMMA PutRecord ==
  ASSUME NEW cs \in Seq(CallRecords), NEW m \in Nat, m + 1 = Len(cs), NEW ev, NEW at,
         Accounted(ev, cs, at, m), Sized(ev), Tunables,
         NEW s, Recording(cs, m, s),
         s \in DOMAIN ev \/ Cardinality(DOMAIN ev) < MaxShapes
  PROVE  /\ Sized(Recorded(ev, s, cs[m + 1].now))
         /\ \E at2 : Accounted(Recorded(ev, s, cs[m + 1].now), cs, at2, m + 1)
<1>1. PICK now \in Nat : now = cs[m + 1].now
  <2>1. m + 1 \in DOMAIN cs
    OBVIOUS
  <2> QED
    BY <2>1, CallTyped
<1>2. PICK t0 : t0 = Times(ev, s)
  OBVIOUS
<1>3. PICK a0 : a0 = IF s \in DOMAIN ev THEN at[s] ELSE <<>>
  OBVIOUS
<1>4. /\ Trace(t0, a0, cs, m, s) \/ (t0 = <<>> /\ a0 = <<>>)
      /\ s \in DOMAIN ev => Trace(t0, a0, cs, m, s)
      /\ Len(t0) \in Nat /\ Len(t0) <= MaxEvents
  <2>1. CASE s \in DOMAIN ev
    <3>1. t0 = ev[s] /\ a0 = at[s]
      BY <1>2, <1>3, <2>1 DEF Times
    <3>2. Len(t0) \in Nat /\ Len(t0) <= MaxEvents
      BY <2>1, <3>1, TunablesTyped DEF Sized
    <3> QED
      BY <2>1, <3>1, <3>2 DEF Accounted
  <2>2. CASE s \notin DOMAIN ev
    <3>1. t0 = <<>> /\ a0 = <<>>
      BY <1>2, <1>3, <2>2 DEF Times
    <3> QED
      BY <2>2, <3>1, TunablesTyped
  <2> QED
    BY <2>1, <2>2
<1>5. PICK t1 : t1 = Append(t0, now)
  OBVIOUS
<1>6. PICK a1 : a1 = Append(a0, m + 1)
  OBVIOUS
<1>7. /\ Trace(t1, a1, cs, m + 1, s) /\ Len(t1) = Len(t0) + 1
      /\ Newest(t1) = now
      /\ In(a1, m + 1) /\ \A k : In(a0, k) => In(a1, k)
  <2>1. cs[m + 1].now \in Nat
    BY <1>1
  <2>3. /\ Trace(Append(t0, cs[m + 1].now), Append(a0, m + 1), cs, m + 1, s)
        /\ Len(Append(t0, cs[m + 1].now)) = Len(t0) + 1
        /\ Newest(Append(t0, cs[m + 1].now)) = cs[m + 1].now
        /\ In(Append(a0, m + 1), m + 1)
        /\ \A k : In(a0, k) => In(Append(a0, m + 1), k)
    BY <1>4, <2>1, TraceAppend
  <2> QED
    BY <1>1, <1>5, <1>6, <2>3
<1>8. PICK n \in Nat : n = Len(t1) /\ n >= 1 /\ n <= MaxEvents + 1
  BY <1>4, <1>7, TunablesTyped
<1>9. PICK f \in {1, 2} : f = IF n > MaxEvents THEN 2 ELSE 1
  OBVIOUS
<1>10. f \in 1..n /\ n - f + 1 \in 1..MaxEvents
  BY <1>8, <1>9, TunablesTyped
<1>11. PICK t2 : t2 = SubSeq(t1, f, n)
  OBVIOUS
<1>12. PICK a2 : a2 = SubSeq(a1, f, n)
  OBVIOUS
<1>13. Bounded(t1) = t2
  <2>1. t1 \in Seq(Nat) /\ t1 # <<>>
    BY <1>7 DEF Trace
  <2>2. Tail(t1) = SubSeq(t1, 2, n) /\ t1 = SubSeq(t1, 1, n)
    BY <1>8, <2>1, TailIsSubSeq, SubSeqFull
  <2> QED
    BY <1>8, <1>9, <1>11, <2>2 DEF Bounded
<1>14. /\ Trace(t2, a2, cs, m + 1, s) /\ Len(t2) = n - f + 1
       /\ Newest(t2) = now
       /\ \A k : In(a1, k) => In(a2, k) \/ \E i \in 1..(f - 1) : a1[i] = k
  <2>1. f \in 1..Len(t1)
    BY <1>8, <1>10
  <2>2. /\ Trace(SubSeq(t1, f, Len(t1)), SubSeq(a1, f, Len(t1)), cs, m + 1, s)
        /\ Len(SubSeq(t1, f, Len(t1))) = Len(t1) - f + 1
        /\ Newest(SubSeq(t1, f, Len(t1))) = Newest(t1)
        /\ \A k : In(a1, k) => \/ In(SubSeq(a1, f, Len(t1)), k)
                               \/ \E i \in 1..(f - 1) : a1[i] = k
    BY <1>7, <2>1, TraceCut
  <2> QED
    BY <1>7, <1>8, <1>11, <1>12, <2>2
<1>15. /\ \A r : r # s => RecordsIn(cs, m + 1, r) = RecordsIn(cs, m, r)
       /\ RecordsIn(cs, m + 1, s) = RecordsIn(cs, m, s) \cup {m + 1}
       /\ \A r : /\ IsFiniteSet(RecordsIn(cs, m + 1, r)) /\ RecordsIn(cs, m + 1, r) \subseteq DOMAIN cs
                 /\ RecordsIn(cs, m, r) \subseteq RecordsIn(cs, m + 1, r)
  BY OneMoreRecord
<1>16. \A k : In(a1, k) => In(a2, k) \/ Crowded(cs, m + 1, s, k)
  <2> SUFFICES ASSUME NEW k, In(a1, k), ~In(a2, k) PROVE Crowded(cs, m + 1, s, k)
    OBVIOUS
  <2>1. PICK i \in 1..(f - 1) : a1[i] = k
    BY <1>14
  <2>2. f = 2 /\ i = 1 /\ n = MaxEvents + 1
    BY <1>8, <1>9, <2>1, TunablesTyped
  <2>3. IsFiniteSet(RecordsIn(cs, m + 1, s)) /\ m + 1 \in Nat /\ Len(t1) = MaxEvents + 1
    BY <1>8, <1>15, <2>2
  <2>4. Crowded(cs, m + 1, s, a1[1])
    BY <1>7, <2>3, FirstIsCrowded
  <2> QED
    BY <2>1, <2>2, <2>4
<1>17. PICK ev2 : ev2 = Recorded(ev, s, cs[m + 1].now)
  OBVIOUS
<1>18. DOMAIN ev2 = DOMAIN ev \cup {s} /\ ev2[s] = t2 /\ \A r \in DOMAIN ev \ {s} : ev2[r] = ev[r]
  <2>1. ev2 = [r \in DOMAIN ev \cup {s} |-> IF r = s THEN t2 ELSE ev[r]]
    BY <1>1, <1>2, <1>5, <1>13, <1>17 DEF Recorded, With
  <2> QED
    BY <2>1
<1>19. PICK at2 : at2 = [r \in DOMAIN ev \cup {s} |-> IF r = s THEN a2 ELSE at[r]]
  OBVIOUS
<1>20. at2[s] = a2 /\ \A r \in DOMAIN ev \ {s} : at2[r] = at[r]
  BY <1>19
<1>21. Sized(ev2)
  <2>1. IsFiniteSet(DOMAIN ev2) /\ Cardinality(DOMAIN ev2) <= MaxShapes
    <3>1. IsFiniteSet(DOMAIN ev) /\ Cardinality(DOMAIN ev) \in Nat /\ Cardinality(DOMAIN ev) <= MaxShapes
      BY FS_CardinalityType DEF Sized
    <3>2. IsFiniteSet(DOMAIN ev \cup {s})
          /\ Cardinality(DOMAIN ev \cup {s}) = IF s \in DOMAIN ev THEN Cardinality(DOMAIN ev) ELSE Cardinality(DOMAIN ev) + 1
      BY <3>1, FS_AddElement
    <3> QED
      BY <1>18, <3>1, <3>2, TunablesTyped
  <2>2. t2 \in Seq(Nat) /\ Len(t2) \in 1..MaxEvents
    BY <1>10, <1>14 DEF Trace
  <2> QED
    BY <1>18, <2>1, <2>2 DEF Sized
<1>22. \A r \in DOMAIN ev2 : Trace(ev2[r], at2[r], cs, m + 1, r)
  <2> SUFFICES ASSUME NEW r \in DOMAIN ev2, r # s PROVE Trace(ev2[r], at2[r], cs, m + 1, r)
    BY <1>14, <1>18, <1>20
  <2>1. Trace(ev[r], at[r], cs, m, r) /\ ev2[r] = ev[r] /\ at2[r] = at[r]
    BY <1>18, <1>20 DEF Accounted
  <2> QED
    BY <1>15, <2>1 DEF Trace
<1>23. Cardinality(SeenIn(cs)) <= MaxShapes => Explained(ev2, cs, at2, m + 1)
  <2> SUFFICES ASSUME Cardinality(SeenIn(cs)) <= MaxShapes, NEW r, NEW k \in RecordsIn(cs, m + 1, r)
               PROVE  (r \in DOMAIN ev2 /\ In(at2[r], k)) \/ Aged(cs, k) \/ Crowded(cs, m + 1, r, k)
    BY DEF Explained
  <2>1. k \in RecordsIn(cs, m, r) =>
          (r \in DOMAIN ev /\ In(at[r], k)) \/ Aged(cs, k) \/ Crowded(cs, m, r, k)
    BY DEF Accounted, Explained
  <2>2. Crowded(cs, m, r, k) => Crowded(cs, m + 1, r, k)
    <3>1. After(cs, m + 1, r, k) \in SUBSET RecordsIn(cs, m + 1, r)
          /\ After(cs, m, r, k) \in SUBSET After(cs, m + 1, r, k)
      BY <1>15 DEF After
    <3>2. IsFiniteSet(After(cs, m + 1, r, k))
      BY <1>15, <3>1, FS_Subset
    <3>3. Cardinality(After(cs, m, r, k)) <= Cardinality(After(cs, m + 1, r, k))
          /\ IsFiniteSet(After(cs, m, r, k))
      BY <3>1, <3>2, FS_Subset
    <3>4. Cardinality(After(cs, m, r, k)) \in Nat /\ Cardinality(After(cs, m + 1, r, k)) \in Nat
      BY <3>2, <3>3, FS_CardinalityType
    <3> QED
      BY <3>3, <3>4, TunablesTyped DEF Crowded
  <2>3. CASE r # s
    BY <1>15, <1>18, <1>20, <2>1, <2>2, <2>3
  <2>4. CASE r = s
    <3>1. k \in RecordsIn(cs, m, s) \/ k = m + 1
      BY <1>15, <2>4
    <3>2. r \in DOMAIN ev /\ In(at[r], k) => In(a1, k)
      BY <1>3, <1>7, <2>4
    <3>3. k = m + 1 => In(a1, k)
      BY <1>7
    <3>4. In(a1, k) => In(at2[r], k) \/ Crowded(cs, m + 1, r, k)
      BY <1>16, <1>20, <2>4
    <3> QED
      BY <1>18, <2>1, <2>2, <2>4, <3>1, <3>2, <3>3, <3>4
  <2> QED
    BY <2>3, <2>4
<1>24. InOrder(cs) => Fresher(ev2, cs, m + 1)
  <2> SUFFICES ASSUME InOrder(cs), NEW r, NEW k \in RecordsIn(cs, m + 1, r)
               PROVE  r \in DOMAIN ev2 \/ Aged(cs, k)
                      \/ \A q \in DOMAIN ev2 : Newest(ev2[q]) >= cs[k].now
    BY DEF Fresher
  <2>1. CASE r = s
    BY <1>18, <2>1
  <2>2. CASE r # s
    <3>1. r \in DOMAIN ev \/ Aged(cs, k) \/ \A q \in DOMAIN ev : Newest(ev[q]) >= cs[k].now
      BY <1>15, <2>2 DEF Accounted, Fresher
    <3>2. k \in 1..m /\ k \in DOMAIN cs /\ m + 1 \in DOMAIN cs
      BY <1>15, <2>2 DEF RecordsIn
    <3>3. cs[k].now \in Nat /\ cs[k].now <= now
      BY <1>1, <3>2, CallTyped DEF InOrder
    <3> QED
      BY <1>14, <1>18, <3>1, <3>3
  <2> QED
    BY <2>1, <2>2
<1> QED
  BY <1>17, <1>21, <1>22, <1>23, <1>24 DEF Accounted

-----------------------------------------------------------------------------
\* A lookup prunes one bucket, or two.
LEMMA HintsStep ==
  ASSUME NEW cs \in Seq(CallRecords), NEW c \in CallRecords, c.op = "hints", NEW ev, NEW at,
         Accounted(ev, cs, at, Len(cs)), Sized(ev), Tunables
  PROVE  /\ Sized(Consulted(ev, c.shape, c.now - WindowSeconds))
         /\ \E at2 : Accounted(Consulted(ev, c.shape, c.now - WindowSeconds),
                               Append(cs, c), at2, Len(Append(cs, c)))
<1>1. PICK d \in Seq(CallRecords) : d = Append(cs, c)
  <2>1. Append(cs, c) \in Seq(CallRecords)
    BY AppendProperties
  <2> QED
    BY <2>1
<1>2. PICK m \in Nat : m = Len(cs)
  OBVIOUS
<1>3. Len(d) = m + 1 /\ d[m + 1] = c /\ m + 1 \in DOMAIN d /\ m + 1 \in 0..Len(d)
  BY <1>1, <1>2, AppendProperties
<1>4. Accounted(ev, d, at, m + 1)
  <2>1. Accounted(ev, d, at, m)
    BY <1>1, <1>2, GrowHistory
  <2>2. d[m + 1].op # "record"
    BY <1>3
  <2> QED
    BY <2>1, <2>2, SkipCall
<1>5. PICK cutoff : cutoff = d[m + 1].now - WindowSeconds
  OBVIOUS
<1>6. PICK s : s = c.shape
  OBVIOUS
<1>7. PICK own : own = Pruned(ev, s, cutoff)
  OBVIOUS
<1>8. Sized(own) /\ \E at2 : Accounted(own, d, at2, m + 1)
  BY <1>3, <1>4, <1>5, <1>7, PruneStep
<1>9. PICK at2 : Accounted(own, d, at2, m + 1)
  BY <1>8
<1>10. PICK q : q = Anonymous(s)
  OBVIOUS
<1>11. PICK both : both = Pruned(own, q, cutoff)
  OBVIOUS
<1>12. Sized(both) /\ \E at3 : Accounted(both, d, at3, m + 1)
  BY <1>3, <1>5, <1>8, <1>9, <1>11, PruneStep
<1>13. Consulted(ev, c.shape, c.now - WindowSeconds) = IF s.tool = "" THEN own ELSE both
  BY <1>3, <1>5, <1>6, <1>7, <1>10, <1>11 DEF Consulted
<1> QED
  BY <1>1, <1>3, <1>8, <1>12, <1>13

\* A retrieval makes room and enters.
LEMMA RecordStep ==
  ASSUME NEW cs \in Seq(CallRecords), NEW c \in CallRecords, c.op = "record", NEW ev, NEW at,
         Accounted(ev, cs, at, Len(cs)), Sized(ev), Tunables,
         NEW room \in Room(ev, c.shape, c.now)
  PROVE  /\ Sized(Recorded(room, c.shape, c.now))
         /\ \E at2 : Accounted(Recorded(room, c.shape, c.now),
                               Append(cs, c), at2, Len(Append(cs, c)))
<1>1. PICK d \in Seq(CallRecords) : d = Append(cs, c)
  <2>1. Append(cs, c) \in Seq(CallRecords)
    BY AppendProperties
  <2> QED
    BY <2>1
<1>2. PICK m \in Nat : m = Len(cs)
  OBVIOUS
<1>3. Len(d) = m + 1 /\ d[m + 1] = c
  BY <1>1, <1>2, AppendProperties
<1>4. Accounted(ev, d, at, m)
  BY <1>1, <1>2, GrowHistory
<1>5. PICK s : s = c.shape
  OBVIOUS
<1>6. Recording(d, m, s) /\ room \in Room(ev, s, d[m + 1].now)
  BY <1>3, <1>5 DEF Recording
<1>7. /\ Accounted(room, d, at, m) /\ Sized(room)
      /\ s \in DOMAIN room \/ Cardinality(DOMAIN room) < MaxShapes
  BY <1>3, <1>4, <1>6, RoomStep
<1>8. /\ Sized(Recorded(room, s, d[m + 1].now))
      /\ \E at2 : Accounted(Recorded(room, s, d[m + 1].now), d, at2, m + 1)
  BY <1>3, <1>6, <1>7, PutRecord
<1> QED
  BY <1>1, <1>3, <1>5, <1>8

LEMMA FeedbackStarts ==
  ASSUME Tunables, FeedbackInit
  PROVE  FeedbackInv
<1>1. FeedbackTypes
  <2>1. calls \in Seq(CallRecords)
    BY DEF FeedbackInit
  <2>2. clock \in Nat /\ asks \in [Threads -> CallRecords \cup {Idle}]
    BY DEF FeedbackInit
  <2> QED
    BY <2>1, <2>2 DEF FeedbackTypes
<1>2. DOMAIN events = {} /\ calls = <<>>
  BY DEF FeedbackInit
<1>3. Sized(events)
  BY <1>2, FS_EmptySet, TunablesTyped DEF Sized
<1>4. \A s : RecordsIn(calls, Len(calls), s) = {}
  BY <1>2 DEF RecordsIn
<1>5. Accounted(events, calls, <<>>, Len(calls))
  BY <1>2, <1>4 DEF Accounted, Explained, Fresher
<1> QED
  BY <1>1, <1>3, <1>5 DEF FeedbackInv

LEMMA ClearForgets ==
  ASSUME Tunables, FeedbackInv, Clear
  PROVE  FeedbackInv'
<1>1. FeedbackTypes'
  <2>1. calls' \in Seq(CallRecords)
    BY DEF Clear
  <2> QED
    BY <2>1 DEF Clear, FeedbackInv, FeedbackTypes
<1>2. DOMAIN events' = {} /\ calls' = <<>>
  BY DEF Clear
<1>3. Sized(events')
  BY <1>2, FS_EmptySet, TunablesTyped DEF Sized
<1>4. \A s : RecordsIn(calls', Len(calls'), s) = {}
  BY <1>2 DEF RecordsIn
<1>5. Accounted(events', calls', <<>>, Len(calls'))
  BY <1>2, <1>4 DEF Accounted, Explained, Fresher
<1> QED
  BY <1>1, <1>3, <1>5 DEF FeedbackInv, Sized

\* What a thread waits with, and what the lock lets in.
LEMMA LetInTypes ==
  ASSUME FeedbackTypes, NEW t \in Threads, NEW op \in {"record", "hints"}, LetIn(t, op)
  PROVE  /\ FeedbackTypes' /\ asks[t] \in CallRecords /\ asks[t].op = op
         /\ calls \in Seq(CallRecords) /\ calls' = Append(calls, asks[t])
<1>1. asks[t] \in CallRecords \cup {Idle} /\ asks[t].op = op /\ calls \in Seq(CallRecords)
  BY DEF FeedbackTypes, LetIn
<1>2. asks[t] \in CallRecords
  <2>1. Idle.op = "idle"
    BY DEF Idle
  <2> QED
    BY <1>1, <2>1
<1>3. calls' = Append(calls, asks[t]) /\ clock' = clock
      /\ asks' = [asks EXCEPT ![t] = Idle]
  BY DEF LetIn
<1>4. calls' \in Seq(CallRecords)
  BY <1>1, <1>2, <1>3
<1>5. asks' \in [Threads -> CallRecords \cup {Idle}]
  BY <1>3 DEF FeedbackTypes
<1> QED
  BY <1>1, <1>2, <1>3, <1>4, <1>5 DEF FeedbackTypes

LEMMA FeedbackSteps ==
  ASSUME Tunables, FeedbackInv, [FeedbackNext]_feedbackVars
  PROVE  FeedbackInv'
<1>1. /\ FeedbackTypes /\ Sized(events)
      /\ \E at : Accounted(events, calls, at, Len(calls))
  BY DEF FeedbackInv
<1>2. PICK at : Accounted(events, calls, at, Len(calls))
  BY <1>1
<1>3. ASSUME NEW t \in Threads, NEW op \in {"record", "hints"}, NEW shape \in CallShapes,
             Asks(t, op, shape)
      PROVE  FeedbackInv'
  <2>1. Call(op, shape, clock) \in CallRecords
    BY <1>1 DEF Call, CallRecords, FeedbackTypes
  <2>2. FeedbackTypes'
    BY <1>1, <1>3, <2>1 DEF Asks, FeedbackTypes
  <2> QED
    BY <1>1, <1>2, <1>3, <2>2 DEF Asks, FeedbackInv
<1>4. ASSUME NEW t \in Threads, RecordRetrieval(t)
      PROVE  FeedbackInv'
  <2>1. PICK c : c = asks[t]
    OBVIOUS
  <2>2. FeedbackTypes' /\ c \in CallRecords /\ c.op = "record" /\ calls \in Seq(CallRecords)
        /\ calls' = Append(calls, c)
    BY <1>1, <1>4, <2>1, LetInTypes DEF RecordRetrieval
  <2>3. PICK room \in Room(events, c.shape, c.now) :
          events' = Recorded(room, c.shape, c.now)
    BY <1>4, <2>1 DEF RecordRetrieval
  <2>4. /\ Sized(Recorded(room, c.shape, c.now))
        /\ \E at2 : Accounted(Recorded(room, c.shape, c.now),
                              Append(calls, c), at2, Len(Append(calls, c)))
    BY <1>1, <1>2, <2>2, <2>3, RecordStep
  <2>5. Sized(events') /\ \E at2 : Accounted(events', calls', at2, Len(calls'))
    BY <2>2, <2>3, <2>4
  <2> QED
    BY <2>2, <2>5 DEF FeedbackInv
<1>5. ASSUME NEW t \in Threads, GetHints(t)
      PROVE  FeedbackInv'
  <2>1. PICK c : c = asks[t]
    OBVIOUS
  <2>2. FeedbackTypes' /\ c \in CallRecords /\ c.op = "hints" /\ calls \in Seq(CallRecords)
        /\ calls' = Append(calls, c)
    BY <1>1, <1>5, <2>1, LetInTypes DEF GetHints
  <2>3. events' = Consulted(events, c.shape, c.now - WindowSeconds)
    BY <1>5, <2>1 DEF GetHints
  <2>4. /\ Sized(Consulted(events, c.shape, c.now - WindowSeconds))
        /\ \E at2 : Accounted(Consulted(events, c.shape, c.now - WindowSeconds),
                              Append(calls, c), at2, Len(Append(calls, c)))
    BY <1>1, <1>2, <2>2, HintsStep
  <2>5. Sized(events') /\ \E at2 : Accounted(events', calls', at2, Len(calls'))
    BY <2>2, <2>3, <2>4
  <2> QED
    BY <2>2, <2>5 DEF FeedbackInv
<1>6. CASE Clear
  BY <1>6, ClearForgets
<1>7. CASE Tick
  <2>1. FeedbackTypes'
    BY <1>1, <1>7 DEF Tick, FeedbackTypes
  <2> QED
    BY <1>1, <1>2, <1>7, <2>1 DEF Tick, FeedbackInv
<1>8. CASE UNCHANGED feedbackVars
  <2>1. clock' = clock /\ asks' = asks /\ events' = events /\ calls' = calls
    BY <1>8 DEF feedbackVars
  <2>2. FeedbackTypes'
    BY <1>1, <2>1 DEF FeedbackTypes
  <2> QED
    BY <1>1, <1>2, <2>1, <2>2 DEF FeedbackInv
<1>9. \A e \in Entries : EntryShape(e[1], e[2]) \in CallShapes
  BY DEF CallShapes
<1>10. \A shape \in Lookups : shape \in CallShapes
  BY DEF CallShapes
<1> QED
  BY <1>3, <1>4, <1>5, <1>6, <1>7, <1>8, <1>9, <1>10 DEF FeedbackNext

-----------------------------------------------------------------------------
\* The retrievals a count is about; how late a call with an earlier time may come.
RecentIn(cs, s, cutoff) == {k \in RecordsIn(cs, Len(cs), s) : cs[k].now > cutoff}
LagsIn(cs, lag) == \A j, k \in DOMAIN cs : j < k => cs[j].now - cs[k].now <= lag

LEMMA RecentFinite ==
  ASSUME NEW cs \in Seq(CallRecords), NEW s, NEW cutoff
  PROVE  IsFiniteSet(RecentIn(cs, s, cutoff)) /\ Cardinality(RecentIn(cs, s, cutoff)) \in Nat
<1>1. RecentIn(cs, s, cutoff) \in SUBSET (1..Len(cs)) /\ IsFiniteSet(1..Len(cs))
  BY FS_Interval DEF RecentIn, RecordsIn
<1> QED
  BY <1>1, FS_Subset, FS_CardinalityType

\* What is counted of a bucket: its times from the first in the window on.
LEMMA CountedPart ==
  ASSUME NEW cs \in Seq(CallRecords), NEW ev, NEW at, Accounted(ev, cs, at, Len(cs)), Sized(ev),
         NEW s \in DOMAIN ev, NEW cutoff \in Int
  PROVE  \E n \in Nat, f \in Nat :
           /\ n = Len(ev[s]) /\ f \in 1..(n + 1)
           /\ CountInWindow(ev, s, cutoff) = n - f + 1
           /\ n - f + 1 = Cardinality(f..n) /\ IsFiniteSet(f..n)
           /\ \A i \in 1..(f - 1) : cs[at[s][i]].now <= cutoff
           /\ f <= n => cs[at[s][f]].now > cutoff
<1>1. PICK n \in Nat : n = Len(ev[s]) /\ ev[s] \in Seq(Nat)
  BY DEF Sized
<1>2. Trace(ev[s], at[s], cs, Len(cs), s)
  BY DEF Accounted
<1>3. PICK f \in 1..(n + 1) :
        /\ Unaged(ev[s], cutoff) = SubSeq(ev[s], f, n)
        /\ \A i \in 1..(f - 1) : ev[s][i] <= cutoff
        /\ f <= n => ev[s][f] > cutoff
  BY <1>1, UnagedCut
<1>4. f \in Nat /\ f \in Int /\ n \in Int
  BY <1>1, <1>3
<1>5. CountInWindow(ev, s, cutoff) = Len(SubSeq(ev[s], f, n))
  BY <1>3 DEF CountInWindow, Times
<1>6. Len(SubSeq(ev[s], f, n)) = n - f + 1
  <2>1. CASE f <= n
    <3>1. \A i \in f..n : ev[s][i] \in Nat
      BY <1>1, <1>3
    <3> QED
      BY <1>3, <1>4, <2>1, <3>1, SubSeqProperties
  <2>2. CASE f = n + 1
    <3>1. SubSeq(ev[s], f, n) = <<>>
      BY <1>1, <2>2, SubSeqEmpty
    <3> QED
      BY <1>1, <2>2, <3>1
  <2> QED
    BY <1>3, <2>1, <2>2
<1>7. Cardinality(f..n) = n - f + 1 /\ IsFiniteSet(f..n)
  <2>1. IsFiniteSet(f..n) /\ Cardinality(f..n) = IF f > n THEN 0 ELSE n - f + 1
    BY <1>4, FS_Interval
  <2> QED
    BY <1>3, <2>1
<1>8. \A i \in 1..n : cs[at[s][i]].now = ev[s][i]
  BY <1>1, <1>2 DEF Trace
<1>9. (\A i \in 1..(f - 1) : i \in 1..n) /\ (f <= n => f \in 1..n)
  BY <1>3
<1> QED
  BY <1>1, <1>3, <1>4, <1>5, <1>6, <1>7, <1>8, <1>9

\* Everything counted is a retrieval, within the lag of the window.
LEMMA CountBacked ==
  ASSUME NEW cs \in Seq(CallRecords), NEW ev, NEW at, Accounted(ev, cs, at, Len(cs)), Sized(ev),
         NEW s, NEW cutoff \in Int, NEW lag \in Nat, LagsIn(cs, lag)
  PROVE  /\ CountInWindow(ev, s, cutoff) \in Nat
         /\ CountInWindow(ev, s, cutoff) <= Cardinality(RecentIn(cs, s, cutoff - lag))
<1>1. PICK R : R = RecentIn(cs, s, cutoff - lag)
  OBVIOUS
<1>2. IsFiniteSet(R) /\ Cardinality(R) \in Nat
  BY <1>1, RecentFinite
<1>3. CASE s \notin DOMAIN ev
  <2>1. CountInWindow(ev, s, cutoff) = 0
    BY <1>3 DEF CountInWindow, Times, Unaged
  <2> QED
    BY <1>1, <1>2, <2>1
<1>4. CASE s \in DOMAIN ev
  <2>1. PICK n \in Nat, f \in Nat :
          /\ n = Len(ev[s]) /\ f \in 1..(n + 1)
          /\ CountInWindow(ev, s, cutoff) = n - f + 1
          /\ n - f + 1 = Cardinality(f..n) /\ IsFiniteSet(f..n)
          /\ \A i \in 1..(f - 1) : cs[at[s][i]].now <= cutoff
          /\ f <= n => cs[at[s][f]].now > cutoff
    BY <1>4, CountedPart, ZenonT(30)
  <2>2. PICK a : a = at[s]
    OBVIOUS
  <2>3. /\ \A i \in 1..n : a[i] \in RecordsIn(cs, Len(cs), s)
        /\ \A i, j \in 1..n : i < j => a[i] < a[j]
    <3>1. Trace(ev[s], a, cs, Len(cs), s)
      BY <1>4, <2>2 DEF Accounted
    <3> QED
      BY <2>1, <3>1 DEF Trace
  <2>4. \A i \in 1..n : a[i] \in DOMAIN cs /\ a[i] \in Nat /\ cs[a[i]].now \in Nat
    <3> SUFFICES ASSUME NEW i \in 1..n PROVE a[i] \in DOMAIN cs /\ a[i] \in Nat /\ cs[a[i]].now \in Nat
      OBVIOUS
    <3>1. a[i] \in DOMAIN cs
      BY <2>3 DEF RecordsIn
    <3> QED
      BY <3>1, CallTyped
  <2>5. ASSUME NEW i \in f..n PROVE a[i] \in R
    <3>1. f \in 1..n /\ i \in 1..n /\ f <= n /\ (f < i \/ f = i)
      BY <2>1
    <3>2. cs[a[f]].now > cutoff /\ cs[a[f]].now \in Nat /\ cs[a[i]].now \in Nat
      BY <2>1, <2>2, <2>4, <3>1
    <3>3. cs[a[f]].now - cs[a[i]].now <= lag
      <4>1. CASE f = i
        BY <3>2, <4>1
      <4>2. CASE f < i
        BY <2>3, <2>4, <3>1, <4>2 DEF LagsIn
      <4> QED
        BY <3>1, <4>1, <4>2
    <3>4. cs[a[i]].now > cutoff - lag
      BY <3>2, <3>3
    <3> QED
      BY <1>1, <2>3, <3>1, <3>4 DEF RecentIn
  <2>6. ASSUME NEW i \in f..n, NEW j \in f..n, i # j PROVE a[i] # a[j]
    <3>1. i \in 1..n /\ j \in 1..n /\ (i < j \/ j < i)
      BY <2>1, <2>6
    <3> QED
      BY <2>3, <2>4, <3>1
  <2>7. PICK g : g = [i \in f..n |-> a[i]]
    OBVIOUS
  <2>8. g \in Injection(f..n, R)
    BY <2>5, <2>6, <2>7 DEF Injection, IsInjective
  <2>9. Cardinality(f..n) <= Cardinality(R)
    BY <1>2, <2>8, FS_Injection
  <2> QED
    BY <1>1, <2>1, <2>9
<1> QED
  BY <1>3, <1>4

\* Retrievals in the window whose calls are all in their bucket are all counted.
LEMMA AllCounted ==
  ASSUME NEW cs \in Seq(CallRecords), NEW ev, NEW at, Accounted(ev, cs, at, Len(cs)), Sized(ev),
         NEW s \in DOMAIN ev, NEW cutoff \in Int,
         NEW S \in SUBSET RecentIn(cs, s, cutoff), \A k \in S : In(at[s], k)
  PROVE  Cardinality(S) <= CountInWindow(ev, s, cutoff)
<1>1. PICK n \in Nat, f \in Nat :
        /\ n = Len(ev[s]) /\ f \in 1..(n + 1)
        /\ CountInWindow(ev, s, cutoff) = n - f + 1
        /\ n - f + 1 = Cardinality(f..n) /\ IsFiniteSet(f..n)
        /\ \A i \in 1..(f - 1) : cs[at[s][i]].now <= cutoff
        /\ f <= n => cs[at[s][f]].now > cutoff
  BY CountedPart, ZenonT(30)
<1>2. PICK a : a = at[s]
  OBVIOUS
<1>3. Len(a) = n
  <2>1. Trace(ev[s], a, cs, Len(cs), s)
    BY <1>2 DEF Accounted
  <2> QED
    BY <1>1, <2>1 DEF Trace
<1>4. ASSUME NEW k \in S PROVE \E i \in f..n : a[i] = k
  <2>1. PICK i \in 1..n : a[i] = k
    BY <1>2, <1>3 DEF In
  <2>2. cs[k].now > cutoff /\ k \in DOMAIN cs
    BY DEF RecentIn, RecordsIn
  <2>3. cs[k].now \in Nat
    BY <2>2, CallTyped
  <2>4. ~(i \in 1..(f - 1))
    BY <1>1, <1>2, <2>1, <2>2, <2>3
  <2>5. i \in f..n
    BY <1>1, <2>4
  <2> QED
    BY <2>1, <2>5
<1>5. PICK T : T = {a[i] : i \in f..n}
  OBVIOUS
<1>6. PICK g : g = [i \in f..n |-> a[i]]
  OBVIOUS
<1>7. g \in Surjection(f..n, T)
  BY <1>5, <1>6 DEF Surjection
<1>8. IsFiniteSet(T) /\ Cardinality(T) <= Cardinality(f..n) /\ Cardinality(T) \in Nat
  BY <1>1, <1>7, FS_Surjection, FS_CardinalityType
<1>9. S \in SUBSET T
  BY <1>4, <1>5
<1>10. Cardinality(S) <= Cardinality(T) /\ Cardinality(S) \in Nat
  BY <1>8, <1>9, FS_Subset, FS_CardinalityType
<1> QED
  BY <1>1, <1>8, <1>10

\* With the times in order and room for every shape, nothing recent is missed
\* unless the bucket is full of what is recent.
LEMMA Exact ==
  ASSUME NEW cs \in Seq(CallRecords), NEW ev, NEW at, Accounted(ev, cs, at, Len(cs)), Sized(ev),
         Tunables, Cardinality(SeenIn(cs)) <= MaxShapes, InOrder(cs),
         NEW now \in Nat, \A k \in DOMAIN cs : cs[k].now <= now,
         NEW s, NEW cutoff \in Int, cutoff = now - WindowSeconds
  PROVE  \/ Cardinality(RecentIn(cs, s, cutoff)) <= CountInWindow(ev, s, cutoff)
         \/ MaxEvents <= CountInWindow(ev, s, cutoff)
<1>1. PICK R : R = RecentIn(cs, s, cutoff)
  OBVIOUS
<1>2. PICK m \in Nat : m = Len(cs)
  OBVIOUS
<1>3. /\ R \in SUBSET (1..m) /\ R \in SUBSET DOMAIN cs /\ R \in SUBSET RecordsIn(cs, m, s)
      /\ \A k \in R : cs[k].now > cutoff
  BY <1>1, <1>2 DEF RecentIn, RecordsIn
<1>4. \A k \in R : ~Aged(cs, k)
  <2> SUFFICES ASSUME NEW k \in R, NEW j \in DOMAIN cs, cs[k].now <= cs[j].now - WindowSeconds PROVE FALSE
    BY DEF Aged
  <2>1. cs[k].now \in Nat /\ cs[j].now \in Nat /\ k \in DOMAIN cs
    BY <1>3, CallTyped
  <2> QED
    BY <1>3, <2>1, TunablesTyped, SMTT(20)
<1>5. \A k \in R : (s \in DOMAIN ev /\ In(at[s], k)) \/ Crowded(cs, m, s, k)
  BY <1>2, <1>3, <1>4 DEF Accounted, Explained
<1>6. PICK B : B = {k \in R : ~(s \in DOMAIN ev /\ In(at[s], k))}
  OBVIOUS
<1>7. CASE B = {}
  <2>1. CASE s \in DOMAIN ev
    BY <1>1, <1>6, <1>7, <2>1, AllCounted
  <2>2. CASE s \notin DOMAIN ev
    <3>1. R = {}
      BY <1>6, <1>7, <2>2
    <3>2. Cardinality(R) = 0
      BY <3>1, FS_EmptySet
    <3>3. CountInWindow(ev, s, cutoff) = 0
      BY <2>2 DEF CountInWindow, Times, Unaged
    <3> QED
      BY <1>1, <3>2, <3>3
  <2> QED
    BY <2>1, <2>2
<1>8. CASE B # {}
  <2>1. B \in SUBSET (1..m)
    BY <1>3, <1>6
  <2>2. PICK x \in B : \A y \in B : y <= x
    BY <1>8, <2>1, GreatestNumber
  <2>3. x \in R /\ Crowded(cs, m, s, x) /\ x \in DOMAIN cs
    BY <1>3, <1>5, <1>6
  <2>4. PICK S : S = After(cs, m, s, x)
    OBVIOUS
  <2>5. ASSUME NEW j \in S PROVE j \in R /\ s \in DOMAIN ev /\ In(at[s], j)
    <3>1. j \in RecordsIn(cs, m, s) /\ x < j
      BY <2>4 DEF After
    <3>2. j \in DOMAIN cs /\ j \in Nat /\ x \in Nat
      BY <1>2, <2>3, <3>1 DEF RecordsIn
    <3>3. cs[j].now \in Nat /\ cs[x].now \in Nat /\ cs[x].now <= cs[j].now
      BY <2>3, <3>1, <3>2, CallTyped DEF InOrder
    <3>4. cs[j].now > cutoff
      BY <1>3, <2>3, <3>3
    <3>5. j \in R
      BY <1>1, <1>2, <3>1, <3>4 DEF RecentIn
    <3>6. j \notin B
      BY <2>2, <3>1, <3>2
    <3> QED
      BY <1>6, <3>5, <3>6
  <2>6. MaxEvents <= Cardinality(S)
    BY <2>3, <2>4, TunablesTyped DEF Crowded
  <2>7. S # {}
    <3>1. ASSUME S = {} PROVE Cardinality(S) = 0
      BY <3>1, FS_EmptySet
    <3> QED
      BY <2>6, <3>1, TunablesTyped
  <2>8. s \in DOMAIN ev /\ S \in SUBSET RecentIn(cs, s, cutoff) /\ \A k \in S : In(at[s], k)
    BY <1>1, <2>5, <2>7
  <2>9. Cardinality(S) <= CountInWindow(ev, s, cutoff)
    BY <2>8, AllCounted
  <2>10. Cardinality(S) \in Nat /\ CountInWindow(ev, s, cutoff) \in Int
    <3>1. IsFiniteSet(R)
      BY <1>1, RecentFinite
    <3>2. S \in SUBSET R
      BY <2>5
    <3>3. Cardinality(S) \in Nat
      BY <3>1, <3>2, FS_Subset, FS_CardinalityType
    <3>4. LagsIn(cs, 0)
      <4> SUFFICES ASSUME NEW j \in DOMAIN cs, NEW k \in DOMAIN cs, j < k PROVE cs[j].now - cs[k].now <= 0
        BY DEF LagsIn
      <4>1. cs[j].now \in Nat /\ cs[k].now \in Nat
        BY CallTyped
      <4> QED
        BY <4>1 DEF InOrder
    <3>5. CountInWindow(ev, s, cutoff) \in Nat
      BY <3>4, CountBacked
    <3> QED
      BY <3>3, <3>5
  <2> QED
    BY <2>6, <2>9, <2>10, TunablesTyped
<1> QED
  BY <1>7, <1>8

\* A count and what it stands for call for the same hint.
LEMMA SameHint ==
  ASSUME Tunables, NEW c \in Nat, NEW r \in Nat, c <= r, r <= c \/ MaxEvents <= c
  PROVE  Hint(c) = Hint(r)
<1>1. CASE r <= c
  <2>1. r = c
    BY <1>1
  <2> QED
    BY <2>1
<1>2. CASE MaxEvents <= c
  <2>1. c >= SkipMin /\ r >= SkipMin
    BY <1>2, TunablesTyped
  <2> QED
    BY <2>1 DEF Hint
<1> QED
  BY <1>1, <1>2

\* The sums over the bucket of a tool and the anonymous one.
CalledIn(cs, shape, cutoff) ==
  Cardinality(RecentIn(cs, shape, cutoff))
    + (IF shape.tool = "" THEN 0 ELSE Cardinality(RecentIn(cs, Anonymous(shape), cutoff)))

LEMMA SumsBacked ==
  ASSUME NEW cs \in Seq(CallRecords), NEW ev, NEW at, Accounted(ev, cs, at, Len(cs)), Sized(ev),
         NEW s, NEW cutoff \in Int, NEW lag \in Nat, LagsIn(cs, lag)
  PROVE  /\ Counted(ev, s, cutoff) \in Nat /\ CalledIn(cs, s, cutoff - lag) \in Nat
         /\ Counted(ev, s, cutoff) <= CalledIn(cs, s, cutoff - lag)
<1>1. PICK q : q = Anonymous(s)
  OBVIOUS
<1>2. PICK c1 \in Nat, r1 \in Nat :
        c1 = CountInWindow(ev, s, cutoff) /\ r1 = Cardinality(RecentIn(cs, s, cutoff - lag)) /\ c1 <= r1
  BY CountBacked, RecentFinite
<1>3. PICK c2 \in Nat, r2 \in Nat :
        c2 = CountInWindow(ev, q, cutoff) /\ r2 = Cardinality(RecentIn(cs, q, cutoff - lag)) /\ c2 <= r2
  BY CountBacked, RecentFinite
<1>4. Counted(ev, s, cutoff) = c1 + (IF s.tool = "" THEN 0 ELSE c2)
  BY <1>1, <1>2, <1>3 DEF Counted
<1>5. CalledIn(cs, s, cutoff - lag) = r1 + (IF s.tool = "" THEN 0 ELSE r2)
  BY <1>1, <1>2, <1>3 DEF CalledIn
<1>6. CASE s.tool = ""
  <2>1. Counted(ev, s, cutoff) = c1 /\ CalledIn(cs, s, cutoff - lag) = r1
    <3>1. (IF s.tool = "" THEN 0 ELSE c2) = 0 /\ (IF s.tool = "" THEN 0 ELSE r2) = 0
      BY <1>6
    <3>2. c1 + 0 = c1 /\ r1 + 0 = r1
      OBVIOUS
    <3> QED
      BY <1>4, <1>5, <3>1, <3>2
  <2> QED
    BY <1>2, <2>1
<1>7. CASE s.tool # ""
  <2>1. Counted(ev, s, cutoff) = c1 + c2 /\ CalledIn(cs, s, cutoff - lag) = r1 + r2
    BY <1>4, <1>5, <1>7
  <2> QED
    BY <1>2, <1>3, <2>1, SMTT(20)
<1> QED
  BY <1>6, <1>7

LEMMA SumsExact ==
  ASSUME NEW cs \in Seq(CallRecords), NEW ev, NEW at, Accounted(ev, cs, at, Len(cs)), Sized(ev),
         Tunables, Cardinality(SeenIn(cs)) <= MaxShapes, InOrder(cs),
         NEW now \in Nat, \A k \in DOMAIN cs : cs[k].now <= now,
         NEW s, NEW cutoff \in Int, cutoff = now - WindowSeconds
  PROVE  \/ CalledIn(cs, s, cutoff) <= Counted(ev, s, cutoff)
         \/ MaxEvents <= Counted(ev, s, cutoff)
<1>0. LagsIn(cs, 0)
  <2> SUFFICES ASSUME NEW j \in DOMAIN cs, NEW k \in DOMAIN cs, j < k PROVE cs[j].now - cs[k].now <= 0
    BY DEF LagsIn
  <2>1. cs[j].now \in Nat /\ cs[k].now \in Nat
    BY CallTyped
  <2> QED
    BY <2>1 DEF InOrder
<1>1. PICK q : q = Anonymous(s)
  OBVIOUS
<1>2. PICK c1 \in Nat, r1 \in Nat :
        /\ c1 = CountInWindow(ev, s, cutoff) /\ r1 = Cardinality(RecentIn(cs, s, cutoff))
        /\ r1 <= c1 \/ MaxEvents <= c1
  BY <1>0, CountBacked, RecentFinite, Exact
<1>3. PICK c2 \in Nat, r2 \in Nat :
        /\ c2 = CountInWindow(ev, q, cutoff) /\ r2 = Cardinality(RecentIn(cs, q, cutoff))
        /\ r2 <= c2 \/ MaxEvents <= c2
  BY <1>0, CountBacked, RecentFinite, Exact
<1>4. Counted(ev, s, cutoff) = c1 + (IF s.tool = "" THEN 0 ELSE c2)
  BY <1>1, <1>2, <1>3 DEF Counted
<1>5. CalledIn(cs, s, cutoff) = r1 + (IF s.tool = "" THEN 0 ELSE r2)
  BY <1>1, <1>2, <1>3 DEF CalledIn
<1>6. CASE s.tool = ""
  <2>1. Counted(ev, s, cutoff) = c1 /\ CalledIn(cs, s, cutoff) = r1
    <3>1. (IF s.tool = "" THEN 0 ELSE c2) = 0 /\ (IF s.tool = "" THEN 0 ELSE r2) = 0
      BY <1>6
    <3>2. c1 + 0 = c1 /\ r1 + 0 = r1
      OBVIOUS
    <3> QED
      BY <1>4, <1>5, <3>1, <3>2
  <2> QED
    BY <1>2, <2>1
<1>7. CASE s.tool # ""
  <2>1. Counted(ev, s, cutoff) = c1 + c2 /\ CalledIn(cs, s, cutoff) = r1 + r2
    BY <1>4, <1>5, <1>7
  <2> QED
    <3>1. r1 + r2 <= c1 + c2 \/ MaxEvents <= c1 + c2
      <4>1. MaxEvents \in Nat
        BY TunablesTyped
      <4>2. (r1 <= c1 \/ MaxEvents <= c1) /\ (r2 <= c2 \/ MaxEvents <= c2)
        BY <1>2, <1>3
      <4> QED
        BY <4>1, <4>2
    <3> QED
      BY <2>1, <3>1
<1> QED
  BY <1>6, <1>7

LEMMA FeedbackReads ==
  ASSUME calls \in Seq(CallRecords)
  PROVE  /\ \A s, cutoff : Recent(s, cutoff) = RecentIn(calls, s, cutoff)
         /\ \A s, cutoff : Called(s, cutoff) = CalledIn(calls, s, cutoff)
         /\ Seen = SeenIn(calls)
         /\ \A lag : Lags(lag) <=> LagsIn(calls, lag)
         /\ Lags(0) => InOrder(calls)
<1>1. DOMAIN calls = 1..Len(calls)
  OBVIOUS
<1>2. \A s : Records(s) = RecordsIn(calls, Len(calls), s)
  BY <1>1 DEF Records, RecordsIn
<1>3. \A s, cutoff : Recent(s, cutoff) = RecentIn(calls, s, cutoff)
  BY <1>2 DEF Recent, RecentIn
<1>4. \A s, cutoff : Called(s, cutoff) = CalledIn(calls, s, cutoff)
  BY <1>3, SameCount DEF Called, CalledIn
<1>5. Seen = SeenIn(calls)
  BY DEF Seen, SeenIn
<1>6. \A lag : Lags(lag) <=> LagsIn(calls, lag)
  BY DEF Lags, LagsIn
<1>7. ASSUME Lags(0) PROVE InOrder(calls)
  <2> SUFFICES ASSUME NEW j \in DOMAIN calls, NEW k \in DOMAIN calls, j < k PROVE calls[j].now <= calls[k].now
    BY DEF InOrder
  <2>1. calls[j].now \in Nat /\ calls[k].now \in Nat
    BY CallTyped
  <2> QED
    BY <1>7, <2>1 DEF Lags
<1> QED
  BY <1>3, <1>4, <1>5, <1>6, <1>7

LEMMA HintIsJustified ==
  ASSUME Tunables, FeedbackInv, NEW shape, NEW now \in Nat
  PROVE  HintJustified(shape, now)
<1>1. PICK cs \in Seq(CallRecords) : cs = calls
  BY DEF FeedbackInv, FeedbackTypes
<1>2. PICK cutoff \in Int : cutoff = now - WindowSeconds
  BY TunablesTyped
<1>3. PICK at : Accounted(events, cs, at, Len(cs))
  BY <1>1 DEF FeedbackInv
<1>4. Sized(events)
  BY DEF FeedbackInv
<1>5. PICK count : count = Counted(events, shape, cutoff)
  OBVIOUS
<1>6. ASSUME NEW lag \in 0..MaxClock, Lags(lag)
      PROVE  count <= Called(shape, cutoff - lag)
  <2>1. lag \in Nat /\ LagsIn(cs, lag)
    BY <1>1, <1>6, FeedbackReads
  <2>2. Counted(events, shape, cutoff) <= CalledIn(cs, shape, cutoff - lag)
    BY <1>3, <1>4, <2>1, SumsBacked
  <2> QED
    BY <1>1, <1>5, <2>2, FeedbackReads
<1>7. ASSUME Ordered(now)
      PROVE  /\ Cardinality(Seen) <= MaxShapes =>
                  Hint(count) = Hint(Called(shape, cutoff))
             /\ \A k \in Recent(shape, cutoff) :
                  shape \in DOMAIN events
                  \/ \A r \in DOMAIN events : Newest(events[r]) >= calls[k].now
  <2>1. InOrder(cs) /\ LagsIn(cs, 0) /\ \A k \in DOMAIN cs : cs[k].now <= now
    BY <1>1, <1>7, FeedbackReads DEF Ordered
  <2>2. ASSUME Cardinality(SeenIn(cs)) <= MaxShapes
        PROVE  Hint(count) = Hint(Called(shape, cutoff))
    <3>1. PICK c \in Nat : c = Counted(events, shape, cutoff)
      BY <1>3, <1>4, <2>1, SumsBacked
    <3>2. PICK r : r = CalledIn(cs, shape, cutoff)
      OBVIOUS
    <3>3. r \in Nat /\ c <= r
      <4>1. cutoff - 0 = cutoff
        OBVIOUS
      <4>2. CalledIn(cs, shape, cutoff - 0) \in Nat
            /\ Counted(events, shape, cutoff) <= CalledIn(cs, shape, cutoff - 0)
        BY <1>3, <1>4, <2>1, SumsBacked
      <4> QED
        BY <3>1, <3>2, <4>1, <4>2
    <3>4. r <= c \/ MaxEvents <= c
      BY <1>2, <1>3, <1>4, <2>1, <2>2, <3>1, <3>2, SumsExact
    <3>5. Hint(c) = Hint(r)
      BY <3>3, <3>4, SameHint
    <3>6. Called(shape, cutoff) = r
      BY <1>1, <3>2, FeedbackReads
    <3> QED
      BY <1>5, <3>1, <3>5, <3>6
  <2>3. ASSUME NEW k \in RecentIn(cs, shape, cutoff)
        PROVE  shape \in DOMAIN events
               \/ \A r \in DOMAIN events : Newest(events[r]) >= cs[k].now
    <3>1. k \in RecordsIn(cs, Len(cs), shape) /\ cs[k].now > cutoff /\ k \in DOMAIN cs
      BY DEF RecentIn, RecordsIn
    <3>2. ~Aged(cs, k)
      <4> SUFFICES ASSUME NEW j \in DOMAIN cs, cs[k].now <= cs[j].now - WindowSeconds PROVE FALSE
        BY DEF Aged
      <4>1. cs[k].now \in Nat /\ cs[j].now \in Nat /\ cs[j].now <= now
        BY <2>1, <3>1, CallTyped
      <4> QED
        BY <1>2, <3>1, <4>1, TunablesTyped, SMTT(20)
    <3> QED
      BY <1>3, <2>1, <3>1, <3>2 DEF Accounted, Fresher
  <2> QED
    BY <1>1, <2>2, <2>3, SameCount, FeedbackReads
<1> QED
  BY <1>2, <1>5, <1>6, <1>7 DEF HintJustified

LEMMA WindowIsBounded ==
  ASSUME FeedbackInv
  PROVE  WindowBounded
  BY SameCount DEF FeedbackInv, Sized, WindowBounded

\* A hint is backed by retrievals of that content type in the window, give or
\* take the lag of the clock; in order and with room for every shape it is the
\* one they call for, and a shape makes room only for fresher ones.
THEOREM HintsAreJustified ==
  FeedbackSpec => []HintsHold
<1>0. Tunables /\ MaxClock \in Nat
  BY FeedbackAssumption
<1>1. FeedbackInit => FeedbackInv
  BY <1>0, FeedbackStarts
<1>2. FeedbackInv /\ [FeedbackNext]_feedbackVars => FeedbackInv'
  BY <1>0, FeedbackSteps
<1>3. FeedbackInv => HintsHold
  <2> SUFFICES ASSUME FeedbackInv, NEW shape \in Lookups, NEW now \in 0..MaxClock
               PROVE  WindowBounded /\ HintJustified(shape, now)
    BY <1>0, WindowIsBounded DEF HintsHold
  <2>1. now \in Nat
    OBVIOUS
  <2> QED
    BY <1>0, <2>1, WindowIsBounded, HintIsJustified
<1> QED
  BY <1>1, <1>2, <1>3, PTL DEF FeedbackSpec
=============================================================================
