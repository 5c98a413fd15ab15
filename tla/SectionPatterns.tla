-------------------------- MODULE SectionPatterns --------------------------
(* The line filters of furl_compress: how include and exclude patterns split *)
(* a content into the runs that are compressed and the runs that ship as     *)
(* they are.  A pattern that is no regular expression is matched as a glob.  *)
EXTENDS LineSearch, SequencesExt

(* SectionPatterns.parse and the handler: every pattern passes the screens,  *)
(* and a server nothing would bound them on takes none.                      *)
ParsePatterns(host, include, exclude) ==
  /\ \A p \in include \union exclude : Admitted(host, p)
  /\ ~(include \union exclude # {} /\ Refuses(host))

(* _resolve_matcher: no line above the cap is matched, neither as a regular  *)
(* expression, which runs under the budget, nor as a glob, which does not.   *)
Matches(host, p, line) ==
  /\ line.chars <= MaxLineChars
  /\ IF p.regex THEN WithinBudget(host, p, line) ELSE p \in line.hits

(* line_is_eligible: a line above the cap is protected, an excluded one is,  *)
(* and with include patterns every line that has none of them.               *)
Eligible_LongLines(host, include, exclude, line) ==
  /\ ~\E p \in exclude : Matches(host, p, line)
  /\ include # {} => \E p \in include : Matches(host, p, line)
Eligible(host, include, exclude, line) ==
  /\ line.chars <= MaxLineChars
  /\ ~\E p \in exclude : Matches(host, p, line)
  /\ include # {} => \E p \in include : Matches(host, p, line)

(* partition_content: the longest runs of lines that are all eligible or all *)
(* protected, in order, from where each of them starts.                      *)
Run(eligible, first, next) == [eligible |-> eligible, first |-> first, last |-> next - 1]
Runs(is, starts) ==
  [k \in DOMAIN starts |->
     Run(is[starts[k]], starts[k], IF k = Len(starts) THEN Len(is) + 1 ELSE starts[k + 1])]
RunsOf(is) == Runs(is, SetToSortSeq({i \in DOMAIN is : i = 1 \/ is[i] # is[i - 1]}, <))
Partition(host, include, exclude, lines) ==
  RunsOf([i \in DOMAIN lines |-> Eligible(host, include, exclude, lines[i])])

---------------------------------------------------------------------------
(* The runs, joined, are the content; neighbours differ; and on a server a   *)
(* line its caller excluded, or one too long to be searched, is never in a   *)
(* run that is compressed.                                                   *)
RunsKeep(host, exclude, lines, runs) ==
  /\ FlattenSeq([k \in DOMAIN runs |-> SubSeq(lines, runs[k].first, runs[k].last)]) = lines
  /\ \A k \in DOMAIN runs : k > 1 => runs[k].eligible # runs[k - 1].eligible
  /\ \A k \in DOMAIN runs : \A i \in runs[k].first .. runs[k].last :
       runs[k].eligible =>
         /\ lines[i].chars <= MaxLineChars
         /\ \A p \in exclude : p \in lines[i].hits => host.main /\ p \in lines[i].slow

PartitionKeeps(host, include, exclude, lines) ==
  ParsePatterns(host, include, exclude) =>
    /\ RunsKeep(host, exclude, lines, Partition(host, include, exclude, lines))
    /\ \A p \in include \union exclude : AlwaysBounded(host, p)
=============================================================================
