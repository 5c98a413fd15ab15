------------------------------ MODULE Messages ------------------------------
(***************************************************************************)
(* The messages of a conversation as the passes of the pipeline see them.   *)
(*                                                                         *)
(* A tool output is one content unit.  A content is what the tool returned  *)
(* ("raw"), or what a pass put in its place: a pointer to an identical      *)
(* message ("dup"), the rows that differ from an earlier array and a        *)
(* pointer ("near"), the marker of a read that was overtaken ("stale",      *)
(* "superseded"), or a compressor's output ("crushed").  Each of these      *)
(* names the content it stands for: `of' is both that content and its hash. *)
(***************************************************************************)
EXTENDS Naturals, Sequences, FiniteSets

CONSTANTS
  Originals,   \* what tools return
  RowsOf,      \* the rows of each original that is a JSON array of objects
  Short,       \* originals below every size gate
  Code,        \* originals detected as source code
  ErrorTexts,  \* originals that read as an unstructured error dump
  Shrinks,     \* originals a compressor makes small enough to ship
  KeptRows     \* the rows SmartCrusher's output keeps

Note(of, at) == <<"note", of, at>>

Raw(o) == [form |-> "raw", of |-> o, at |-> 0, rows |-> RowsOf[o]]
Duplicate(c, at) == [form |-> "dup", of |-> c, at |-> at, rows |-> {}]
NearDuplicate(c, at, changed) ==
  [form |-> "near", of |-> c, at |-> at, rows |-> changed \cup {Note(c, at)}]
Overtaken(form, c) == [form |-> form, of |-> c, at |-> 0, rows |-> {}]
Crushed(c) ==
  [form |-> "crushed", of |-> c, at |-> 0,
   rows |-> IF c.rows = {} THEN {} ELSE (c.rows \cap KeptRows) \cup {Note(c, 0)}]

\* At least MIN_DEDUP_CHARS and the router's minimums: a pointer and a lifecycle
\* marker are below them.
Long(c) ==
  /\ c.form \notin {"dup", "stale", "superseded"}
  /\ c.form = "raw" => c.of \notin Short

\* A compressor's output beats the ratio of the request.
Shrinkable(c) == c.form = "raw" => c.of \in Shrinks

\* Every content a pass has made carries a marker.
Pinned(c) == c.form # "raw"

(* A message is a text of the user's or the assistant's, or the result of a  *)
(* tool call: in a tool message ("string"), in a tool_result block with a    *)
(* string ("block") or with a list of text parts ("nested").  `turn' is the  *)
(* index of the assistant message that made the call.  `trail' is history:   *)
(* the contents the message has had, the first one returned by the tool.     *)
Shapes == {"string", "block", "nested"}
NoCall == [tool |-> "none", path |-> "none", lines |-> {}, whole |-> FALSE]

Message(shape, turn, call, failed, original) ==
  [shape |-> shape, turn |-> turn, call |-> call, failed |-> failed,
   content |-> Raw(original), trail |-> <<Raw(original)>>]

ToolOutput(m) == m.shape \in Shapes
Flat(m) == m.shape \in {"string", "block"}

\* The message with its content replaced.
Becomes(m, c) ==
  [shape |-> m.shape, turn |-> m.turn, call |-> m.call, failed |-> m.failed,
   content |-> c, trail |-> Append(m.trail, c)]
=============================================================================
