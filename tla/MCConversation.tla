--------------------------- MODULE MCConversation ---------------------------
(* Conversation on small instances: one file, two arrays that share rows.     *)
EXTENDS Conversation

CONSTANTS prose, file, trace, table, table2

MCRows(o) == CASE o = table -> {1, 2, 3, 4} [] o = table2 -> {1, 2, 3, 5} [] OTHER -> {}
MCRowsOf == [o \in Originals |-> {<<"row", n, 0>> : n \in MCRows(o)}]
MCKept == {<<"row", n, 0>> : n \in {1, 2, 5}}

OtherCall(tool, path) == [tool |-> tool, path |-> path, lines |-> {}, whole |-> FALSE]
ReadCall(part, entire) == [tool |-> "read", path |-> "f", lines |-> part, whole |-> entire]
Result(shape, call, failed, o) ==
  [shape |-> shape, call |-> call, failed |-> failed, original |-> o]

\* Three parallel reads and an edit of the file; the two arrays; a retrieval of the
\* first beside a command that fails; an error text beside a tool whose outputs
\* are often retrieved.
MCExchanges ==
  {<<Result("block", ReadCall({1, 2}, FALSE), FALSE, file),
     Result("string", ReadCall({}, TRUE), FALSE, file),
     Result("block", ReadCall({}, TRUE), FALSE, file)>>,
   <<Result("string", OtherCall("edit", "f"), FALSE, prose)>>,
   <<Result("block", OtherCall("run", "none"), FALSE, table)>>,
   <<Result("nested", OtherCall("run", "none"), FALSE, table2)>>,
   <<Result("string", OtherCall("retrieve", "none"), FALSE, table),
     Result("nested", OtherCall("run", "none"), TRUE, file)>>,
   <<Result("string", OtherCall("run", "none"), FALSE, trace),
     Result("string", OtherCall("search", "none"), FALSE, table2)>>}
=============================================================================
