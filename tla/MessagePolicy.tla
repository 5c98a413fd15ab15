---------------------------- MODULE MessagePolicy ----------------------------
(***************************************************************************)
(* The gates between a message and the compressors:                        *)
(*   furl_ctx/transforms/router_message_policy.py  the string messages      *)
(*   furl_ctx/transforms/router_blocks.py          the content blocks       *)
(*   furl_ctx/transforms/router_engine.py          the windows they use     *)
(***************************************************************************)
EXTENDS Messages

CONSTANTS
  ExcludedTools,  \* tools whose recent outputs are not compressed
  ReadWindow,     \* read_protection_window, in messages from the end
  ProtectRecent,  \* protect_recent, in messages from the end
  Pressured       \* tools whose outputs the retrieval feedback says to skip

FromEnd(msgs, i) == Len(msgs) - i + 1

IsRetrieval(m) == m.call.tool = "retrieve"
IsErrorText(c) == c.form = "raw" /\ c.of \in ErrorTexts
IsCode(c) == c.form = "raw" /\ c.of \in Code

\* The outputs of the retrieval tool never age out of the exclusion.
Excluded_WithAge(msgs, i) ==
  /\ IsRetrieval(msgs[i]) \/ msgs[i].call.tool \in ExcludedTools
  /\ FromEnd(msgs, i) <= ReadWindow
Excluded(msgs, i) ==
  \/ IsRetrieval(msgs[i])
  \/ msgs[i].call.tool \in ExcludedTools /\ FromEnd(msgs, i) <= ReadWindow

\* classify_message, below the frozen gate: a tool message with a string.  The
\* message's own error flag is not among the gates.
StringKept(msgs, i, analysis) ==
  LET c == msgs[i].content
  IN  \/ Excluded(msgs, i)
      \/ ~Long(c)
      \/ IsErrorText(c)
      \/ Pinned(c)
      \/ IsCode(c) /\ (analysis \/ FromEnd(msgs, i) <= ProtectRecent)
      \/ msgs[i].call.tool \in Pressured

\* process_content_blocks and _compress_nested_tool_result: the error flag is a
\* gate, recency and analysis are not.
BlockKept_Repin(msgs, i) ==
  LET c == msgs[i].content
  IN  \/ Excluded(msgs, i)
      \/ msgs[i].failed \/ IsErrorText(c)
      \/ ~Long(c)
      \/ msgs[i].call.tool \in Pressured
BlockKept_FlatErrors(msgs, i) ==
  LET c == msgs[i].content
  IN  \/ Excluded(msgs, i)
      \/ (Flat(msgs[i]) /\ msgs[i].failed) \/ IsErrorText(c)
      \/ ~Long(c)
      \/ Pinned(c)
      \/ msgs[i].call.tool \in Pressured
BlockKept(msgs, i) ==
  LET c == msgs[i].content
  IN  \/ Excluded(msgs, i)
      \/ msgs[i].failed \/ IsErrorText(c)
      \/ ~Long(c)
      \/ Pinned(c)
      \/ msgs[i].call.tool \in Pressured

\* What pass 1 sends to the compressors.
Compressible(msgs, i, frozen, analysis) ==
  /\ i > frozen
  /\ ToolOutput(msgs[i])
  /\ IF msgs[i].shape = "string" THEN ~StringKept(msgs, i, analysis)
     ELSE ~BlockKept(msgs, i)
=============================================================================
