---------------------------- MODULE ReadLifecycle ----------------------------
(* furl_ctx/transforms/read_lifecycle.py: which reads a later call has         *)
(* overtaken.  The calls of one assistant message are not ordered.            *)
EXTENDS Messages

CONSTANTS
  CompressStale,      \* ReadLifecycleConfig.compress_stale
  CompressSuperseded  \* ReadLifecycleConfig.compress_superseded

IsRead(m) == m.call.tool = "read"

\* The operations on m's file that a later assistant message called for.
Later_OrBeside(msgs, m) ==
  {msgs[k] : k \in {j \in DOMAIN msgs : /\ ToolOutput(msgs[j])
                                        /\ msgs[j].call.path = m.call.path
                                        /\ msgs[j].turn >= m.turn
                                        /\ msgs[j] # m}}
Later(msgs, m) ==
  {msgs[k] : k \in {j \in DOMAIN msgs : /\ ToolOutput(msgs[j])
                                        /\ msgs[j].call.path = m.call.path
                                        /\ msgs[j].turn > m.turn}}

\* A read of the whole file covers every other; a partial one covers the partial
\* reads whose lines it has.
Covers(later, earlier) ==
  later.whole \/ (~earlier.whole /\ earlier.lines \subseteq later.lines)

Stale(msgs, m) == CompressStale /\ \E e \in Later(msgs, m) : e.call.tool = "edit"

Superseded(msgs, m) ==
  /\ CompressSuperseded
  /\ \E r \in Later(msgs, m) : IsRead(r) /\ Covers(r.call, m.call)

\* _classify_reads, and the frozen prefix made fresh again: it is the index of
\* the call that counts, not that of the result.
ReadState(msgs, m, frozen) ==
  IF m.turn <= frozen THEN "fresh"
  ELSE IF Stale(msgs, m) THEN "stale"
  ELSE IF Superseded(msgs, m) THEN "superseded" ELSE "fresh"

\* The reads _apply_lifecycle rewrites: a string, or a block with a string.
IsOvertaken(msgs, m, frozen) ==
  /\ IsRead(m) /\ Flat(m) /\ Long(m.content)
  /\ ReadState(msgs, m, frozen) # "fresh"
=============================================================================
