----------------------------- MODULE MCMcpServer -----------------------------
(* McpServer on small instances: a content that owns another. *)
EXTENDS McpServer, TLC

CONSTANTS a, b, w1, w2

MCOwned == [c \in Contents |-> IF c = a THEN {b} ELSE {}]

Compressing(runs, filtered) ==
  [op |-> "compress", step |-> "run", runs |-> runs, filtered |-> filtered,
   durably |-> {}, lost |-> FALSE, total |-> 0]
Reading(fresh) == [op |-> "read", step |-> "open", fresh |-> fresh, read |-> NIL]
Retrieving(h, matches) == [op |-> "retrieve", step |-> "get", hash |-> h, matches |-> matches]
Purging(h) ==
  [op |-> "purge", step |-> "delete", hash |-> h, expected |-> {}, survivors |-> {}, stuck |-> {}]

MCRequests ==
  {Compressing(<<b>>, FALSE), Compressing(<<a, b>>, TRUE),
   Reading(FALSE), Reading(TRUE),
   Retrieving(a, TRUE), Retrieving(a, FALSE),
   Purging(a), [op |-> "purge all", step |-> "clear"], [op |-> "stats", step |-> "read"]}

Symmetry == Permutations(Workers)
=============================================================================
