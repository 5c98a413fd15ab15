--------------------------- MODULE MCPurgeCascade ---------------------------
(* TLC instances of PurgeCascade. *)
EXTENDS PurgeCascade, TLC

Symmetry == Permutations(Keys \ {Top})
=============================================================================
