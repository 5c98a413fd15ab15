------------------------ MODULE MCInMemoryCcrStore ------------------------
(* TLC instances of InMemoryCcrStore. *)
EXTENDS InMemoryCcrStore, TLC

Symmetry == Permutations(Keys) \cup Permutations(Payloads) \cup Permutations(Threads)
=============================================================================
