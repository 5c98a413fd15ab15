-------------------------- MODULE MCSqliteBackend --------------------------
(* TLC instances of SqliteBackend. *)
EXTENDS SqliteBackend, TLC

Symmetry == Permutations(Keys) \cup Permutations(Procs)
=============================================================================
