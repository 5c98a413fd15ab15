------------------------- MODULE MCCompressionStore -------------------------
(* TLC instances of CompressionStore. *)
EXTENDS CompressionStore, TLC

Symmetry == Permutations(Keys) \cup Permutations(Contents) \cup Permutations(Threads)
=============================================================================
