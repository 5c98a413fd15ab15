---------------------------- MODULE MCRequestPath ----------------------------
(* RequestPath on small instances. *)
EXTENDS RequestPath, TLC

CONSTANTS t1, t2, rows, diff

\* Both contents drop data.  Every request accepts the first one's ratio, only a
\* loose request the second's.
MCRatio == [c \in Contents |-> IF c = diff THEN 1 ELSE 0]

Symmetry == Permutations(Threads)
=============================================================================
