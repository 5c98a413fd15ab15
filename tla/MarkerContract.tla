---------------------------- MODULE MarkerContract ----------------------------
(***************************************************************************)
(* What a <<ccr:HASH>> marker promises its reader, with nothing of how the *)
(* store keeps it: while a key resolves it resolves to one original; it    *)
(* may stop resolving at any time (expiry, eviction, purge, collision);    *)
(* only a key that does not resolve may be bound to another original.      *)
(***************************************************************************)
CONSTANTS Keys, Contents, NIL

VARIABLE view   \* Keys -> the original a retrieve returns now, or NIL

TypeOK == view \in [Keys -> Contents \cup {NIL}]

Init == view = [k \in Keys |-> NIL]

\* A store makes a key resolve.
Resolve(k) ==
  /\ view[k] = NIL
  /\ \E c \in Contents : view' = [view EXCEPT ![k] = c]

\* Any set of keys stops resolving: a loud miss.
Miss == \E lost \in SUBSET Keys : view' = [k \in Keys |-> IF k \in lost THEN NIL ELSE view[k]]

Next == Miss \/ \E k \in Keys : Resolve(k)

Spec == Init /\ [][Next]_view
=============================================================================
