--------------------------- MODULE MCNextSession ---------------------------
(* A small browser for TLC. *)
EXTENDS NextSession

CONSTANTS Ann, Bob, o1, o2, member, t1

\* Ann's sessions name her one organisation, Bob's name none of his two.
SmallStart == {[o \in Orgs |-> [u \in Users |-> IF u = Ann /\ o = o2 THEN None ELSE member]]}
=============================================================================
