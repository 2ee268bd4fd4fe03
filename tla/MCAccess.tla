------------------------------ MODULE MCAccess ------------------------------
(* Two tenants for TLC: in A, Ann and Bob own a project each; in B, Cid does. *)
EXTENDS Access, TLC

CONSTANTS Ann, Bob, Cid, A, B, p1, p2, p3, k1, k2, c1, c2, r1, r2
Symmetry == Permutations(Requests)
MCHome == [p \in Projects |-> IF p = p3 THEN B ELSE A]
MCOwner == [p \in Projects |-> IF p = p1 THEN Ann ELSE IF p = p2 THEN Bob ELSE Cid]
MCAccount == [u \in Users |-> IF u = Cid THEN B ELSE A]
MCAsked == {{"users:admin"}, {"users:write"}, {"api_keys:write"}}
=============================================================================
