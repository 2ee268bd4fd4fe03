----------------------------- MODULE AccountLock -----------------------------
(***************************************************************************)
(* What the sign-in code promises about an account, without its requests,  *)
(* its store or its second factor: wrong credentials are counted one by    *)
(* one, the count that reaches MaxAttempts locks the account in the same   *)
(* step, an account that is not locked may be forgiven or given a session, *)
(* and a lock lasts until an administrator lifts it.                       *)
(***************************************************************************)
EXTENDS Naturals

CONSTANTS Users, SessionIds, MaxAttempts

VARIABLES
    failed,     \* users.failedSignInAttempts
    locked,     \* users.locked
    granted     \* the sessions given to each user

vars == <<failed, locked, granted>>

Init ==
    /\ failed = [u \in Users |-> 0]
    /\ locked = [u \in Users |-> FALSE]
    /\ granted = [u \in Users |-> {}]

Fail(u) ==
    /\ failed' = [failed EXCEPT ![u] = @ + 1]
    /\ locked' = [locked EXCEPT ![u] = failed[u] + 1 >= MaxAttempts]
    /\ UNCHANGED granted

Forgive(u) ==
    /\ ~locked[u]
    /\ failed' = [failed EXCEPT ![u] = 0]
    /\ UNCHANGED <<locked, granted>>

Grant(u, s) ==
    /\ ~locked[u]
    /\ \A v \in Users : s \notin granted[v]
    /\ granted' = [granted EXCEPT ![u] = @ \cup {s}]
    /\ UNCHANGED <<failed, locked>>

Unlock(u) ==
    /\ failed' = [failed EXCEPT ![u] = 0]
    /\ locked' = [locked EXCEPT ![u] = FALSE]
    /\ UNCHANGED granted

Next ==
    \E u \in Users :
        Fail(u) \/ Forgive(u) \/ Unlock(u) \/ \E s \in SessionIds : Grant(u, s)

Spec == Init /\ [][Next]_vars
=============================================================================
