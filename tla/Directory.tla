------------------------------ MODULE Directory ------------------------------
(***************************************************************************)
(* What the account routes promise, without their requests: an account is  *)
(* opened once and closed for good, an address or phone number belongs to  *)
(* one account or to nobody and changes hands only by being released, and  *)
(* a session belongs to the account it was opened for.  What a closed      *)
(* account held goes with it.                                              *)
(***************************************************************************)
CONSTANTS UserIds, Values, SessionIds

VARIABLES
    used,       \* the account ids that were ever given out
    accounts,   \* those whose account is open
    owned,      \* <<v, u>>: the value v belongs to u
    opened      \* <<s, u>>: the session s is u's

vars == <<used, accounts, owned, opened>>

Init == used = {} /\ accounts = {} /\ owned = {} /\ opened = {}

Open(u) ==
    /\ u \notin used
    /\ used' = used \cup {u}
    /\ accounts' = accounts \cup {u}
    /\ UNCHANGED <<owned, opened>>

Claim(v, u) ==
    /\ u \in accounts
    /\ \A w \in UserIds : <<v, w>> \notin owned
    /\ owned' = owned \cup {<<v, u>>}
    /\ UNCHANGED <<used, accounts, opened>>

Release(v, u) ==
    /\ owned' = owned \ {<<v, u>>}
    /\ UNCHANGED <<used, accounts, opened>>

Admit(s, u) ==
    /\ u \in accounts
    /\ \A w \in UserIds : <<s, w>> \notin opened
    /\ opened' = opened \cup {<<s, u>>}
    /\ UNCHANGED <<used, accounts, owned>>

Close(u) ==
    /\ accounts' = accounts \ {u}
    /\ owned' = {p \in owned : p[2] # u}
    /\ opened' = {p \in opened : p[2] # u}
    /\ UNCHANGED used

Next ==
    \E u \in UserIds :
        \/ Open(u) \/ Close(u)
        \/ \E v \in Values : Claim(v, u) \/ Release(v, u)
        \/ \E s \in SessionIds : Admit(s, u)

Spec == Init /\ [][Next]_vars
=============================================================================
