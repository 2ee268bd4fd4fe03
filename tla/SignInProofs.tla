---------------------------- MODULE SignInProofs ----------------------------
(***************************************************************************)
(* What SignIn guarantees for every set of users, requests, sign-in ids,   *)
(* secrets and codes and every MaxAttempts: types, the agreement of the    *)
(* lock with the counter, who may lift a lock, one session per sign-in id, *)
(* the second factor, single use of backup codes, and that SignIn          *)
(* implements AccountLock.                                                 *)
(***************************************************************************)
EXTENDS SignIn, FiniteSetTheorems, TLAPS

USE DEF FirstFactor, SecondFactor, Finish, Holding, TotpWrites, InFlight, Over
-----------------------------------------------------------------------------
(* The handlers' variables. *)

\* A handler that goes on keeps its variables typed.
LEMMA GoesOn ==
    ASSUME RequestsOK, NEW r \in Requests, NEW p \in InFlight, NEW l \in Locals,
           p \in Holding \cup {"bump"} => l.signin # None,
           Continue(r, p, l)
    PROVE  RequestsOK'
BY NoneIsNoRecord DEF RequestsOK, Continue

\* A handler that ends has none left.
LEMMA Ends ==
    ASSUME RequestsOK, NEW r \in Requests, NEW p \in Over, End(r, p)
    PROVE  RequestsOK'
BY DEF RequestsOK, End, Continue

\* Finitely many requests have a failure to charge.
LEMMA ChargingIsFinite ==
    ASSUME NEW u \in Users
    PROVE  /\ IsFiniteSet(Charging(u))
           /\ Cardinality(Charging(u)) \in Nat
<1>1. Charging(u) \subseteq Requests BY DEF Charging
<1>2. IsFiniteSet(Charging(u)) BY <1>1, RequestsAssumption, FS_Subset
<1> QED BY <1>2, FS_CardinalityType
-----------------------------------------------------------------------------
(* Type correctness. *)

\* A handler in flight has its variables.
LEMMA InFlightLocals ==
    ASSUME RequestsOK, NEW r \in Requests, pc[r] \in InFlight
    PROVE  loc[r] \in Locals
BY DEF RequestsOK

\* A wrong credential keeps the types.
LEMMA RejectType ==
    ASSUME TypeOK, NEW r \in Requests, NEW stage \in {"first_factor", "second_factor"},
           pc[r] \in Holding, Reject(r, stage),
           UNCHANGED <<sessions, drawn, owner>>, users' = users
    PROVE  TypeOK'
<1>1. loc[r] \in Locals /\ loc[r].signin # None
  BY InFlightLocals DEF TypeOK, RequestsOK
<1>2. RequestsOK' BY <1>1, GoesOn DEF TypeOK, Reject
<1>3. [stage |-> stage, user |-> loc[r].user, attempts |-> loc[r].attempts + 1]
         \in PendingSignin
  BY <1>1 DEF Locals, PendingSignin
<1>4. TablesOK' BY <1>1, <1>3 DEF TypeOK, TablesOK, Reject, Restore, Set
<1>5. ObserversOK' BY <1>1 DEF TypeOK, ObserversOK, Reject, Locals
<1> QED BY <1>2, <1>4, <1>5 DEF TypeOK

\* The initial state is typed.
LEMMA TypeInit == Init => TypeOK
<1> SUFFICES ASSUME Init PROVE TypeOK OBVIOUS
<1>1. users \in [Users -> UserRow]
  BY EnrolledAssumption DEF Init, UserRow
<1>2. drawn \subseteq Secrets \cup BackupCodes
  BY EnrolledAssumption DEF Init
<1>3. TablesOK BY <1>1, <1>2 DEF Init, TablesOK
<1>4. RequestsOK BY DEF Init, RequestsOK
<1>5. ObserversOK BY DEF Init, ObserversOK
<1> QED BY <1>3, <1>4, <1>5 DEF TypeOK

\* The arrival of a request keeps the types.
LEMMA TypeArrive ==
    ASSUME TypeOK, NEW r \in Requests, Arrive(r)
    PROVE  TypeOK'
<1> USE DEF TypeOK, ObserversOK
<1>1. ASSUME NEW i \in SigninIds, NEW u \in Users, NEW c \in {PASSWORD, WRONG},
             NEW s \in Strategies, AttemptSignin(r, i, u, c, s)
      PROVE  TypeOK'
  <2>1. TablesOK' BY <1>1 DEF AttemptSignin, TablesOK, Pop, Set
  <2>2. CASE FirstFactorAccepted(pendingSignins[i], u, s)
    <3> DEFINE l == [signin |-> i, user |-> u, credential |-> c, strategy |-> "password",
                     attempts |-> pendingSignins[i].attempts, mfa |-> FALSE,
                     secret |-> None, codes |-> {}]
    <3>1. pendingSignins[i] \in PendingSignin
      BY <2>2 DEF FirstFactorAccepted, TablesOK
    <3>2. l \in Locals /\ l.signin # None
      BY <3>1, NoneAssumption DEF Locals, PendingSignin, Credentials, Strategies
    <3>3. Continue(r, "findUser", l) BY <1>1, <2>2 DEF AttemptSignin
    <3>4. RequestsOK' BY <3>2, <3>3, GoesOn
    <3> QED BY <1>1, <2>1, <3>4 DEF AttemptSignin
  <2>3. CASE ~FirstFactorAccepted(pendingSignins[i], u, s)
    <3>1. End(r, "failed") BY <1>1, <2>3 DEF AttemptSignin
    <3> QED BY <1>1, <2>1, <3>1, Ends DEF AttemptSignin
  <2> QED BY <2>2, <2>3
<1>2. ASSUME NEW i \in SigninIds, NEW c \in {WRONG} \cup Secrets \cup BackupCodes,
             NEW s \in Strategies, AttemptSecondFactor(r, i, c, s)
      PROVE  TypeOK'
  <2> DEFINE pending == pendingSignins[i]
             accepted == /\ pending # None
                         /\ pending.stage = "second_factor"
                         /\ pending.attempts < MaxAttempts
             l == [signin |-> i, user |-> pending.user, credential |-> c,
                   strategy |-> s, attempts |-> pending.attempts,
                   mfa |-> TRUE, secret |-> None, codes |-> {}]
  <2>1. TablesOK' BY <1>2 DEF AttemptSecondFactor, TablesOK, Pop, Set
  <2>2. CASE accepted
    <3>1. pending \in PendingSignin BY <2>2 DEF TablesOK
    <3>2. l \in Locals /\ l.signin # None
      BY <3>1, NoneAssumption DEF Locals, PendingSignin, Credentials
    <3>3. Continue(r, "findPendingUser", l) BY <1>2, <2>2 DEF AttemptSecondFactor
    <3>4. RequestsOK' BY <3>2, <3>3, GoesOn
    <3> QED BY <1>2, <2>1, <3>4 DEF AttemptSecondFactor
  <2>3. CASE ~accepted
    <3>1. End(r, "failed") BY <1>2, <2>3 DEF AttemptSecondFactor
    <3> QED BY <1>2, <2>1, <3>1, Ends DEF AttemptSecondFactor
  <2> QED BY <2>2, <2>3
<1>3. ASSUME NEW u \in Users, NEW c \in Credentials, NEW s \in Secrets \cup {None},
             NEW codes \in SUBSET BackupCodes
      PROVE  TotpRequest(u, c, s, codes) \in Locals
  BY DEF TotpRequest, Locals, Strategies
<1>4. ASSUME NEW u \in Users, NEW s \in Secrets, EnrollTotp(r, u, s)
      PROVE  TypeOK'
  <2>1. TotpRequest(u, WRONG, s, {}) \in Locals BY <1>3 DEF Credentials
  <2>2. RequestsOK' BY <1>4, <2>1, GoesOn DEF EnrollTotp
  <2> QED BY <1>4, <2>2 DEF EnrollTotp, TablesOK
<1>5. ASSUME NEW u \in Users, NEW c \in {WRONG} \cup Secrets, NEW codes \in Batches,
             VerifyEnrollment(r, u, c, codes)
      PROVE  TypeOK'
  <2>1. users[u].totpSecret \in Secrets \cup {None} BY DEF TablesOK, UserRow
  <2>2. codes \subseteq BackupCodes BY EnrolledAssumption
  <2>3. TotpRequest(u, c, users[u].totpSecret, codes) \in Locals
    BY <1>3, <2>1, <2>2 DEF Credentials
  <2>4. RequestsOK' BY <1>5, <2>3, GoesOn DEF VerifyEnrollment
  <2> QED BY <1>5, <2>2, <2>4 DEF VerifyEnrollment, TablesOK
<1>6. ASSUME NEW u \in Users, NEW codes \in Batches, RegenerateBackupCodes(r, u, codes)
      PROVE  TypeOK'
  <2>1. codes \subseteq BackupCodes BY EnrolledAssumption
  <2>2. TotpRequest(u, WRONG, None, codes) \in Locals BY <1>3, <2>1 DEF Credentials
  <2>3. RequestsOK' BY <1>6, <2>2, GoesOn DEF RegenerateBackupCodes
  <2> QED BY <1>6, <2>1, <2>3 DEF RegenerateBackupCodes, TablesOK
<1>7. ASSUME NEW u \in Users, DisableTotp(r, u)
      PROVE  TypeOK'
  <2>1. TotpRequest(u, WRONG, None, {}) \in Locals BY <1>3 DEF Credentials
  <2>2. RequestsOK' BY <1>7, <2>1, GoesOn DEF DisableTotp
  <2> QED BY <1>7, <2>2 DEF DisableTotp, TablesOK
<1> QED BY <1>1, <1>2, <1>4, <1>5, <1>6, <1>7 DEF Arrive

\* A step of a handler keeps the types.
LEMMA TypeStep ==
    ASSUME TypeOK, NEW r \in Requests, Step(r)
    PROVE  TypeOK'
<1> DEFINE l == loc[r]
           u == loc[r].user
<1>0. pc[r] \in InFlight /\ RequestsOK /\ TablesOK /\ ObserversOK
  BY DEF TypeOK, Step, FindUser, VerifyPassword, BumpUserFailures, TouchIfUnlocked, Elevate,
         FindPendingUser, VerifyTotp, ConsumeBackupCode, ResetIfUnlocked, InsertSession,
         WriteSecret, WriteEnabled, WriteCodes, WriteDisabled
<1>l. l \in Locals /\ u \in Users BY <1>0, InFlightLocals DEF Locals
<1>s. pc[r] \in Holding => l.signin # None BY <1>0 DEF RequestsOK
<1>u. users[u] \in UserRow BY <1>0, <1>l DEF TablesOK
<1>c. Cardinality(Charging(u)) \in Nat BY <1>l, ChargingIsFinite
<1>1. CASE FindUser(r)
  <2>1. [l EXCEPT !.mfa = users[u].totpEnabled] \in Locals BY <1>l, <1>u DEF Locals, UserRow
  <2>2. [l EXCEPT !.mfa = users[u].totpEnabled].signin # None BY <1>l, <1>s, <1>1 DEF Locals, FindUser
  <2>3. RequestsOK' BY <1>0, <1>1, <2>1, <2>2, GoesOn, Ends DEF FindUser
  <2> QED BY <1>0, <1>1, <2>3 DEF FindUser, TypeOK, TablesOK, ObserversOK
<1>2. CASE VerifyPassword(r)
  <2>1. CASE l.credential = PASSWORD
    <3>1. RequestsOK' BY <1>0, <1>l, <1>s, <1>2, <2>1, GoesOn DEF VerifyPassword
    <3> QED BY <1>0, <1>2, <2>1, <3>1 DEF VerifyPassword, TypeOK, TablesOK, ObserversOK
  <2>2. CASE l.credential # PASSWORD
    BY <1>2, <2>2, RejectType DEF VerifyPassword
  <2> QED BY <2>1, <2>2
<1>3. CASE BumpUserFailures(r)
  <2>1. RequestsOK' BY <1>0, <1>3, Ends DEF BumpUserFailures
  <2>2. users' \in [Users -> UserRow]
    BY <1>0, <1>3, <1>u, <1>l DEF BumpUserFailures, TablesOK, UserRow
  <2> QED BY <1>0, <1>3, <2>1, <2>2 DEF BumpUserFailures, TypeOK, TablesOK, ObserversOK
<1>4. CASE TouchIfUnlocked(r)
  <2>1. RequestsOK' BY <1>0, <1>l, <1>s, <1>4, GoesOn, Ends DEF TouchIfUnlocked
  <2> QED BY <1>0, <1>4, <2>1 DEF TouchIfUnlocked, TypeOK, TablesOK, ObserversOK
<1>5. CASE Elevate(r)
  <2>1. RequestsOK' BY <1>0, <1>5, Ends DEF Elevate
  <2>2. [stage |-> "second_factor", user |-> u, attempts |-> 0] \in PendingSignin
    BY <1>l DEF PendingSignin
  <2> QED BY <1>0, <1>5, <2>1, <2>2 DEF Elevate, Set, TypeOK, TablesOK, ObserversOK
<1>6. CASE FindPendingUser(r)
  <2>1. [l EXCEPT !.secret = users[u].totpSecret] \in Locals BY <1>l, <1>u DEF Locals, UserRow
  <2>2. [l EXCEPT !.secret = users[u].totpSecret].signin # None
    BY <1>l, <1>s, <1>6 DEF Locals, FindPendingUser
  <2>3. RequestsOK' BY <1>0, <1>6, <2>1, <2>2, GoesOn, Ends DEF FindPendingUser
  <2> QED BY <1>0, <1>6, <2>3 DEF FindPendingUser, TypeOK, TablesOK, ObserversOK
<1>7. CASE VerifyTotp(r)
  <2> DEFINE valid == l.secret # None /\ l.credential = l.secret
  <2>1. CASE valid \/ l.strategy = "undefined"
    <3>1. RequestsOK' BY <1>0, <1>l, <1>s, <1>7, <2>1, GoesOn DEF VerifyTotp
    <3> QED BY <1>0, <1>7, <2>1, <3>1 DEF VerifyTotp, TypeOK, TablesOK, ObserversOK
  <2>2. CASE ~valid /\ l.strategy = "totp"
    BY <1>7, <2>2, RejectType DEF VerifyTotp
  <2> QED BY <1>7, <2>1, <2>2 DEF VerifyTotp
<1>8. CASE ConsumeBackupCode(r)
  <2>1. CASE l.credential \in users[u].backupCodes
    <3>1. RequestsOK' BY <1>0, <1>l, <1>s, <1>8, <2>1, GoesOn DEF ConsumeBackupCode
    <3>2. users' \in [Users -> UserRow]
      BY <1>0, <1>8, <2>1, <1>u, <1>l DEF ConsumeBackupCode, TablesOK, UserRow
    <3> QED BY <1>0, <1>8, <2>1, <3>1, <3>2 DEF ConsumeBackupCode, TypeOK, TablesOK, ObserversOK
  <2>2. CASE l.credential \notin users[u].backupCodes
    BY <1>8, <2>2, RejectType DEF ConsumeBackupCode
  <2> QED BY <2>1, <2>2
<1>9. CASE ResetIfUnlocked(r)
  <2>1. RequestsOK' BY <1>0, <1>l, <1>s, <1>9, GoesOn, Ends DEF ResetIfUnlocked
  <2>2. users' \in [Users -> UserRow]
    BY <1>0, <1>9, <1>u, <1>l DEF ResetIfUnlocked, TablesOK, UserRow
  <2>3. wrong' \in [Users -> Nat] BY <1>0, <1>9, <1>c DEF ResetIfUnlocked, ObserversOK
  <2> QED BY <1>0, <1>9, <2>1, <2>2, <2>3 DEF ResetIfUnlocked, TypeOK, TablesOK, ObserversOK
<1>10. CASE InsertSession(r)
  <2>1. RequestsOK' BY <1>0, <1>10, Ends DEF InsertSession
  <2>2. [id |-> r, user |-> u, signin |-> l.signin, factor |-> l.credential, mfa |-> l.mfa]
           \in Session
    BY <1>l, <1>s, <1>10 DEF Session, Locals, InsertSession
  <2> QED BY <1>0, <1>10, <2>1, <2>2 DEF InsertSession, TypeOK, TablesOK, ObserversOK
<1>11. CASE WriteSecret(r)
  <2>1. RequestsOK' BY <1>0, <1>11, Ends DEF WriteSecret
  <2>2. users' \in [Users -> UserRow]
    BY <1>0, <1>11, <1>u, <1>l DEF WriteSecret, TablesOK, UserRow, Locals
  <2> QED BY <1>0, <1>11, <2>1, <2>2 DEF WriteSecret, TypeOK, TablesOK, ObserversOK
<1>12. CASE WriteEnabled(r)
  <2>1. RequestsOK' BY <1>0, <1>12, Ends DEF WriteEnabled
  <2>2. users' \in [Users -> UserRow]
    BY <1>0, <1>12, <1>u, <1>l DEF WriteEnabled, TablesOK, UserRow, Locals
  <2> QED BY <1>0, <1>12, <2>1, <2>2 DEF WriteEnabled, TypeOK, TablesOK, ObserversOK
<1>13. CASE WriteCodes(r)
  <2>1. RequestsOK' BY <1>0, <1>13, Ends DEF WriteCodes
  <2>2. users' \in [Users -> UserRow]
    BY <1>0, <1>13, <1>u, <1>l DEF WriteCodes, TablesOK, UserRow, Locals
  <2> QED BY <1>0, <1>13, <2>1, <2>2 DEF WriteCodes, TypeOK, TablesOK, ObserversOK
<1>14. CASE WriteDisabled(r)
  <2>1. RequestsOK' BY <1>0, <1>14, Ends DEF WriteDisabled
  <2>2. users' \in [Users -> UserRow]
    BY <1>0, <1>14, <1>u, <1>l DEF WriteDisabled, TablesOK, UserRow
  <2> QED BY <1>0, <1>14, <2>1, <2>2 DEF WriteDisabled, TypeOK, TablesOK, ObserversOK
<1> QED BY <1>1, <1>2, <1>3, <1>4, <1>5, <1>6, <1>7, <1>8, <1>9, <1>10, <1>11, <1>12, <1>13,
           <1>14 DEF Step

\* The administrator, expiry and a crash keep the types.
LEMMA TypeEnvironment ==
    ASSUME TypeOK, Environment
    PROVE  TypeOK'
<1> USE DEF TypeOK
<1>1. ASSUME NEW u \in Users, NEW i \in SigninIds, CreateSignin(u, i)
      PROVE  TypeOK'
  <2>1. [stage |-> "first_factor", user |-> u, attempts |-> 0] \in PendingSignin
    BY DEF PendingSignin
  <2> QED BY <1>1, <2>1 DEF CreateSignin, Set, TablesOK, RequestsOK, ObserversOK
<1>2. ASSUME NEW i \in SigninIds, Expire(i)
      PROVE  TypeOK'
  BY <1>2 DEF Expire, Pop, Set, TablesOK, RequestsOK, ObserversOK
<1>3. ASSUME NEW u \in Users, UnlockUser(u)
      PROVE  TypeOK'
  <2>1. Cardinality(Charging(u)) \in Nat BY ChargingIsFinite
  <2>r. users[u] \in UserRow BY DEF TablesOK
  <2>2. users' \in [Users -> UserRow] BY <1>3, <2>r DEF UnlockUser, TablesOK, UserRow
  <2>3. wrong' \in [Users -> Nat] BY <1>3, <2>1 DEF UnlockUser, ObserversOK
  <2> QED BY <1>3, <2>2, <2>3 DEF UnlockUser, TablesOK, RequestsOK, ObserversOK
<1>4. ASSUME NEW u \in Users, NEW status \in {"active", "banned"}, SetStatus(u, status)
      PROVE  TypeOK'
  <2>1. users' \in [Users -> UserRow] BY <1>4 DEF SetStatus, TablesOK, UserRow
  <2> QED BY <1>4, <2>1 DEF SetStatus, TablesOK, RequestsOK, ObserversOK
<1>5. CASE Crash
  <2>1. wrong' \in [Users -> Nat] BY <1>5 DEF Crash, TablesOK, UserRow
  <2>2. RequestsOK' BY <1>5 DEF Crash, RequestsOK
  <2> QED BY <1>5, <2>1, <2>2 DEF Crash, TablesOK, ObserversOK
<1> QED BY <1>1, <1>2, <1>3, <1>4, <1>5 DEF Environment

\* Every step keeps the types.
LEMMA TypeNext == TypeOK /\ [Next]_vars => TypeOK'
<1> SUFFICES ASSUME TypeOK, [Next]_vars PROVE TypeOK' OBVIOUS
<1>1. CASE Next BY <1>1, TypeArrive, TypeStep, TypeEnvironment DEF Next
<1>2. CASE UNCHANGED vars
  BY <1>2 DEF vars, TypeOK, TablesOK, RequestsOK, ObserversOK
<1> QED BY <1>1, <1>2

\* Every variable of the sign-in code always has its type, and a handler has its
\* variables exactly while it runs.
THEOREM TypeCorrect == Spec => []TypeOK
<1>1. Init => TypeOK BY TypeInit
<1>2. TypeOK /\ [Next]_vars => TypeOK' BY TypeNext
<1> QED BY <1>1, <1>2, PTL DEF Spec
-----------------------------------------------------------------------------
(* The account: the lock and the counter. *)

\* The only ways a step changes the lock or the counter of a user.
LEMMA AccountMoves ==
    ASSUME TypeOK, [Next]_vars, NEW u \in Users
    PROVE  \/ UNCHANGED <<users[u].failed, users[u].locked>>
           \/ /\ \E r \in Requests : BumpUserFailures(r) /\ loc[r].user = u
              /\ users'[u].failed = users[u].failed + 1
              /\ users'[u].locked = (users[u].failed + 1 >= MaxAttempts)
           \/ /\ \E r \in Requests : ResetIfUnlocked(r) /\ loc[r].user = u
              /\ ~users[u].locked
              /\ users'[u].failed = 0
              /\ users'[u].locked = users[u].locked
           \/ /\ UnlockUser(u)
              /\ users'[u].failed = 0
              /\ ~users'[u].locked
<1>t. TablesOK /\ RequestsOK BY DEF TypeOK
<1>u. users \in [Users -> UserRow] /\ users[u] \in UserRow BY <1>t DEF TablesOK
<1>1. CASE UNCHANGED users BY <1>1
<1>2. ASSUME NEW r \in Requests, Step(r), users' # users
      PROVE  \/ BumpUserFailures(r) \/ ResetIfUnlocked(r) \/ ConsumeBackupCode(r)
             \/ WriteSecret(r) \/ WriteEnabled(r) \/ WriteCodes(r) \/ WriteDisabled(r)
  BY <1>2 DEF Step, FindUser, VerifyPassword, TouchIfUnlocked, Elevate,
              FindPendingUser, VerifyTotp, InsertSession
<1>3. ASSUME NEW r \in Requests, BumpUserFailures(r)
      PROVE  \/ UNCHANGED <<users[u].failed, users[u].locked>>
             \/ /\ loc[r].user = u
                /\ users'[u].failed = users[u].failed + 1
                /\ users'[u].locked = (users[u].failed + 1 >= MaxAttempts)
  <2>1. CASE loc[r].user = u
    BY <1>3, <1>u, <2>1 DEF BumpUserFailures, UserRow
  <2>2. CASE loc[r].user # u
    <3>1. loc[r].user \in Users BY <1>3, <1>t, InFlightLocals DEF BumpUserFailures, Locals
    <3> QED BY <1>3, <1>u, <2>2, <3>1 DEF BumpUserFailures, UserRow
  <2> QED BY <2>1, <2>2
<1>4. ASSUME NEW r \in Requests, ResetIfUnlocked(r), users' # users
      PROVE  \/ UNCHANGED <<users[u].failed, users[u].locked>>
             \/ /\ loc[r].user = u
                /\ ~users[u].locked
                /\ users'[u].failed = 0
                /\ users'[u].locked = users[u].locked
  <2>1. CASE loc[r].user = u BY <1>4, <1>u, <2>1 DEF ResetIfUnlocked, UserRow
  <2>2. CASE loc[r].user # u BY <1>4, <1>u, <2>2 DEF ResetIfUnlocked, UserRow
  <2> QED BY <2>1, <2>2
<1>5. ASSUME NEW r \in Requests,
             \/ ConsumeBackupCode(r) \/ WriteSecret(r) \/ WriteEnabled(r)
             \/ WriteCodes(r) \/ WriteDisabled(r)
      PROVE  UNCHANGED <<users[u].failed, users[u].locked>>
  <2>1. CASE ConsumeBackupCode(r) BY <2>1, <1>u DEF ConsumeBackupCode, UserRow
  <2>2. CASE WriteSecret(r) BY <2>2, <1>u DEF WriteSecret, UserRow
  <2>3. CASE WriteEnabled(r) BY <2>3, <1>u DEF WriteEnabled, UserRow
  <2>4. CASE WriteCodes(r) BY <2>4, <1>u DEF WriteCodes, UserRow
  <2>5. CASE WriteDisabled(r) BY <2>5, <1>u DEF WriteDisabled, UserRow
  <2> QED BY <1>5, <2>1, <2>2, <2>3, <2>4, <2>5
<1>6. ASSUME NEW r \in Requests, Arrive(r) PROVE UNCHANGED users
  BY <1>6 DEF Arrive, AttemptSignin, AttemptSecondFactor, EnrollTotp, VerifyEnrollment,
              RegenerateBackupCodes, DisableTotp
<1>7. ASSUME NEW v \in Users, UnlockUser(v)
      PROVE  \/ UNCHANGED <<users[u].failed, users[u].locked>>
             \/ UnlockUser(u) /\ users'[u].failed = 0 /\ ~users'[u].locked
  <2>1. CASE v = u BY <1>7, <1>u, <2>1 DEF UnlockUser, UserRow
  <2>2. CASE v # u BY <1>7, <1>u, <2>2 DEF UnlockUser, UserRow
  <2> QED BY <2>1, <2>2
<1>8. ASSUME NEW v \in Users, NEW status \in {"active", "banned"}, SetStatus(v, status)
      PROVE  UNCHANGED <<users[u].failed, users[u].locked>>
  BY <1>8, <1>u DEF SetStatus, UserRow
<1>9. ASSUME Environment, users' # users
      PROVE  \/ \E v \in Users : UnlockUser(v)
             \/ \E v \in Users, status \in {"active", "banned"} : SetStatus(v, status)
  BY <1>9 DEF Environment, CreateSignin, Expire, Crash
<1> QED BY <1>1, <1>2, <1>3, <1>4, <1>5, <1>6, <1>7, <1>8, <1>9 DEF Next, vars

\* Every step keeps the lock in agreement with the counter.
LEMMA LockNext == TypeOK /\ LockMeansExhausted /\ [Next]_vars => LockMeansExhausted'
<1> SUFFICES ASSUME TypeOK, LockMeansExhausted, [Next]_vars, NEW u \in Users
             PROVE  users'[u].locked <=> users'[u].failed >= MaxAttempts
  BY DEF LockMeansExhausted
<1>1. users[u].locked <=> users[u].failed >= MaxAttempts BY DEF LockMeansExhausted
<1>2. users[u].locked \in BOOLEAN /\ users'[u].locked \in BOOLEAN
  BY TypeNext DEF TypeOK, TablesOK, UserRow
<1>3. CASE UNCHANGED <<users[u].failed, users[u].locked>> BY <1>1, <1>3
<1>4. CASE /\ users'[u].failed = users[u].failed + 1
           /\ users'[u].locked = (users[u].failed + 1 >= MaxAttempts)
  BY <1>4
<1>5. CASE users'[u].failed = 0 /\ ~users'[u].locked
  BY <1>5, MaxAttemptsAssumption
<1>6. ~users[u].locked /\ users'[u].locked = users[u].locked => ~users'[u].locked
  OBVIOUS
<1> QED BY <1>3, <1>4, <1>5, <1>6, AccountMoves

\* Whatever requests, unlocks and crashes interleave, an account is locked if and
\* only if its counter has reached MAX_SIGNIN_ATTEMPTS.
THEOREM LockAgreesWithCounter == Spec => []LockMeansExhausted
<1>1. Init => LockMeansExhausted
  BY MaxAttemptsAssumption DEF Init, LockMeansExhausted
<1>2. TypeOK /\ LockMeansExhausted /\ [Next]_vars => LockMeansExhausted' BY LockNext
<1> QED BY <1>1, <1>2, TypeCorrect, PTL DEF Spec

\* No request lifts a lock: neither the reset of a successful sign-in nor the
\* increment of one that failed before an administrator's unlock.
THEOREM LocksAreLiftedByUnlock == Spec => OnlyUnlockClearsLock
<1>1. TypeOK /\ LockMeansExhausted /\ [Next]_vars =>
        [\A u \in Users : users[u].locked /\ ~users'[u].locked => UnlockUser(u)]_vars
  <2> SUFFICES ASSUME TypeOK, LockMeansExhausted, [Next]_vars, NEW u \in Users,
                      users[u].locked, ~users'[u].locked
               PROVE  UnlockUser(u)
    OBVIOUS
  <2>1. users[u].failed >= MaxAttempts /\ users[u].failed \in Nat
    BY DEF LockMeansExhausted, TypeOK, TablesOK, UserRow
  <2>2. users[u].failed + 1 >= MaxAttempts BY <2>1, MaxAttemptsAssumption
  <2> QED BY <2>2, AccountMoves
<1> QED BY <1>1, TypeCorrect, LockAgreesWithCounter, PTL DEF Spec, OnlyUnlockClearsLock
-----------------------------------------------------------------------------
(* The sign-in id: who may still turn it into a session. *)

\* A sign-in id is in one place: the store, one handler that popped it, or one
\* session; and in each place it belongs to the user it was created for.
SigninInv ==
    /\ \A i \in SigninIds :
          pendingSignins[i] # None => owner[i] = pendingSignins[i].user
    /\ \A r \in Requests : pc[r] \in Holding =>
          /\ pendingSignins[loc[r].signin] = None
          /\ owner[loc[r].signin] = loc[r].user
    /\ \A r, q \in Requests :
          pc[r] \in Holding /\ pc[q] \in Holding /\ loc[r].signin = loc[q].signin => r = q
    /\ \A s \in sessions :
          /\ pendingSignins[s.signin] = None
          /\ owner[s.signin] = s.user
          /\ \A r \in Requests : pc[r] \in Holding => loc[r].signin # s.signin
    /\ OneSessionPerSignin

Keeps(r) == pc'[r] \in Holding /\ loc'[r].signin = loc[r].signin /\ loc'[r].user = loc[r].user
LetsGo(r) == pc'[r] \notin Holding
Restored(r) ==
    \E e \in PendingSignin :
        /\ e.user = loc[r].user
        /\ pendingSignins' = [pendingSignins EXCEPT ![loc[r].signin] = e]

\* What a step of one request does to its sign-in id.
LEMMA SigninMoves ==
    ASSUME TypeOK, NEW r \in Requests, Step(r)
    PROVE  /\ \A q \in Requests \ {r} : pc'[q] = pc[q] /\ loc'[q] = loc[q]
           /\ owner' = owner
           /\ \/ /\ pc[r] \in Holding
                 /\ Keeps(r) \/ LetsGo(r)
                 /\ UNCHANGED <<pendingSignins, sessions>>
              \/ /\ pc[r] \in Holding
                 /\ LetsGo(r) /\ Restored(r) /\ UNCHANGED sessions
              \/ /\ pc[r] = "insertSession"
                 /\ LetsGo(r) /\ UNCHANGED pendingSignins
                 /\ sessions' = sessions \cup
                      {[id |-> r, user |-> loc[r].user, signin |-> loc[r].signin,
                        factor |-> loc[r].credential, mfa |-> loc[r].mfa]}
              \/ /\ pc[r] \notin Holding
                 /\ LetsGo(r) /\ UNCHANGED <<pendingSignins, sessions>>
<1> USE DEF TypeOK, Keeps, LetsGo, Restored, Continue, End
<1>t. RequestsOK OBVIOUS
<1>l. ASSUME pc[r] \in InFlight
      PROVE  loc[r] \in Locals /\ loc[r].user \in Users /\ loc[r].attempts \in Nat
  BY <1>l, InFlightLocals DEF Locals
<1>0. pc[r] \in InFlight
  BY DEF Step, FindUser, VerifyPassword, BumpUserFailures, TouchIfUnlocked, Elevate,
         FindPendingUser, VerifyTotp, ConsumeBackupCode, ResetIfUnlocked, InsertSession,
         WriteSecret, WriteEnabled, WriteCodes, WriteDisabled
<1>r. ASSUME NEW stage \in {"first_factor", "second_factor"}, Reject(r, stage)
      PROVE  /\ \A q \in Requests \ {r} : pc'[q] = pc[q] /\ loc'[q] = loc[q]
             /\ LetsGo(r) /\ Restored(r)
  <2> DEFINE e == [stage |-> stage, user |-> loc[r].user, attempts |-> loc[r].attempts + 1]
  <2>1. e \in PendingSignin BY <1>0, <1>l DEF PendingSignin
  <2>2. pendingSignins' = [pendingSignins EXCEPT ![loc[r].signin] = e]
    BY <1>r DEF Reject, Restore, Set
  <2>3. /\ \A q \in Requests \ {r} : pc'[q] = pc[q] /\ loc'[q] = loc[q]
        /\ LetsGo(r)
    BY <1>r, <1>t DEF Reject, RequestsOK
  <2> QED BY <2>1, <2>2, <2>3
<1>1. CASE FindUser(r)
  BY <1>1, <1>t, <1>0, <1>l DEF FindUser, RequestsOK, Locals
<1>2. CASE VerifyPassword(r)
  <2>1. CASE loc[r].credential = PASSWORD BY <1>2, <2>1, <1>t DEF VerifyPassword, RequestsOK
  <2>2. CASE loc[r].credential # PASSWORD BY <1>2, <2>2, <1>r DEF VerifyPassword
  <2> QED BY <2>1, <2>2
<1>3. CASE BumpUserFailures(r) BY <1>3, <1>t DEF BumpUserFailures, RequestsOK
<1>4. CASE TouchIfUnlocked(r) BY <1>4, <1>t DEF TouchIfUnlocked, RequestsOK
<1>5. CASE Elevate(r)
  <2> DEFINE e == [stage |-> "second_factor", user |-> loc[r].user, attempts |-> 0]
  <2>1. e \in PendingSignin BY <1>0, <1>l DEF PendingSignin
  <2>2. pendingSignins' = [pendingSignins EXCEPT ![loc[r].signin] = e]
    BY <1>5 DEF Elevate, Set
  <2> QED BY <1>5, <1>t, <2>1, <2>2 DEF Elevate, RequestsOK
<1>6. CASE FindPendingUser(r)
  BY <1>6, <1>t, <1>0, <1>l DEF FindPendingUser, RequestsOK, Locals
<1>7. CASE VerifyTotp(r)
  <2> DEFINE valid == loc[r].secret # None /\ loc[r].credential = loc[r].secret
  <2>1. CASE valid \/ loc[r].strategy = "undefined"
    BY <1>7, <2>1, <1>t DEF VerifyTotp, RequestsOK
  <2>2. CASE ~valid /\ loc[r].strategy = "totp" BY <1>7, <2>2, <1>r DEF VerifyTotp
  <2> QED BY <1>7, <2>1, <2>2 DEF VerifyTotp
<1>8. CASE ConsumeBackupCode(r)
  <2>1. CASE loc[r].credential \in users[loc[r].user].backupCodes
    BY <1>8, <2>1, <1>t DEF ConsumeBackupCode, RequestsOK
  <2>2. CASE loc[r].credential \notin users[loc[r].user].backupCodes
    BY <1>8, <2>2, <1>r DEF ConsumeBackupCode
  <2> QED BY <2>1, <2>2
<1>9. CASE ResetIfUnlocked(r) BY <1>9, <1>t DEF ResetIfUnlocked, RequestsOK
<1>10. CASE InsertSession(r) BY <1>10, <1>t DEF InsertSession, RequestsOK
<1>11. CASE WriteSecret(r) BY <1>11, <1>t DEF WriteSecret, RequestsOK
<1>12. CASE WriteEnabled(r) BY <1>12, <1>t DEF WriteEnabled, RequestsOK
<1>13. CASE WriteCodes(r) BY <1>13, <1>t DEF WriteCodes, RequestsOK
<1>14. CASE WriteDisabled(r) BY <1>14, <1>t DEF WriteDisabled, RequestsOK
<1> QED BY <1>1, <1>2, <1>3, <1>4, <1>5, <1>6, <1>7, <1>8, <1>9, <1>10, <1>11, <1>12, <1>13,
           <1>14 DEF Step

\* What the arrival of one request does to its sign-in id.
LEMMA SigninArrives ==
    ASSUME TypeOK, NEW r \in Requests, Arrive(r)
    PROVE  /\ \A q \in Requests \ {r} : pc'[q] = pc[q] /\ loc'[q] = loc[q]
           /\ UNCHANGED <<owner, sessions>>
           /\ pc[r] = "new"
           /\ \/ LetsGo(r) /\ UNCHANGED pendingSignins
              \/ \E i \in SigninIds :
                   /\ pendingSignins' = [pendingSignins EXCEPT ![i] = None]
                   /\ \/ LetsGo(r)
                      \/ /\ pc'[r] \in FirstFactor \cup SecondFactor
                         /\ pendingSignins[i] # None
                         /\ loc'[r].signin = i
                         /\ loc'[r].user = pendingSignins[i].user
<1> USE DEF TypeOK, LetsGo, Continue, End
<1>t. RequestsOK OBVIOUS
<1>1. ASSUME NEW i \in SigninIds, NEW u \in Users, NEW c \in {PASSWORD, WRONG},
             NEW s \in Strategies, AttemptSignin(r, i, u, c, s)
      PROVE  /\ \A q \in Requests \ {r} : pc'[q] = pc[q] /\ loc'[q] = loc[q]
             /\ UNCHANGED <<owner, sessions>>
             /\ pc[r] = "new"
             /\ pendingSignins' = [pendingSignins EXCEPT ![i] = None]
             /\ \/ LetsGo(r)
                \/ /\ pc'[r] \in FirstFactor \cup SecondFactor
                   /\ pendingSignins[i] # None
                   /\ loc'[r].signin = i
                   /\ loc'[r].user = pendingSignins[i].user
  BY <1>1, <1>t DEF AttemptSignin, FirstFactorAccepted, Pop, Set, RequestsOK
<1>2. ASSUME NEW i \in SigninIds, NEW c \in {WRONG} \cup Secrets \cup BackupCodes,
             NEW s \in Strategies, AttemptSecondFactor(r, i, c, s)
      PROVE  /\ \A q \in Requests \ {r} : pc'[q] = pc[q] /\ loc'[q] = loc[q]
             /\ UNCHANGED <<owner, sessions>>
             /\ pc[r] = "new"
             /\ pendingSignins' = [pendingSignins EXCEPT ![i] = None]
             /\ \/ LetsGo(r)
                \/ /\ pc'[r] \in FirstFactor \cup SecondFactor
                   /\ pendingSignins[i] # None
                   /\ loc'[r].signin = i
                   /\ loc'[r].user = pendingSignins[i].user
  BY <1>2, <1>t DEF AttemptSecondFactor, Pop, Set, RequestsOK
<1>3. ASSUME NEW u \in Users,
             \/ \E s \in Secrets : EnrollTotp(r, u, s)
             \/ \E c \in {WRONG} \cup Secrets, codes \in Batches :
                   VerifyEnrollment(r, u, c, codes)
             \/ \E codes \in Batches : RegenerateBackupCodes(r, u, codes)
             \/ DisableTotp(r, u)
      PROVE  /\ \A q \in Requests \ {r} : pc'[q] = pc[q] /\ loc'[q] = loc[q]
             /\ UNCHANGED <<owner, sessions>>
             /\ pc[r] = "new"
             /\ LetsGo(r) /\ UNCHANGED pendingSignins
  BY <1>3, <1>t DEF EnrollTotp, VerifyEnrollment, RegenerateBackupCodes, DisableTotp, RequestsOK
<1> QED BY <1>1, <1>2, <1>3 DEF Arrive

\* A step of a handler keeps its sign-in id in one place.
LEMMA SigninStep ==
    ASSUME TypeOK, SigninInv, NEW r \in Requests, Step(r)
    PROVE  SigninInv'
<1> USE DEF SigninInv, OneSessionPerSignin
<1>o. /\ \A q \in Requests \ {r} : pc'[q] = pc[q] /\ loc'[q] = loc[q]
      /\ owner' = owner
  BY SigninMoves
<1>t. TypeOK' BY TypeStep
<1>l. pc[r] \in Holding => loc[r].signin \in SigninIds /\ loc[r].user \in Users
  BY DEF TypeOK, RequestsOK, Locals
<1>p. pendingSignins \in [SigninIds -> PendingSignin \cup {None}]
  BY DEF TypeOK, TablesOK
<1>1. CASE /\ pc[r] \in Holding
           /\ Keeps(r) \/ LetsGo(r)
           /\ UNCHANGED <<pendingSignins, sessions>>
  <2>1. \A q \in Requests : pc'[q] \in Holding =>
           pc[q] \in Holding /\ loc'[q].signin = loc[q].signin /\ loc'[q].user = loc[q].user
    BY <1>1, <1>o DEF Keeps, LetsGo
  <2> QED BY <1>1, <1>o, <2>1
<1>2. CASE pc[r] \in Holding /\ LetsGo(r) /\ Restored(r) /\ UNCHANGED sessions
  <2>1. PICK e \in PendingSignin :
           e.user = loc[r].user /\ pendingSignins' = [pendingSignins EXCEPT ![loc[r].signin] = e]
    BY <1>2 DEF Restored
  <2>2. e # None BY NoneIsNoRecord
  <2>3. \A q \in Requests : pc'[q] \in Holding =>
           /\ q # r /\ pc[q] \in Holding /\ loc'[q] = loc[q]
           /\ loc[q].signin # loc[r].signin
    BY <1>2, <1>o DEF LetsGo
  <2>4. \A s \in sessions : s.signin # loc[r].signin BY <1>2
  <2>5. \A i \in SigninIds : pendingSignins'[i] =
            IF i = loc[r].signin THEN e ELSE pendingSignins[i]
    BY <2>1, <1>p
  <2>6. \A q \in Requests : pc[q] \in Holding => loc[q].signin \in SigninIds
    BY DEF TypeOK, RequestsOK, Locals
  <2>7. \A s \in sessions : s.signin \in SigninIds
    BY DEF TypeOK, TablesOK, Session
  <2>8. \A i \in SigninIds :
          pendingSignins'[i] # None => owner'[i] = pendingSignins'[i].user
    BY <1>2, <1>o, <2>1, <2>5
  <2>9. \A q \in Requests : pc'[q] \in Holding =>
          /\ pendingSignins'[loc'[q].signin] = None
          /\ owner'[loc'[q].signin] = loc'[q].user
    BY <1>o, <2>3, <2>5, <2>6
  <2>10. \A s \in sessions' :
          /\ pendingSignins'[s.signin] = None
          /\ owner'[s.signin] = s.user
          /\ \A q \in Requests : pc'[q] \in Holding => loc'[q].signin # s.signin
    BY <1>2, <1>o, <2>3, <2>4, <2>5, <2>7
  <2> QED BY <1>2, <2>3, <2>8, <2>9, <2>10
<1>3. CASE /\ pc[r] = "insertSession"
           /\ LetsGo(r) /\ UNCHANGED pendingSignins
           /\ sessions' = sessions \cup
                {[id |-> r, user |-> loc[r].user, signin |-> loc[r].signin,
                  factor |-> loc[r].credential, mfa |-> loc[r].mfa]}
  <2>1. \A q \in Requests : pc'[q] \in Holding =>
           /\ q # r /\ pc[q] \in Holding /\ loc'[q] = loc[q]
           /\ loc[q].signin # loc[r].signin
    BY <1>3, <1>o DEF LetsGo
  <2>2. \A s \in sessions : s.signin # loc[r].signin BY <1>3
  <2>3. /\ pendingSignins[loc[r].signin] = None
        /\ owner[loc[r].signin] = loc[r].user
    BY <1>3
  <2>4. \A s \in sessions' :
          \/ s \in sessions
          \/ s.signin = loc[r].signin /\ s.user = loc[r].user
    BY <1>3
  <2>5. \A s, t \in sessions' : s.signin = t.signin => s = t
    BY <1>3, <2>2
  <2>6. \A s \in sessions' :
          /\ pendingSignins'[s.signin] = None
          /\ owner'[s.signin] = s.user
          /\ \A q \in Requests : pc'[q] \in Holding => loc'[q].signin # s.signin
    BY <1>3, <1>o, <2>1, <2>3, <2>4
  <2> QED BY <1>3, <1>o, <2>1, <2>5, <2>6
<1>4. CASE pc[r] \notin Holding /\ LetsGo(r) /\ UNCHANGED <<pendingSignins, sessions>>
  <2>1. \A q \in Requests : pc'[q] \in Holding =>
           pc[q] \in Holding /\ loc'[q] = loc[q]
    BY <1>4, <1>o DEF LetsGo
  <2> QED BY <1>4, <1>o, <2>1
<1> QED BY <1>1, <1>2, <1>3, <1>4, SigninMoves

\* A request that pops the entry is the only one to hold it.
LEMMA SigninArrive ==
    ASSUME TypeOK, SigninInv, NEW r \in Requests, Arrive(r)
    PROVE  SigninInv'
<1> USE DEF SigninInv, OneSessionPerSignin
<1>o. /\ \A q \in Requests \ {r} : pc'[q] = pc[q] /\ loc'[q] = loc[q]
      /\ UNCHANGED <<owner, sessions>>
      /\ pc[r] = "new"
  BY SigninArrives
<1>p. pendingSignins \in [SigninIds -> PendingSignin \cup {None}]
  BY DEF TypeOK, TablesOK
<1>q. \A q \in Requests : pc[q] \in Holding => loc[q].signin \in SigninIds
  BY DEF TypeOK, RequestsOK, Locals
<1>s. \A s \in sessions : s.signin \in SigninIds
  BY DEF TypeOK, TablesOK, Session
<1>1. CASE LetsGo(r) /\ UNCHANGED pendingSignins
  <2>1. \A q \in Requests : pc'[q] \in Holding => pc[q] \in Holding /\ loc'[q] = loc[q]
    BY <1>1, <1>o DEF LetsGo
  <2> QED BY <1>1, <1>o, <2>1
<1>2. ASSUME NEW i \in SigninIds,
             pendingSignins' = [pendingSignins EXCEPT ![i] = None]
      PROVE  /\ \A j \in SigninIds :
                    pendingSignins'[j] = IF j = i THEN None ELSE pendingSignins[j]
             /\ \A j \in SigninIds :
                    pendingSignins'[j] # None => owner'[j] = pendingSignins'[j].user
             /\ \A s \in sessions' :
                    pendingSignins'[s.signin] = None /\ owner'[s.signin] = s.user
             /\ OneSessionPerSignin'
  BY <1>2, <1>o, <1>p, <1>s
<1>3. ASSUME NEW i \in SigninIds,
             pendingSignins' = [pendingSignins EXCEPT ![i] = None], LetsGo(r)
      PROVE  SigninInv'
  <2>1. \A q \in Requests : pc'[q] \in Holding => pc[q] \in Holding /\ loc'[q] = loc[q]
    BY <1>3, <1>o DEF LetsGo
  <2> QED BY <1>3, <1>o, <1>q, <1>2, <2>1
<1>4. ASSUME NEW i \in SigninIds,
             pendingSignins' = [pendingSignins EXCEPT ![i] = None],
             pc'[r] \in Holding,
             pendingSignins[i] # None,
             loc'[r].signin = i,
             loc'[r].user = pendingSignins[i].user
      PROVE  SigninInv'
  <2>1. \A q \in Requests \ {r} : pc'[q] \in Holding =>
           pc[q] \in Holding /\ loc'[q] = loc[q] /\ loc'[q].signin # i
    BY <1>4, <1>o
  <2>2. owner[i] = pendingSignins[i].user BY <1>4
  <2>3. \A s \in sessions : s.signin # i BY <1>4
  <2>j. \A j \in SigninIds :
           pendingSignins'[j] = IF j = i THEN None ELSE pendingSignins[j]
    BY <1>4, <1>2
  <2>r. pendingSignins'[loc'[r].signin] = None /\ owner'[loc'[r].signin] = loc'[r].user
    BY <1>4, <1>o, <2>j, <2>2
  <2>q. \A q \in Requests \ {r} : pc'[q] \in Holding =>
          /\ pendingSignins'[loc'[q].signin] = None
          /\ owner'[loc'[q].signin] = loc'[q].user
    BY <1>o, <1>q, <2>j, <2>1
  <2>4. \A q \in Requests : pc'[q] \in Holding =>
          /\ pendingSignins'[loc'[q].signin] = None
          /\ owner'[loc'[q].signin] = loc'[q].user
    BY <2>r, <2>q
  <2>5. \A q, p \in Requests :
          pc'[q] \in Holding /\ pc'[p] \in Holding /\ loc'[q].signin = loc'[p].signin => q = p
    BY <1>4, <2>1
  <2>6. \A s \in sessions' : \A q \in Requests : pc'[q] \in Holding => loc'[q].signin # s.signin
    BY <1>4, <1>o, <2>1, <2>3
  <2> QED BY <1>2, <1>4, <2>4, <2>5, <2>6
<1> QED BY <1>1, <1>3, <1>4, SigninArrives

\* Every step keeps sign-in ids in one place.
LEMMA SigninNext == TypeOK /\ SigninInv /\ [Next]_vars => SigninInv'
<1> SUFFICES ASSUME TypeOK, SigninInv, [Next]_vars PROVE SigninInv' OBVIOUS
<1> USE DEF SigninInv, OneSessionPerSignin
<1>1. ASSUME NEW u \in Users, NEW i \in SigninIds, CreateSignin(u, i)
      PROVE  SigninInv'
  <2> DEFINE e == [stage |-> "first_factor", user |-> u, attempts |-> 0]
  <2>1. u # None BY NoneAssumption
  <2>2. \A r \in Requests : pc[r] \in Holding =>
           loc[r].signin # i /\ loc[r].user # None /\ loc[r].signin \in SigninIds
    BY <1>1, NoneAssumption DEF CreateSignin, TypeOK, RequestsOK, Locals
  <2>3. \A s \in sessions : s.signin # i /\ s.signin \in SigninIds
    BY <1>1, NoneAssumption DEF CreateSignin, TypeOK, TablesOK, Session
  <2>4. \A j \in SigninIds :
          /\ pendingSignins'[j] = IF j = i THEN e ELSE pendingSignins[j]
          /\ owner'[j] = IF j = i THEN u ELSE owner[j]
    BY <1>1 DEF CreateSignin, Set, TypeOK, TablesOK, ObserversOK
  <2>5. UNCHANGED <<pc, loc, sessions>> BY <1>1 DEF CreateSignin
  <2>6. \A r \in Requests : pc'[r] \in Holding =>
          /\ pendingSignins'[loc'[r].signin] = None
          /\ owner'[loc'[r].signin] = loc'[r].user
    BY <2>2, <2>4, <2>5
  <2>7. \A s \in sessions' :
          /\ pendingSignins'[s.signin] = None
          /\ owner'[s.signin] = s.user
          /\ \A r \in Requests : pc'[r] \in Holding => loc'[r].signin # s.signin
    BY <2>3, <2>4, <2>5
  <2>8. \A j \in SigninIds : pendingSignins'[j] # None => owner'[j] = pendingSignins'[j].user
    BY <2>4
  <2> QED BY <2>5, <2>6, <2>7, <2>8
<1>2. ASSUME NEW i \in SigninIds, Expire(i)
      PROVE  SigninInv'
  <2>1. \A j \in SigninIds : pendingSignins'[j] = IF j = i THEN None ELSE pendingSignins[j]
    BY <1>2 DEF Expire, Pop, Set, TypeOK, TablesOK
  <2>2. \A r \in Requests : pc[r] \in Holding => loc[r].signin \in SigninIds
    BY DEF TypeOK, RequestsOK, Locals
  <2>3. \A s \in sessions : s.signin \in SigninIds
    BY DEF TypeOK, TablesOK, Session
  <2> QED BY <1>2, <2>1, <2>2, <2>3 DEF Expire
<1>3. ASSUME NEW u \in Users,
             UnlockUser(u) \/ \E status \in {"active", "banned"} : SetStatus(u, status)
      PROVE  SigninInv'
  BY <1>3 DEF UnlockUser, SetStatus
<1>4. CASE Crash
  <2>1. \A i \in SigninIds : pendingSignins'[i] = None BY <1>4 DEF Crash
  <2>2. \A r \in Requests : pc'[r] \notin Holding
    BY <1>4 DEF Crash, TypeOK, RequestsOK
  <2>3. \A s \in sessions : s.signin \in SigninIds
    BY DEF TypeOK, TablesOK, Session
  <2> QED BY <1>4, <2>1, <2>2, <2>3 DEF Crash
<1>5. CASE UNCHANGED vars BY <1>5 DEF vars
<1> QED BY <1>1, <1>2, <1>3, <1>4, <1>5, SigninStep, SigninArrive DEF Next, Environment

\* A sign-in id is always in one place.
LEMMA SigninInvariant == Spec => []SigninInv
<1>1. Init => SigninInv BY DEF Init, SigninInv, OneSessionPerSignin
<1>2. TypeOK /\ SigninInv /\ [Next]_vars => SigninInv' BY SigninNext
<1> QED BY <1>1, <1>2, TypeCorrect, PTL DEF Spec

\* However many requests race to finish a sign-in, fail it or let it expire, one
\* sign-in id never becomes two sessions.
THEOREM SigninIdsAreUsedOnce == Spec => []OneSessionPerSignin
<1>1. SigninInv => OneSessionPerSignin BY DEF SigninInv
<1> QED BY <1>1, SigninInvariant, PTL

\* A sign-in id only ever signs in the user it was created for.
THEOREM SigninIdsKeepTheirOwner == Spec => []SigninOwner
<1>1. SigninInv => SigninOwner BY DEF SigninInv, SigninOwner
<1> QED BY <1>1, SigninInvariant, PTL
-----------------------------------------------------------------------------
(* The second factor. *)

\* A handler that is about to finish has verified what the row it read asked for.
FactorInv ==
    /\ \A r \in Requests : pc[r] \in Finish =>
          (loc[r].mfa => loc[r].credential \in Secrets \cup BackupCodes)
    /\ SecondFactorWhenEnabled

\* A handler reaches its end only by a credential that its row asked for.
LEMMA FactorStep ==
    ASSUME TypeOK, FactorInv, NEW r \in Requests, Step(r)
    PROVE  FactorInv'
<1> USE DEF FactorInv, SecondFactorWhenEnabled
<1>o. \A q \in Requests \ {r} : pc'[q] = pc[q] /\ loc'[q] = loc[q]
  BY SigninMoves
<1>t. RequestsOK /\ TablesOK BY DEF TypeOK
<1>1. pc'[r] \in Finish => (loc'[r].mfa => loc'[r].credential \in Secrets \cup BackupCodes)
  <2> USE DEF Continue, End, Reject
  <2>1. CASE VerifyPassword(r) BY <2>1, <1>t DEF VerifyPassword, RequestsOK
  <2>2. CASE VerifyTotp(r)
    <3>1. loc[r] \in Locals BY <2>2, <1>t, InFlightLocals DEF VerifyTotp
    <3> QED BY <2>2, <1>t, <3>1 DEF VerifyTotp, RequestsOK, Locals
  <2>3. CASE ConsumeBackupCode(r)
    <3>1. loc[r] \in Locals BY <2>3, <1>t, InFlightLocals DEF ConsumeBackupCode
    <3>2. users[loc[r].user].backupCodes \subseteq BackupCodes
      BY <3>1, <1>t DEF Locals, TablesOK, UserRow
    <3> QED BY <2>3, <1>t, <3>2 DEF ConsumeBackupCode, RequestsOK
  <2>4. CASE ResetIfUnlocked(r) BY <2>4, <1>t DEF ResetIfUnlocked, RequestsOK
  <2>5. CASE FindUser(r) \/ BumpUserFailures(r) \/ TouchIfUnlocked(r) \/ Elevate(r)
             \/ FindPendingUser(r) \/ InsertSession(r)
             \/ WriteSecret(r) \/ WriteEnabled(r) \/ WriteCodes(r) \/ WriteDisabled(r)
    <3>1. pc'[r] \notin Finish
      BY <2>5, <1>t DEF FindUser, BumpUserFailures, TouchIfUnlocked, Elevate, FindPendingUser,
             InsertSession, WriteSecret, WriteEnabled, WriteCodes, WriteDisabled, RequestsOK
    <3> QED BY <3>1
  <2> QED BY <2>1, <2>2, <2>3, <2>4, <2>5 DEF Step
<1>2. SecondFactorWhenEnabled'
  <2>1. CASE UNCHANGED sessions BY <2>1
  <2>2. CASE /\ pc[r] = "insertSession"
             /\ sessions' = sessions \cup
                  {[id |-> r, user |-> loc[r].user, signin |-> loc[r].signin,
                    factor |-> loc[r].credential, mfa |-> loc[r].mfa]}
    BY <2>2
  <2> QED BY <2>1, <2>2, SigninMoves
<1> QED BY <1>o, <1>1, <1>2

\* Every step keeps what is known of the factors.
LEMMA FactorNext == TypeOK /\ FactorInv /\ [Next]_vars => FactorInv'
<1> SUFFICES ASSUME TypeOK, FactorInv, [Next]_vars PROVE FactorInv' OBVIOUS
<1> USE DEF FactorInv, SecondFactorWhenEnabled
<1>1. ASSUME NEW r \in Requests, Arrive(r)
      PROVE  FactorInv'
  <2>1. \A q \in Requests : pc'[q] \in Finish => pc[q] \in Finish /\ loc'[q] = loc[q]
    BY <1>1, SigninArrives DEF LetsGo
  <2> QED BY <1>1, <2>1, SigninArrives
<1>2. CASE Crash
  <2>1. \A r \in Requests : pc'[r] \notin Finish BY <1>2 DEF Crash, TypeOK, RequestsOK
  <2> QED BY <1>2, <2>1 DEF Crash
<1>3. CASE Environment /\ ~Crash
  BY <1>3 DEF Environment, CreateSignin, Expire, UnlockUser, SetStatus
<1>4. CASE UNCHANGED vars BY <1>4 DEF vars
<1> QED BY <1>1, <1>2, <1>3, <1>4, FactorStep DEF Next

\* What is known of the factors holds always.
LEMMA FactorInvariant == Spec => []FactorInv
<1>1. Init => FactorInv BY DEF Init, FactorInv, SecondFactorWhenEnabled
<1>2. TypeOK /\ FactorInv /\ [Next]_vars => FactorInv' BY FactorNext
<1> QED BY <1>1, <1>2, TypeCorrect, PTL DEF Spec

\* A handler that read a row with TOTP enabled creates a session only for a TOTP
\* or backup code.
THEOREM SecondFactorIsRequired == Spec => []SecondFactorWhenEnabled
<1>1. FactorInv => SecondFactorWhenEnabled BY DEF FactorInv
<1> QED BY <1>1, FactorInvariant, PTL

\* A password alone never forgives the failures of a user whose row asked for a
\* second factor: what is left of the attempts only grows back with all factors,
\* or by an administrator.
THEOREM FailuresAreForgivenByAllFactors == Spec => CounterFallsOnlyAfterAllFactors
<1>1. TypeOK /\ FactorInv /\ [Next]_vars =>
        [\A u \in Users : users'[u].failed < users[u].failed =>
            \/ UnlockUser(u)
            \/ \E r \in Requests :
                  /\ pc[r] = "reset" /\ loc[r].user = u
                  /\ loc[r].mfa => loc[r].credential # PASSWORD]_vars
  <2> SUFFICES ASSUME TypeOK, FactorInv, [Next]_vars, NEW u \in Users,
                      users'[u].failed < users[u].failed, ~UnlockUser(u)
               PROVE  \E r \in Requests :
                        /\ pc[r] = "reset" /\ loc[r].user = u
                        /\ loc[r].mfa => loc[r].credential # PASSWORD
    OBVIOUS
  <2>1. users[u].failed \in Nat BY DEF TypeOK, TablesOK, UserRow
  <2>2. PICK r \in Requests : ResetIfUnlocked(r) /\ loc[r].user = u
    BY <2>1, AccountMoves
  <2>3. pc[r] = "reset" BY <2>2 DEF ResetIfUnlocked
  <2>4. loc[r].mfa => loc[r].credential # PASSWORD
    BY <2>3, CodesAssumption DEF FactorInv
  <2> QED BY <2>2, <2>3, <2>4
<1> QED BY <1>1, TypeCorrect, FactorInvariant, PTL DEF Spec, CounterFallsOnlyAfterAllFactors

\* No session is ever created for a user who is locked at that moment.
THEOREM LockedUsersGetNoSession == Spec => NoSessionForLockedUser
<1>1. TypeOK /\ [Next]_vars => [\A s \in sessions' \ sessions : ~users[s.user].locked]_vars
  <2> SUFFICES ASSUME TypeOK, [Next]_vars, NEW s \in sessions' \ sessions
               PROVE  ~users[s.user].locked
    OBVIOUS
  <2>1. ASSUME NEW r \in Requests, Step(r)
        PROVE  InsertSession(r)
    BY <2>1 DEF Step, FindUser, VerifyPassword, BumpUserFailures, TouchIfUnlocked, Elevate,
           FindPendingUser, VerifyTotp, ConsumeBackupCode, ResetIfUnlocked,
           WriteSecret, WriteEnabled, WriteCodes, WriteDisabled
  <2>2. PICK r \in Requests : InsertSession(r)
    BY <2>1, SigninArrives DEF Next, Environment, CreateSignin, Expire, UnlockUser, SetStatus,
           Crash, vars
  <2> QED BY <2>2 DEF InsertSession
<1> QED BY <1>1, TypeCorrect, PTL DEF Spec, NoSessionForLockedUser
-----------------------------------------------------------------------------
(* The observer: no failure is lost. *)

\* Every step keeps the wrong credentials accounted for.
LEMMA LostFailureNext == TypeOK /\ NoLostFailure /\ [Next]_vars => NoLostFailure'
<1> SUFFICES ASSUME TypeOK, NoLostFailure, [Next]_vars, NEW u \in Users
             PROVE  wrong'[u] = users'[u].failed + Cardinality(Charging(u)')
  BY DEF NoLostFailure
<1> DEFINE n == Cardinality(Charging(u))
<1>0. wrong[u] = users[u].failed + n BY DEF NoLostFailure
<1>t. /\ users \in [Users -> UserRow] /\ users[u] \in UserRow /\ users[u].failed \in Nat
      /\ wrong \in [Users -> Nat] /\ RequestsOK
  BY DEF TypeOK, TablesOK, ObserversOK, UserRow
<1>n. n \in Nat /\ IsFiniteSet(Charging(u)) BY ChargingIsFinite
<1>1. ASSUME Charging(u)' = Charging(u), UNCHANGED <<users[u].failed, wrong[u]>>
      PROVE  wrong'[u] = users'[u].failed + Cardinality(Charging(u)')
  BY <1>1, <1>0
<1>2. ASSUME NEW r \in Requests, NEW stage \in {"first_factor", "second_factor"},
             pc[r] \in Holding, Reject(r, stage), UNCHANGED users[u].failed
      PROVE  wrong'[u] = users'[u].failed + Cardinality(Charging(u)')
  <2>1. \A q \in Requests : /\ pc'[q] = IF q = r THEN "bump" ELSE pc[q]
                            /\ loc'[q] = loc[q]
    BY <1>2, <1>t DEF Reject, Continue, RequestsOK
  <2>2. CASE loc[r].user = u
    <3>1. Charging(u)' = Charging(u) \cup {r} /\ r \notin Charging(u)
      BY <1>2, <2>1, <2>2 DEF Charging
    <3>2. Cardinality(Charging(u)') = n + 1 BY <3>1, <1>n, FS_AddElement
    <3>3. wrong'[u] = wrong[u] + 1 BY <1>2, <1>t, <2>2 DEF Reject
    <3> QED BY <1>0, <1>2, <1>n, <1>t, <3>2, <3>3
  <2>3. CASE loc[r].user # u
    <3>1. Charging(u)' = Charging(u) BY <2>1, <2>3 DEF Charging
    <3>2. loc[r].user \in Users BY <1>2, <1>t, InFlightLocals DEF Locals
    <3>3. wrong'[u] = wrong[u] BY <1>2, <1>t, <2>3, <3>2 DEF Reject
    <3> QED BY <1>1, <1>2, <3>1, <3>3
  <2> QED BY <2>2, <2>3
<1>3. ASSUME NEW r \in Requests, BumpUserFailures(r)
      PROVE  wrong'[u] = users'[u].failed + Cardinality(Charging(u)')
  <2>1. \A q \in Requests \ {r} : pc'[q] = pc[q] /\ loc'[q] = loc[q]
    BY <1>3, <1>t DEF BumpUserFailures, End, Continue, RequestsOK
  <2>2. pc[r] = "bump" /\ pc'[r] = "failed" /\ UNCHANGED wrong
    BY <1>3, <1>t DEF BumpUserFailures, End, Continue, RequestsOK
  <2>3. CASE loc[r].user = u
    <3>1. r \in Charging(u) /\ Charging(u)' = Charging(u) \ {r}
      BY <2>1, <2>2, <2>3 DEF Charging
    <3>2. Cardinality(Charging(u)') = n - 1 BY <3>1, <1>n, FS_RemoveElement
    <3>3. users'[u].failed = users[u].failed + 1
      BY <1>3, <1>t, <2>3 DEF BumpUserFailures, UserRow
    <3> QED BY <1>0, <1>n, <1>t, <2>2, <3>2, <3>3
  <2>4. CASE loc[r].user # u
    <3>1. Charging(u)' = Charging(u) BY <2>1, <2>2, <2>4 DEF Charging
    <3>2. loc[r].user \in Users BY <2>2, <1>t, InFlightLocals DEF Locals
    <3>3. UNCHANGED users[u].failed BY <1>3, <1>t, <2>4, <3>2 DEF BumpUserFailures, UserRow
    <3> QED BY <1>1, <2>2, <3>1, <3>3
  <2> QED BY <2>3, <2>4
<1>4. ASSUME NEW r \in Requests, ResetIfUnlocked(r)
      PROVE  wrong'[u] = users'[u].failed + Cardinality(Charging(u)')
  <2>1. \A q \in Requests : /\ q # r => pc'[q] = pc[q] /\ loc'[q] = loc[q]
                            /\ pc[r] # "bump" /\ pc'[r] # "bump"
    BY <1>4, <1>t DEF ResetIfUnlocked, End, Continue, RequestsOK
  <2>2. Charging(u)' = Charging(u) BY <2>1 DEF Charging
  <2>3. CASE loc[r].user = u /\ ~users[u].locked
    BY <1>4, <1>t, <1>n, <2>2, <2>3 DEF ResetIfUnlocked, UserRow
  <2>4. CASE loc[r].user # u \/ users[loc[r].user].locked
    <3>1. loc[r].user \in Users BY <1>4, <1>t, InFlightLocals DEF ResetIfUnlocked, Locals
    <3>2. UNCHANGED <<users[u].failed, wrong[u]>>
      BY <1>4, <1>t, <2>4, <3>1 DEF ResetIfUnlocked, UserRow
    <3> QED BY <1>1, <2>2, <3>2
  <2> QED BY <2>3, <2>4
<1>5. ASSUME NEW r \in Requests, Step(r)
      PROVE  wrong'[u] = users'[u].failed + Cardinality(Charging(u)')
  <2> USE DEF Continue, End
  <2>1. CASE \E stage \in {"first_factor", "second_factor"} :
                Reject(r, stage) /\ pc[r] \in Holding /\ ~BumpUserFailures(r) /\ ~ResetIfUnlocked(r)
    <3>1. PICK stage \in {"first_factor", "second_factor"} :
             Reject(r, stage) /\ pc[r] \in Holding
      BY <2>1
    <3>2. UNCHANGED users[u].failed
      <4>1. VerifyPassword(r) \/ VerifyTotp(r) \/ ConsumeBackupCode(r)
        BY <1>5, <2>1, <3>1, <1>t DEF Step, FindUser, TouchIfUnlocked, Elevate,
               FindPendingUser, InsertSession, WriteSecret, WriteEnabled, WriteCodes,
               WriteDisabled, Reject, RequestsOK
      <4> QED BY <4>1, <1>t DEF VerifyPassword, VerifyTotp, ConsumeBackupCode, UserRow
    <3> QED BY <1>2, <3>1, <3>2
  <2>2. CASE BumpUserFailures(r) BY <1>3, <2>2
  <2>3. CASE ResetIfUnlocked(r) BY <1>4, <2>3
  <2>4. ASSUME ~BumpUserFailures(r), ~ResetIfUnlocked(r),
               ~\E stage \in {"first_factor", "second_factor"} : Reject(r, stage) /\ pc[r] \in Holding
        PROVE  wrong'[u] = users'[u].failed + Cardinality(Charging(u)')
    <3>1. /\ \A q \in Requests \ {r} : pc'[q] = pc[q] /\ loc'[q] = loc[q]
          /\ pc[r] # "bump" /\ pc'[r] # "bump"
          /\ UNCHANGED wrong
      BY <1>5, <2>4, <1>t DEF Step, FindUser, VerifyPassword, TouchIfUnlocked, Elevate,
             FindPendingUser, VerifyTotp, ConsumeBackupCode, InsertSession,
             WriteSecret, WriteEnabled, WriteCodes, WriteDisabled, RequestsOK
    <3>2. Charging(u)' = Charging(u) BY <3>1 DEF Charging
    <3>3. UNCHANGED users[u].failed
      <4>1. CASE ConsumeBackupCode(r) BY <4>1, <1>t DEF ConsumeBackupCode, UserRow
      <4>2. CASE WriteSecret(r) BY <4>2, <1>t DEF WriteSecret, UserRow
      <4>3. CASE WriteEnabled(r) BY <4>3, <1>t DEF WriteEnabled, UserRow
      <4>4. CASE WriteCodes(r) BY <4>4, <1>t DEF WriteCodes, UserRow
      <4>5. CASE WriteDisabled(r) BY <4>5, <1>t DEF WriteDisabled, UserRow
      <4>6. CASE FindUser(r) \/ VerifyPassword(r) \/ TouchIfUnlocked(r) \/ Elevate(r)
                 \/ FindPendingUser(r) \/ VerifyTotp(r) \/ InsertSession(r)
        BY <4>6 DEF FindUser, VerifyPassword, TouchIfUnlocked, Elevate, FindPendingUser,
               VerifyTotp, InsertSession
      <4> QED BY <1>5, <2>4, <4>1, <4>2, <4>3, <4>4, <4>5, <4>6 DEF Step
    <3> QED BY <1>1, <3>1, <3>2, <3>3
  <2> QED BY <2>1, <2>2, <2>3, <2>4
<1>6. ASSUME NEW r \in Requests, Arrive(r)
      PROVE  wrong'[u] = users'[u].failed + Cardinality(Charging(u)')
  <2>1. \A q \in Requests \ {r} : pc'[q] = pc[q] /\ loc'[q] = loc[q]
    BY <1>6, SigninArrives
  <2>2. /\ pc[r] # "bump" /\ pc'[r] # "bump"
        /\ UNCHANGED <<wrong, users>>
    BY <1>6, <1>t DEF Arrive, AttemptSignin, AttemptSecondFactor, EnrollTotp, VerifyEnrollment,
           RegenerateBackupCodes, DisableTotp, Continue, End, RequestsOK
  <2>3. Charging(u)' = Charging(u) BY <2>1, <2>2 DEF Charging
  <2> QED BY <1>1, <2>2, <2>3
<1>7. ASSUME Environment
      PROVE  wrong'[u] = users'[u].failed + Cardinality(Charging(u)')
  <2>1. CASE Crash
    <3>1. Charging(u)' = {} BY <2>1, <1>t DEF Crash, Charging, RequestsOK
    <3>2. Cardinality(Charging(u)') = 0 BY <3>1, FS_EmptySet
    <3> QED BY <2>1, <1>t, <3>2 DEF Crash
  <2>2. ASSUME NEW v \in Users, UnlockUser(v)
        PROVE  wrong'[u] = users'[u].failed + Cardinality(Charging(u)')
    <3>1. Charging(u)' = Charging(u) BY <2>2 DEF UnlockUser, Charging
    <3>2. CASE v = u BY <2>2, <1>t, <1>n, <3>1, <3>2 DEF UnlockUser, UserRow
    <3>3. CASE v # u
      <4>1. UNCHANGED <<users[u].failed, wrong[u]>> BY <2>2, <1>t, <3>3 DEF UnlockUser, UserRow
      <4> QED BY <1>1, <3>1, <4>1
    <3> QED BY <3>2, <3>3
  <2>3. ASSUME NEW v \in Users, NEW status \in {"active", "banned"}, SetStatus(v, status)
        PROVE  wrong'[u] = users'[u].failed + Cardinality(Charging(u)')
    <3>1. Charging(u)' = Charging(u) BY <2>3 DEF SetStatus, Charging
    <3>2. UNCHANGED <<users[u].failed, wrong[u]>> BY <2>3, <1>t DEF SetStatus, UserRow
    <3> QED BY <1>1, <3>1, <3>2
  <2>4. ASSUME \/ \E v \in Users, i \in SigninIds : CreateSignin(v, i)
               \/ \E i \in SigninIds : Expire(i)
        PROVE  wrong'[u] = users'[u].failed + Cardinality(Charging(u)')
    <3>1. Charging(u)' = Charging(u) /\ UNCHANGED <<users[u].failed, wrong[u]>>
      BY <2>4 DEF CreateSignin, Expire, Charging
    <3> QED BY <1>1, <3>1
  <2> QED BY <1>7, <2>1, <2>2, <2>3, <2>4 DEF Environment
<1>8. CASE UNCHANGED vars
  <2>1. Charging(u)' = Charging(u) /\ UNCHANGED <<users[u].failed, wrong[u]>>
    BY <1>8 DEF vars, Charging
  <2> QED BY <1>1, <2>1
<1> QED BY <1>5, <1>6, <1>7, <1>8 DEF Next

\* However many attempts fail at once, each is counted against its user, unless the
\* process dies before it is.
THEOREM NoFailureIsLost == Spec => []NoLostFailure
<1>1. Init => NoLostFailure
  <2> SUFFICES ASSUME Init, NEW u \in Users
               PROVE  wrong[u] = users[u].failed + Cardinality(Charging(u))
    BY DEF NoLostFailure
  <2>1. Charging(u) = {} BY DEF Init, Charging
  <2>2. Cardinality(Charging(u)) = 0 BY <2>1, FS_EmptySet
  <2> QED BY <2>2 DEF Init
<1>2. TypeOK /\ NoLostFailure /\ [Next]_vars => NoLostFailure' BY LostFailureNext
<1> QED BY <1>1, <1>2, TypeCorrect, PTL DEF Spec
-----------------------------------------------------------------------------
(* The refinement of AccountLock. *)

\* A request that has created a session is over.
SessionIdInv == \A s \in sessions : pc[s.id] \in Over

\* Every step keeps the sessions apart from the requests to come.
LEMMA SessionIdNext == TypeOK /\ SessionIdInv /\ [Next]_vars => SessionIdInv'
<1> SUFFICES ASSUME TypeOK, SessionIdInv, [Next]_vars PROVE SessionIdInv' OBVIOUS
<1> USE DEF SessionIdInv
<1>t. RequestsOK /\ \A s \in sessions : s.id \in Requests
  BY DEF TypeOK, TablesOK, Session
<1>1. ASSUME NEW r \in Requests, Step(r)
      PROVE  SessionIdInv'
  <2>1. pc[r] \in InFlight
    BY <1>1 DEF Step, FindUser, VerifyPassword, BumpUserFailures, TouchIfUnlocked, Elevate,
           FindPendingUser, VerifyTotp, ConsumeBackupCode, ResetIfUnlocked, InsertSession,
           WriteSecret, WriteEnabled, WriteCodes, WriteDisabled
  <2>2. \A s \in sessions : s.id # r /\ pc'[s.id] = pc[s.id]
    BY <1>1, <1>t, <2>1, SigninMoves
  <2>3. CASE UNCHANGED sessions BY <2>2, <2>3
  <2>4. CASE InsertSession(r)
    <3>1. CASE users[loc[r].user].locked BY <2>2, <2>4, <3>1 DEF InsertSession
    <3>2. CASE ~users[loc[r].user].locked
      <4>1. pc'[r] = "done" BY <1>t, <2>4, <3>2 DEF InsertSession, End, Continue, RequestsOK
      <4>2. \A s \in sessions' : s \in sessions \/ s.id = r BY <2>4, <3>2 DEF InsertSession
      <4> QED BY <2>2, <4>1, <4>2
    <3> QED BY <3>1, <3>2
  <2> QED BY <1>1, <2>3, <2>4 DEF Step, FindUser, VerifyPassword, BumpUserFailures, TouchIfUnlocked,
             Elevate, FindPendingUser, VerifyTotp, ConsumeBackupCode, ResetIfUnlocked,
             WriteSecret, WriteEnabled, WriteCodes, WriteDisabled
<1>2. ASSUME NEW r \in Requests, Arrive(r)
      PROVE  SessionIdInv'
  BY <1>2, <1>t, SigninArrives
<1>3. CASE Crash BY <1>3, <1>t DEF Crash
<1>4. CASE Environment /\ ~Crash
  BY <1>4 DEF Environment, CreateSignin, Expire, UnlockUser, SetStatus
<1>5. CASE UNCHANGED vars BY <1>5 DEF vars
<1> QED BY <1>1, <1>2, <1>3, <1>4, <1>5 DEF Next

\* A step of a handler is a step of the account or invisible to it.
LEMMA AccountStep ==
    TypeOK /\ SessionIdInv /\ [Next]_vars => [Account!Next]_(Account!vars)
<1> SUFFICES ASSUME TypeOK, SessionIdInv, [Next]_vars
             PROVE  Account!Next \/ UNCHANGED Account!vars
  OBVIOUS
<1> DEFINE failed == [u \in Users |-> users[u].failed]
           locked == [u \in Users |-> users[u].locked]
           granted == [u \in Users |->
                         {r \in Requests : \E s \in sessions : s.id = r /\ s.user = u}]
<1>t. RequestsOK /\ users \in [Users -> UserRow] /\ \A u \in Users : users[u] \in UserRow
  BY DEF TypeOK, TablesOK
<1>s. ASSUME UNCHANGED <<failed, locked, sessions>>
      PROVE  UNCHANGED Account!vars
  <2>1. UNCHANGED granted BY <1>s
  <2> QED BY <1>s, <2>1 DEF Account!vars
<1>1. ASSUME NEW r \in Requests, BumpUserFailures(r)
      PROVE  Account!Next
  <2>0. loc[r].user \in Users BY <1>1, <1>t, InFlightLocals DEF BumpUserFailures, Locals
  <2>1. PICK u \in Users : u = loc[r].user BY <2>0
  <2>2. failed' = [failed EXCEPT ![u] = @ + 1]
    BY <1>1, <1>t, <2>1 DEF BumpUserFailures, UserRow
  <2>3. locked' = [locked EXCEPT ![u] = failed[u] + 1 >= MaxAttempts]
    BY <1>1, <1>t, <2>1 DEF BumpUserFailures, UserRow
  <2>4. UNCHANGED granted BY <1>1 DEF BumpUserFailures
  <2>5. Account!Fail(u) BY <2>2, <2>3, <2>4 DEF Account!Fail
  <2> QED BY <2>1, <2>5 DEF Account!Next
<1>2. ASSUME NEW r \in Requests, ResetIfUnlocked(r), ~users[loc[r].user].locked
      PROVE  Account!Next
  <2>0. loc[r].user \in Users BY <1>2, <1>t, InFlightLocals DEF ResetIfUnlocked, Locals
  <2>1. PICK u \in Users : u = loc[r].user BY <2>0
  <2>2. failed' = [failed EXCEPT ![u] = 0]
    BY <1>2, <1>t, <2>1 DEF ResetIfUnlocked, UserRow
  <2>3. UNCHANGED locked BY <1>2, <1>t, <2>1 DEF ResetIfUnlocked, UserRow
  <2>4. UNCHANGED granted BY <1>2 DEF ResetIfUnlocked
  <2>5. Account!Forgive(u) BY <1>2, <2>1, <2>2, <2>3, <2>4 DEF Account!Forgive
  <2> QED BY <2>1, <2>5 DEF Account!Next
<1>3. ASSUME NEW r \in Requests, InsertSession(r), ~users[loc[r].user].locked
      PROVE  Account!Next
  <2>0. loc[r].user \in Users BY <1>3, <1>t, InFlightLocals DEF InsertSession, Locals
  <2>1. PICK u \in Users : u = loc[r].user BY <2>0
  <2> DEFINE row == [id |-> r, user |-> u, signin |-> loc[r].signin,
                     factor |-> loc[r].credential, mfa |-> loc[r].mfa]
  <2>2. sessions' = sessions \cup {row} BY <1>3, <2>1 DEF InsertSession
  <2>r. row.id = r /\ row.user = u OBVIOUS
  <2> HIDE DEF row
  <2>3. \A s \in sessions : s.id # r BY <1>3 DEF InsertSession, SessionIdInv
  <2>4. granted' = [granted EXCEPT ![u] = @ \cup {r}]
    <3>1. ASSUME NEW v \in Users
          PROVE  {q \in Requests : \E s \in sessions' : s.id = q /\ s.user = v} =
                   IF v = u THEN granted[v] \cup {r} ELSE granted[v]
      <4>1. \A q \in Requests : (\E s \in sessions' : s.id = q /\ s.user = v) <=>
               (\E s \in sessions : s.id = q /\ s.user = v) \/ (q = r /\ u = v)
        BY <2>2, <2>r
      <4>2. granted[v] = {q \in Requests : \E s \in sessions : s.id = q /\ s.user = v}
        OBVIOUS
      <4> QED BY <4>1, <4>2
    <3> QED BY <2>1, <3>1
  <2>5. \A v \in Users : r \notin granted[v] BY <2>3
  <2>6. UNCHANGED <<failed, locked>> BY <1>3 DEF InsertSession
  <2>7. Account!Grant(u, r) BY <1>3, <2>1, <2>4, <2>5, <2>6 DEF Account!Grant
  <2> QED BY <2>1, <2>7 DEF Account!Next
<1>4. ASSUME NEW u \in Users, UnlockUser(u)
      PROVE  Account!Next
  <2>2. failed' = [failed EXCEPT ![u] = 0] BY <1>4, <1>t DEF UnlockUser, UserRow
  <2>3. locked' = [locked EXCEPT ![u] = FALSE] BY <1>4, <1>t DEF UnlockUser, UserRow
  <2>4. UNCHANGED granted BY <1>4 DEF UnlockUser
  <2>5. Account!Unlock(u) BY <2>2, <2>3, <2>4 DEF Account!Unlock
  <2> QED BY <2>5 DEF Account!Next
<1>5. ASSUME NEW r \in Requests, Step(r), ~BumpUserFailures(r),
             ~(ResetIfUnlocked(r) /\ ~users[loc[r].user].locked),
             ~(InsertSession(r) /\ ~users[loc[r].user].locked)
      PROVE  UNCHANGED Account!vars
  <2>1. UNCHANGED sessions
    BY <1>5 DEF Step, FindUser, VerifyPassword, TouchIfUnlocked, Elevate,
           FindPendingUser, VerifyTotp, ConsumeBackupCode, ResetIfUnlocked, InsertSession,
           WriteSecret, WriteEnabled, WriteCodes, WriteDisabled
  <2>2. CASE UNCHANGED users BY <1>s, <2>1, <2>2
  <2>3. CASE \/ ConsumeBackupCode(r) \/ WriteSecret(r) \/ WriteEnabled(r)
             \/ WriteCodes(r) \/ WriteDisabled(r)
    <3>1. ASSUME NEW u \in Users PROVE UNCHANGED <<users[u].failed, users[u].locked>>
      <4>1. CASE ConsumeBackupCode(r) BY <4>1, <1>t DEF ConsumeBackupCode, UserRow
      <4>2. CASE WriteSecret(r) BY <4>2, <1>t DEF WriteSecret, UserRow
      <4>3. CASE WriteEnabled(r) BY <4>3, <1>t DEF WriteEnabled, UserRow
      <4>4. CASE WriteCodes(r) BY <4>4, <1>t DEF WriteCodes, UserRow
      <4>5. CASE WriteDisabled(r) BY <4>5, <1>t DEF WriteDisabled, UserRow
      <4> QED BY <2>3, <4>1, <4>2, <4>3, <4>4, <4>5
    <3> QED BY <1>s, <2>1, <3>1
  <2> QED BY <1>5, <2>2, <2>3 DEF Step, FindUser, VerifyPassword, TouchIfUnlocked, Elevate,
             FindPendingUser, VerifyTotp, ResetIfUnlocked, InsertSession
<1>6. ASSUME NEW r \in Requests, Arrive(r)
      PROVE  UNCHANGED Account!vars
  <2>1. UNCHANGED <<users, sessions>>
    BY <1>6 DEF Arrive, AttemptSignin, AttemptSecondFactor, EnrollTotp, VerifyEnrollment,
           RegenerateBackupCodes, DisableTotp
  <2> QED BY <1>s, <2>1
<1>7. ASSUME NEW u \in Users, NEW status \in {"active", "banned"}, SetStatus(u, status)
      PROVE  UNCHANGED Account!vars
  <2>1. ASSUME NEW v \in Users PROVE UNCHANGED <<users[v].failed, users[v].locked>>
    BY <1>7, <1>t DEF SetStatus, UserRow
  <2> QED BY <1>7, <1>s, <2>1 DEF SetStatus
<1>8. ASSUME \/ \E u \in Users, i \in SigninIds : CreateSignin(u, i)
             \/ \E i \in SigninIds : Expire(i)
             \/ Crash
             \/ UNCHANGED vars
      PROVE  UNCHANGED Account!vars
  BY <1>8, <1>s DEF CreateSignin, Expire, Crash, vars
<1> QED BY <1>1, <1>2, <1>3, <1>4, <1>5, <1>6, <1>7, <1>8 DEF Next, Environment

\* Seen from an account, the races of the sign-in code are nothing but counted
\* failures, forgiveness while unlocked, sessions while unlocked, and unlocks.
THEOREM SignInImplementsAccountLock == Spec => ImplementsAccountLock
<1>1. Init => Account!Init BY DEF Init, Account!Init
<1>2. Init => SessionIdInv BY DEF Init, SessionIdInv
<1>3. TypeOK /\ SessionIdInv /\ [Next]_vars => SessionIdInv' BY SessionIdNext
<1>4. TypeOK /\ SessionIdInv /\ [Next]_vars => [Account!Next]_(Account!vars) BY AccountStep
<1> QED BY <1>1, <1>2, <1>3, <1>4, TypeCorrect, PTL DEF Spec, ImplementsAccountLock, Account!Spec
-----------------------------------------------------------------------------
(* Backup codes: a code is in one place, and moves to a session once. *)

\* The backup codes a request is about to write, or the one it has just used up.
Held(r) ==
    IF pc[r] \in TotpWrites THEN loc[r].codes
    ELSE IF pc[r] \in Finish THEN {loc[r].credential} \cap BackupCodes ELSE {}

\* Every code in use has been drawn, and is in the row of one user, with one
\* request, or behind one session.
CodeInv ==
    /\ \A u \in Users : users[u].backupCodes \subseteq drawn
    /\ \A r \in Requests : Held(r) \subseteq drawn
    /\ \A s \in sessions : s.factor \in BackupCodes => s.factor \in drawn
    /\ \A u, v \in Users : u # v => users[u].backupCodes \cap users[v].backupCodes = {}
    /\ \A u \in Users, r \in Requests : users[u].backupCodes \cap Held(r) = {}
    /\ \A u \in Users, s \in sessions : s.factor \notin users[u].backupCodes
    /\ \A r, q \in Requests : r # q => Held(r) \cap Held(q) = {}
    /\ \A r \in Requests, s \in sessions : s.factor \notin Held(r)
    /\ BackupCodeUsedOnce

\* Codes are backup codes, wherever they are.
LEMMA CodesAreCodes ==
    ASSUME TypeOK
    PROVE  /\ \A u \in Users : users[u].backupCodes \subseteq BackupCodes
           /\ \A r \in Requests : Held(r) \subseteq BackupCodes
<1>1. \A u \in Users : users[u].backupCodes \subseteq BackupCodes
  BY DEF TypeOK, TablesOK, UserRow
<1>2. ASSUME NEW r \in Requests, pc[r] \in TotpWrites
      PROVE  loc[r].codes \subseteq BackupCodes
  <2>1. loc[r] \in Locals BY <1>2, InFlightLocals DEF TypeOK
  <2> QED BY <2>1 DEF Locals
<1> QED BY <1>1, <1>2 DEF Held

\* Codes that only disappear stay where they were.
LEMMA CodesShrink ==
    ASSUME CodeInv, drawn \subseteq drawn', sessions' = sessions,
           \A u \in Users : users'[u].backupCodes \subseteq users[u].backupCodes,
           \A r \in Requests : Held(r)' \subseteq Held(r)
    PROVE  CodeInv'
<1>1. BackupCodeUsedOnce' BY DEF CodeInv, BackupCodeUsedOnce
<1>2. /\ \A u \in Users : users'[u].backupCodes \subseteq drawn'
      /\ \A r \in Requests : Held(r)' \subseteq drawn'
      /\ \A s \in sessions' : s.factor \in BackupCodes => s.factor \in drawn'
  BY DEF CodeInv
<1>3. /\ \A u, v \in Users : u # v => users'[u].backupCodes \cap users'[v].backupCodes = {}
      /\ \A u \in Users, r \in Requests : users'[u].backupCodes \cap Held(r)' = {}
      /\ \A u \in Users, s \in sessions' : s.factor \notin users'[u].backupCodes
  BY DEF CodeInv
<1>4. /\ \A r, q \in Requests : r # q => Held(r)' \cap Held(q)' = {}
      /\ \A r \in Requests, s \in sessions' : s.factor \notin Held(r)'
  BY DEF CodeInv
<1> QED BY <1>1, <1>2, <1>3, <1>4 DEF CodeInv

\* Codes just drawn are nowhere yet.
LEMMA CodesDrawn ==
    ASSUME TypeOK, CodeInv, NEW r \in Requests, NEW codes \in SUBSET BackupCodes,
           codes \cap drawn = {}, drawn' = drawn \cup codes,
           users' = users, sessions' = sessions, Held(r)' = codes,
           \A q \in Requests \ {r} : Held(q)' = Held(q)
    PROVE  CodeInv'
<1>1. BackupCodeUsedOnce' BY DEF CodeInv, BackupCodeUsedOnce
<1>2. \A s \in sessions : s.factor \notin codes BY DEF CodeInv
<1>3. \A u \in Users : users[u].backupCodes \cap codes = {} BY DEF CodeInv
<1>4. \A q \in Requests : Held(q) \cap codes = {} BY DEF CodeInv
<1> QED BY <1>1, <1>2, <1>3, <1>4 DEF CodeInv

\* What a request held goes to the row of one user.
LEMMA CodesWritten ==
    ASSUME CodeInv, NEW r \in Requests, NEW u \in Users,
           drawn' = drawn, sessions' = sessions, Held(r)' = {},
           users'[u].backupCodes = Held(r),
           \A v \in Users \ {u} : users'[v].backupCodes = users[v].backupCodes,
           \A q \in Requests \ {r} : Held(q)' = Held(q)
    PROVE  CodeInv'
<1>1. BackupCodeUsedOnce' BY DEF CodeInv, BackupCodeUsedOnce
<1> QED BY <1>1 DEF CodeInv

\* A code that works leaves its row with the request that used it.
LEMMA CodesConsumed ==
    ASSUME CodeInv, NEW r \in Requests, NEW u \in Users, NEW code \in users[u].backupCodes,
           drawn' = drawn, sessions' = sessions, Held(r)' \subseteq {code},
           users'[u].backupCodes = users[u].backupCodes \ {code},
           \A v \in Users \ {u} : users'[v].backupCodes = users[v].backupCodes,
           \A q \in Requests \ {r} : Held(q)' = Held(q)
    PROVE  CodeInv'
<1>1. BackupCodeUsedOnce' BY DEF CodeInv, BackupCodeUsedOnce
<1>2. /\ \A v \in Users : users'[v].backupCodes \subseteq users[v].backupCodes \ {code}
      /\ \A q \in Requests : code \notin Held(q)
      /\ \A s \in sessions : s.factor # code
      /\ \A v \in Users \ {u} : code \notin users[v].backupCodes
      /\ code \in drawn
  BY DEF CodeInv
<1> QED BY <1>1, <1>2 DEF CodeInv

\* A session takes the code of the request that creates it.
LEMMA CodesSpent ==
    ASSUME TypeOK, CodeInv, NEW r \in Requests, NEW s,
           users' = users, drawn' = drawn, sessions' = sessions \cup {s}, Held(r)' = {},
           s.factor \in BackupCodes => s.factor \in Held(r),
           \A q \in Requests \ {r} : Held(q)' = Held(q)
    PROVE  CodeInv'
<1>1. \A t \in sessions : s.factor \in BackupCodes => t.factor # s.factor BY DEF CodeInv
<1>2. BackupCodeUsedOnce' BY <1>1 DEF CodeInv, BackupCodeUsedOnce
<1>3. \A u \in Users : s.factor \notin users[u].backupCodes BY CodesAreCodes DEF CodeInv
<1>4. \A q \in Requests \ {r} : s.factor \notin Held(q) BY CodesAreCodes DEF CodeInv
<1>5. s.factor \in BackupCodes => s.factor \in drawn BY DEF CodeInv
<1> QED BY <1>2, <1>3, <1>4, <1>5 DEF CodeInv

\* A step of a handler moves a code at most from one place to another.
LEMMA CodeStep ==
    ASSUME TypeOK, CodeInv, NEW r \in Requests, Step(r)
    PROVE  CodeInv'
<1>t. RequestsOK /\ TablesOK BY DEF TypeOK
<1>l. pc[r] \in InFlight /\ loc[r] \in Locals /\ loc[r].user \in Users
  <2>1. pc[r] \in InFlight
    BY DEF Step, FindUser, VerifyPassword, BumpUserFailures, TouchIfUnlocked, Elevate,
           FindPendingUser, VerifyTotp, ConsumeBackupCode, ResetIfUnlocked, InsertSession,
           WriteSecret, WriteEnabled, WriteCodes, WriteDisabled
  <2>2. loc[r] \in Locals BY <1>t, <2>1, InFlightLocals
  <2> QED BY <2>1, <2>2 DEF Locals
<1>u. users \in [Users -> UserRow] /\ users[loc[r].user] \in UserRow
  BY <1>l, <1>t DEF TablesOK
<1>o. \A q \in Requests \ {r} : Held(q)' = Held(q) BY SigninMoves DEF Held
<1>s. ASSUME UNCHANGED <<sessions, drawn>>, Held(r)' \subseteq Held(r),
             \A u \in Users : users'[u].backupCodes \subseteq users[u].backupCodes
      PROVE  CodeInv'
  BY <1>o, <1>s, CodesShrink
<1> USE DEF Continue, End, Reject
<1>1. CASE FindUser(r) \/ TouchIfUnlocked(r) \/ Elevate(r) \/ FindPendingUser(r)
  <2>1. Held(r)' = {}
    BY <1>1, <1>t DEF FindUser, TouchIfUnlocked, Elevate, FindPendingUser, RequestsOK, Held
  <2>2. UNCHANGED <<users, sessions, drawn>>
    BY <1>1 DEF FindUser, TouchIfUnlocked, Elevate, FindPendingUser
  <2> QED BY <1>s, <2>1, <2>2
<1>2. CASE VerifyPassword(r)
  <2>1. UNCHANGED <<users, sessions, drawn>> BY <1>2 DEF VerifyPassword
  <2>2. Held(r)' = {} BY <1>2, <1>t, CodesAssumption DEF VerifyPassword, RequestsOK, Held
  <2> QED BY <1>s, <2>1, <2>2
<1>3. CASE VerifyTotp(r)
  <2>1. UNCHANGED <<users, sessions, drawn>> BY <1>3 DEF VerifyTotp
  <2>2. loc[r].secret \in Secrets \cup {None} BY <1>l DEF Locals
  <2>3. loc[r].secret # None /\ loc[r].credential = loc[r].secret =>
          {loc[r].credential} \cap BackupCodes = {}
    BY <2>2, CodesAssumption
  <2>4. Held(r)' = {} BY <1>3, <1>t, <2>3 DEF VerifyTotp, RequestsOK, Held
  <2> QED BY <1>s, <2>1, <2>4
<1>4. CASE ConsumeBackupCode(r)
  <2>1. UNCHANGED <<sessions, drawn>> BY <1>4 DEF ConsumeBackupCode
  <2>2. CASE loc[r].credential \in users[loc[r].user].backupCodes
    <3>1. users' = [users EXCEPT ![loc[r].user].backupCodes = @ \ {loc[r].credential}]
      BY <1>4, <2>2 DEF ConsumeBackupCode
    <3>2. Held(r)' \subseteq {loc[r].credential}
      BY <1>4, <2>2, <1>t DEF ConsumeBackupCode, RequestsOK, Held
    <3>3. users'[loc[r].user].backupCodes = users[loc[r].user].backupCodes \ {loc[r].credential}
      BY <3>1, <1>u, <1>l DEF UserRow
    <3>4. \A v \in Users \ {loc[r].user} : users'[v].backupCodes = users[v].backupCodes
      BY <3>1, <1>u
    <3> QED BY <2>1, <2>2, <3>2, <3>3, <3>4, <1>l, <1>o, CodesConsumed
  <2>3. CASE loc[r].credential \notin users[loc[r].user].backupCodes
    <3>1. users' = users /\ Held(r)' = {}
      BY <1>4, <2>3, <1>t DEF ConsumeBackupCode, RequestsOK, Held
    <3> QED BY <1>s, <2>1, <3>1
  <2> QED BY <2>2, <2>3
<1>5. CASE InsertSession(r)
  <2>1. UNCHANGED <<users, drawn>> /\ Held(r)' = {}
    BY <1>5, <1>t DEF InsertSession, RequestsOK, Held
  <2>2. CASE users[loc[r].user].locked
    BY <1>s, <1>5, <2>1, <2>2 DEF InsertSession
  <2>3. CASE ~users[loc[r].user].locked
    <3>1. PICK s : s.factor = loc[r].credential /\ sessions' = sessions \cup {s}
      BY <1>5, <2>3 DEF InsertSession
    <3>2. s.factor \in BackupCodes => s.factor \in Held(r)
      BY <1>5, <3>1 DEF InsertSession, Held
    <3> QED BY <1>o, <2>1, <3>1, <3>2, CodesSpent
  <2> QED BY <2>2, <2>3
<1>6. CASE WriteEnabled(r) \/ WriteCodes(r)
  <2>1. UNCHANGED <<sessions, drawn>> /\ Held(r)' = {} /\ Held(r) = loc[r].codes
    BY <1>6, <1>t DEF WriteEnabled, WriteCodes, RequestsOK, Held
  <2>2. users'[loc[r].user].backupCodes = loc[r].codes
    BY <1>6, <1>u, <1>l DEF WriteEnabled, WriteCodes, UserRow
  <2>3. \A v \in Users \ {loc[r].user} : users'[v].backupCodes = users[v].backupCodes
    BY <1>6, <1>u DEF WriteEnabled, WriteCodes
  <2> QED BY <1>l, <1>o, <2>1, <2>2, <2>3, CodesWritten
<1>7. CASE BumpUserFailures(r) \/ ResetIfUnlocked(r) \/ WriteSecret(r) \/ WriteDisabled(r)
  <2>1. UNCHANGED <<sessions, drawn>>
    BY <1>7 DEF BumpUserFailures, ResetIfUnlocked, WriteSecret, WriteDisabled
  <2>2. Held(r)' \subseteq Held(r)
    BY <1>7, <1>t DEF BumpUserFailures, ResetIfUnlocked, WriteSecret, WriteDisabled, RequestsOK, Held
  <2>3. users'[loc[r].user].backupCodes \subseteq users[loc[r].user].backupCodes
    <3>1. CASE BumpUserFailures(r) BY <3>1, <1>u, <1>l DEF BumpUserFailures, UserRow
    <3>2. CASE ResetIfUnlocked(r) BY <3>2, <1>u, <1>l DEF ResetIfUnlocked, UserRow
    <3>3. CASE WriteSecret(r) BY <3>3, <1>u, <1>l DEF WriteSecret, UserRow
    <3>4. CASE WriteDisabled(r) BY <3>4, <1>u, <1>l DEF WriteDisabled, UserRow
    <3> QED BY <1>7, <3>1, <3>2, <3>3, <3>4
  <2>4. \A v \in Users \ {loc[r].user} : users'[v].backupCodes = users[v].backupCodes
    BY <1>7, <1>u DEF BumpUserFailures, ResetIfUnlocked, WriteSecret, WriteDisabled
  <2> QED BY <1>s, <2>1, <2>2, <2>3, <2>4
<1> QED BY <1>1, <1>2, <1>3, <1>4, <1>5, <1>6, <1>7 DEF Step

\* A request arrives with codes that were nowhere before.
LEMMA CodeArrive ==
    ASSUME TypeOK, CodeInv, NEW r \in Requests, Arrive(r)
    PROVE  CodeInv'
<1>t. RequestsOK /\ pc[r] = "new" BY SigninArrives DEF TypeOK
<1>h. Held(r) = {} BY <1>t DEF Held
<1>o. \A q \in Requests \ {r} : Held(q)' = Held(q) BY SigninArrives DEF Held
<1> USE DEF Continue, End, TotpRequest
<1>1. ASSUME NEW i \in SigninIds, NEW u \in Users, NEW c \in {PASSWORD, WRONG},
             NEW s \in Strategies, AttemptSignin(r, i, u, c, s)
      PROVE  CodeInv'
  <2>1. Held(r)' = {} BY <1>1, <1>t DEF AttemptSignin, RequestsOK, Held
  <2> QED BY <1>1, <1>o, <2>1, CodesShrink DEF AttemptSignin
<1>2. ASSUME NEW i \in SigninIds, NEW c, NEW s \in Strategies, AttemptSecondFactor(r, i, c, s)
      PROVE  CodeInv'
  <2>1. Held(r)' = {} BY <1>2, <1>t DEF AttemptSecondFactor, RequestsOK, Held
  <2> QED BY <1>2, <1>o, <2>1, CodesShrink DEF AttemptSecondFactor
<1>3. ASSUME NEW u \in Users, NEW s \in Secrets, EnrollTotp(r, u, s)
      PROVE  CodeInv'
  <2>1. Held(r)' = {} BY <1>3, <1>t DEF EnrollTotp, RequestsOK, Held
  <2> QED BY <1>3, <1>o, <2>1, CodesShrink DEF EnrollTotp
<1>4. ASSUME NEW u \in Users, NEW c, NEW codes \in Batches,
             VerifyEnrollment(r, u, c, codes) \/ RegenerateBackupCodes(r, u, codes)
      PROVE  CodeInv'
  <2>1. Held(r)' = codes
    BY <1>4, <1>t DEF VerifyEnrollment, RegenerateBackupCodes, RequestsOK, Held
  <2>2. codes \in SUBSET BackupCodes BY EnrolledAssumption
  <2>3. /\ UNCHANGED <<users, sessions>>
        /\ codes \cap drawn = {} /\ drawn' = drawn \cup codes
    BY <1>4 DEF VerifyEnrollment, RegenerateBackupCodes
  <2> QED BY <1>o, <2>1, <2>2, <2>3, CodesDrawn
<1>5. ASSUME NEW u \in Users, DisableTotp(r, u)
      PROVE  CodeInv'
  <2>1. Held(r)' = {} BY <1>5, <1>t DEF DisableTotp, RequestsOK, Held
  <2> QED BY <1>5, <1>o, <2>1, CodesShrink DEF DisableTotp
<1> QED BY <1>1, <1>2, <1>3, <1>4, <1>5 DEF Arrive

\* Every step keeps each code in one place.
LEMMA CodeNext == TypeOK /\ CodeInv /\ [Next]_vars => CodeInv'
<1> SUFFICES ASSUME TypeOK, CodeInv, [Next]_vars PROVE CodeInv' OBVIOUS
<1>u. users \in [Users -> UserRow] BY DEF TypeOK, TablesOK
<1>1. CASE Crash
  <2>1. \A r \in Requests : Held(r)' = {} BY <1>1 DEF Crash, TypeOK, RequestsOK, Held
  <2> QED BY <1>1, <2>1, CodesShrink DEF Crash
<1>2. CASE Environment /\ ~Crash
  <2>1. UNCHANGED <<sessions, drawn, pc, loc>>
    BY <1>2 DEF Environment, CreateSignin, Expire, UnlockUser, SetStatus
  <2>2. \A u \in Users : users'[u].backupCodes = users[u].backupCodes
    <3>1. ASSUME NEW u \in Users, UnlockUser(u)
          PROVE  \A v \in Users : users'[v].backupCodes = users[v].backupCodes
      BY <1>u, <3>1 DEF UnlockUser, UserRow
    <3>2. ASSUME NEW u \in Users, NEW status, SetStatus(u, status)
          PROVE  \A v \in Users : users'[v].backupCodes = users[v].backupCodes
      BY <1>u, <3>2 DEF SetStatus, UserRow
    <3> QED BY <1>2, <3>1, <3>2 DEF Environment, CreateSignin, Expire
  <2>3. \A r \in Requests : Held(r)' = Held(r) BY <2>1 DEF Held
  <2> QED BY <2>1, <2>2, <2>3, CodesShrink
<1>3. CASE UNCHANGED vars
  <2>1. \A r \in Requests : Held(r)' = Held(r) BY <1>3 DEF vars, Held
  <2> QED BY <1>3, <2>1, CodesShrink DEF vars
<1> QED BY <1>1, <1>2, <1>3, CodeStep, CodeArrive DEF Next

\* A backup code lets its owner in once, whoever else tries it at the same time,
\* regenerates the codes or disables TOTP meanwhile.
THEOREM BackupCodesWorkOnce == Spec => []BackupCodeUsedOnce
<1>1. Init => CodeInv
  <2> SUFFICES ASSUME Init PROVE CodeInv OBVIOUS
  <2>1. \A u \in Users : users[u].backupCodes = EnrolledCodes[u] BY DEF Init
  <2>2. \A r \in Requests : Held(r) = {} BY DEF Init, Held
  <2>3. \A u \in Users : EnrolledCodes[u] \subseteq drawn BY DEF Init
  <2>4. sessions = {} BY DEF Init
  <2> QED BY <2>1, <2>2, <2>3, <2>4, EnrolledAssumption DEF CodeInv, BackupCodeUsedOnce
<1>2. TypeOK /\ CodeInv /\ [Next]_vars => CodeInv' BY CodeNext
<1>3. CodeInv => BackupCodeUsedOnce BY DEF CodeInv
<1> QED BY <1>1, <1>2, <1>3, TypeCorrect, PTL DEF Spec
=============================================================================
