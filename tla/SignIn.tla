------------------------------- MODULE SignIn -------------------------------
(***************************************************************************)
(* Password sign-in with lockout and an optional second factor:            *)
(* AuthService.createSignin, attemptSignin, attemptSecondFactor and        *)
(* createSessionForUser, the TotpService that changes what a sign-in       *)
(* needs, the admin endpoints that unlock or ban a user, and the           *)
(* in-process TransientStore that carries a sign-in from one HTTP request  *)
(* to the next.                                                            *)
(*                                                                         *)
(* A request is a handler that runs once.  Everything between two awaits   *)
(* is one step of it, and one SQL statement is one step; between two steps *)
(* any other request may run, so a handler acts on the row it read, not on *)
(* the row as it is.  `loc` holds the variables of the handler.            *)
(*                                                                         *)
(* The users table survives a crash of the process; the TransientStore and *)
(* the requests in flight do not.                                          *)
(***************************************************************************)
EXTENDS Naturals, FiniteSets

CONSTANTS
    Users,          \* accounts; one e-mail address each, which names the account
    Passwordless,   \* the users without a passwordDigest
    Requests,       \* HTTP requests; a request is also the id of the session it creates
    SigninIds,      \* `sin_${nanoid()}`
    Secrets,        \* TOTP secrets; a secret also stands for the codes it generates now
    BackupCodes,
    Batches,        \* the sets of backup codes one call of generateBackupCodes can return
    MaxAttempts,    \* MAX_SIGNIN_ATTEMPTS
    EnrolledSecret, \* the TOTP secret each user starts with, or None
    EnrolledCodes,  \* the backup codes each user starts with
    None

\* What a caller can type besides a code that some secret or batch of backup
\* codes makes valid: the account's password, or something that is never valid.
PASSWORD == "password"
WRONG == "wrong"

ASSUME MaxAttemptsAssumption == MaxAttempts \in Nat \ {0}
ASSUME RequestsAssumption == IsFiniteSet(Requests)
ASSUME NoneAssumption ==
    None \notin Users \cup Requests \cup SigninIds \cup Secrets \cup BackupCodes
ASSUME CodesAssumption ==
    /\ Secrets \cap BackupCodes = {}
    /\ {PASSWORD, WRONG} \cap (Secrets \cup BackupCodes) = {}
ASSUME EnrolledAssumption ==
    /\ Batches \subseteq SUBSET BackupCodes
    /\ EnrolledSecret \in [Users -> Secrets \cup {None}]
    /\ EnrolledCodes \in [Users -> SUBSET BackupCodes]
    \* two users never share a backup code
    /\ \A u, v \in Users : u # v => EnrolledCodes[u] \cap EnrolledCodes[v] = {}

VARIABLES
    users,          \* the users table
    pendingSignins, \* TransientStore<PendingSignin>
    sessions,       \* the sessions table
    drawn,          \* secrets and backup codes the random generators have produced
    pc,             \* where each request is
    loc,            \* the variables of each request's handler
    owner,          \* observer: the user each sign-in id was created for, or None
    wrong           \* observer: wrong credentials not yet forgiven, per user

vars == <<users, pendingSignins, sessions, drawn, pc, loc, owner, wrong>>

Credentials == {PASSWORD, WRONG} \cup Secrets \cup BackupCodes
Strategies == {"password", "totp", "backup_code", "undefined", "other"}

UserRow == [status : {"active", "banned"}, locked : BOOLEAN, failed : Nat,
            totpEnabled : BOOLEAN, totpSecret : Secrets \cup {None},
            backupCodes : SUBSET BackupCodes]

PendingSignin == [stage : {"first_factor", "second_factor"},
                  user : Users, attempts : Nat]

\* `user` and the popped entry's `attempts`, with what the handler read of the
\* user's row (`mfa`, `secret`) or drew (`secret`, `codes`).
Locals == [signin : SigninIds \cup {None}, user : Users, credential : Credentials,
           strategy : Strategies, attempts : Nat, mfa : BOOLEAN,
           secret : Secrets \cup {None}, codes : SUBSET BackupCodes]

ASSUME NoneIsNoRecord == None \notin Locals \cup PendingSignin

\* The row of `sessions`, and what the sign-in that created it went through:
\* the sign-in id, the last credential it verified, and whether the row it
\* read said that TOTP is enabled.
Session == [id : Requests, user : Users, signin : SigninIds,
            factor : Credentials, mfa : BOOLEAN]

\* attemptSignin: FirstFactor; attemptSecondFactor: SecondFactor; the end of
\* both: Finish.  A request in one of these holds the sign-in's pending entry,
\* which it has popped.
FirstFactor == {"findUser", "verifyPassword", "touch", "elevate"}
SecondFactor == {"findPendingUser", "verifyTotp", "consumeBackupCode"}
Finish == {"reset", "insertSession"}
Holding == FirstFactor \cup SecondFactor \cup Finish
TotpWrites == {"writeSecret", "writeEnabled", "writeCodes", "writeDisabled"}
InFlight == Holding \cup {"bump"} \cup TotpWrites
Over == {"done", "failed", "lost"}
-----------------------------------------------------------------------------
(* Helpers: what the handlers share. *)

\* The handler goes on at p with the variables l.
Continue(r, p, l) ==
    /\ pc' = [pc EXCEPT ![r] = p]
    /\ loc' = [loc EXCEPT ![r] = l]

\* The handler answers or throws; its variables are gone.
End(r, outcome) == Continue(r, outcome, None)

Set(i, entry) == pendingSignins' = [pendingSignins EXCEPT ![i] = entry]

\* Mutant: reads the entry and leaves it for the next request to read.
PopKeepsEntry(i) == UNCHANGED pendingSignins

\* TransientStore.pop: the entry is gone for every other request.
Pop(i) == Set(i, None)

\* restoreWithFailure
Restore(r, stage) ==
    Set(loc[r].signin, [stage |-> stage, user |-> loc[r].user,
                        attempts |-> loc[r].attempts + 1])

\* A wrong credential: the entry goes back into the store, and the request
\* still has to charge the failure to the user's row.
Reject(r, stage) ==
    /\ Restore(r, stage)
    /\ Continue(r, "bump", loc[r])
    /\ wrong' = [wrong EXCEPT ![loc[r].user] = @ + 1]

\* The requests that have restored an entry of u and not yet charged u.
Charging(u) == {r \in Requests : pc[r] = "bump" /\ loc[r].user = u}
-----------------------------------------------------------------------------
Init ==
    /\ users = [u \in Users |->
                  [status |-> "active", locked |-> FALSE, failed |-> 0,
                   totpEnabled |-> EnrolledSecret[u] # None,
                   totpSecret |-> EnrolledSecret[u],
                   backupCodes |-> EnrolledCodes[u]]]
    /\ pendingSignins = [i \in SigninIds |-> None]
    /\ sessions = {}
    /\ drawn = {s \in Secrets : \E u \in Users : EnrolledSecret[u] = s}
                \cup UNION {EnrolledCodes[u] : u \in Users}
    /\ pc = [r \in Requests |-> "new"]
    /\ loc = [r \in Requests |-> None]
    /\ owner = [i \in SigninIds |-> None]
    /\ wrong = [u \in Users |-> 0]

\* createSignin: reads the user and stores the pending entry in the same turn.
CreateSignin(u, i) ==
    /\ owner[i] = None
    /\ users[u].status = "active"
    /\ ~users[u].locked
    /\ owner' = [owner EXCEPT ![i] = u]
    /\ Set(i, [stage |-> "first_factor", user |-> u, attempts |-> 0])
    /\ UNCHANGED <<users, sessions, drawn, pc, loc, wrong>>

\* The entry's five minutes are over; get() no longer returns it.
Expire(i) ==
    /\ pendingSignins[i] # None
    /\ Pop(i)
    /\ UNCHANGED <<users, sessions, drawn, pc, loc, wrong, owner>>
-----------------------------------------------------------------------------
(* attemptSignin *)

\* Mutant: the identifier of the body is not compared with the entry's.
AnyIdentifierAccepted(pending, u, strategy) ==
    /\ pending # None
    /\ pending.stage = "first_factor"
    /\ pending.attempts < MaxAttempts
    /\ strategy \in {"password", "undefined"}

\* `u` is the identifier in the request's body; a missing strategy counts as
\* "password".
FirstFactorAccepted(pending, u, strategy) ==
    /\ pending # None
    /\ pending.stage = "first_factor"
    /\ pending.user = u
    /\ pending.attempts < MaxAttempts
    /\ strategy \in {"password", "undefined"}

\* Up to the first await.  A refusal leaves the entry consumed.
AttemptSignin(r, i, u, credential, strategy) ==
    LET pending == pendingSignins[i]
        accepted == FirstFactorAccepted(pending, u, strategy)
    IN  /\ pc[r] = "new"
        /\ Pop(i)
        /\ \/ /\ accepted
              /\ Continue(r, "findUser",
                          [signin |-> i, user |-> u, credential |-> credential,
                           strategy |-> "password", attempts |-> pending.attempts,
                           mfa |-> FALSE, secret |-> None, codes |-> {}])
           \/ ~accepted /\ End(r, "failed")
        /\ UNCHANGED <<users, sessions, drawn, wrong, owner>>

\* The user lookup; an entry is not restored for a user who is locked or has no
\* password.
FindUser(r) ==
    LET user == users[loc[r].user]
        refused == user.locked \/ loc[r].user \in Passwordless
    IN  /\ pc[r] = "findUser"
        /\ \/ /\ ~refused
              /\ Continue(r, "verifyPassword", [loc[r] EXCEPT !.mfa = user.totpEnabled])
           \/ refused /\ End(r, "failed")
        /\ UNCHANGED <<users, pendingSignins, sessions, drawn, wrong, owner>>

\* Mutant: a valid password completes the sign-in of a user with TOTP as well.
VerifyPasswordOnly(r) ==
    /\ pc[r] = "verifyPassword"
    /\ \/ /\ loc[r].credential = PASSWORD
          /\ Continue(r, "reset", loc[r])
          /\ UNCHANGED <<pendingSignins, wrong>>
       \/ /\ loc[r].credential # PASSWORD
          /\ Reject(r, "first_factor")
    /\ UNCHANGED <<users, sessions, drawn, owner>>

\* A wrong password restores the entry and goes on to charge the user.
VerifyPassword(r) ==
    /\ pc[r] = "verifyPassword"
    /\ \/ /\ loc[r].credential = PASSWORD
          /\ Continue(r, IF loc[r].mfa THEN "touch" ELSE "reset", loc[r])
          /\ UNCHANGED <<pendingSignins, wrong>>
       \/ /\ loc[r].credential # PASSWORD
          /\ Reject(r, "first_factor")
    /\ UNCHANGED <<users, sessions, drawn, owner>>

\* Mutant: the UPDATE skips a user who is locked already.
BumpIfUnlocked(r) ==
    LET u == loc[r].user
    IN  /\ pc[r] = "bump"
        /\ users' = IF users[u].locked THEN users ELSE
             [users EXCEPT ![u].failed = @ + 1,
                           ![u].locked = users[u].failed + 1 >= MaxAttempts]
        /\ End(r, "failed")
        /\ UNCHANGED <<pendingSignins, sessions, drawn, wrong, owner>>

\* Mutant: the lock is decided on the counter before the increment.
BumpLocksLate(r) ==
    LET u == loc[r].user
    IN  /\ pc[r] = "bump"
        /\ users' = [users EXCEPT ![u].failed = @ + 1,
                                  ![u].locked = users[u].failed >= MaxAttempts]
        /\ End(r, "failed")
        /\ UNCHANGED <<pendingSignins, sessions, drawn, wrong, owner>>

\* bumpUserFailures: one UPDATE increments and decides the lock.
BumpUserFailures(r) ==
    LET u == loc[r].user
    IN  /\ pc[r] = "bump"
        /\ users' = [users EXCEPT ![u].failed = @ + 1,
                                  ![u].locked = users[u].failed + 1 >= MaxAttempts]
        /\ End(r, "failed")
        /\ UNCHANGED <<pendingSignins, sessions, drawn, wrong, owner>>

\* Mutant: nobody answers when the user turns out to be locked.
TouchOrHang(r) ==
    /\ pc[r] = "touch"
    /\ ~users[loc[r].user].locked
    /\ Continue(r, "elevate", loc[r])
    /\ UNCHANGED <<users, pendingSignins, sessions, drawn, wrong, owner>>

\* With TOTP enabled the password only checks that the user is still unlocked ...
TouchIfUnlocked(r) ==
    /\ pc[r] = "touch"
    /\ \/ ~users[loc[r].user].locked /\ Continue(r, "elevate", loc[r])
       \/ users[loc[r].user].locked /\ End(r, "failed")
    /\ UNCHANGED <<users, pendingSignins, sessions, drawn, wrong, owner>>

\* ... and then installs an entry for the second factor.
Elevate(r) ==
    /\ pc[r] = "elevate"
    /\ Set(loc[r].signin, [stage |-> "second_factor", user |-> loc[r].user,
                           attempts |-> 0])
    /\ End(r, "done")
    /\ UNCHANGED <<users, sessions, drawn, wrong, owner>>
-----------------------------------------------------------------------------
(* attemptSecondFactor *)

AttemptSecondFactor(r, i, credential, strategy) ==
    LET pending == pendingSignins[i]
        accepted == /\ pending # None
                    /\ pending.stage = "second_factor"
                    /\ pending.attempts < MaxAttempts
    IN  /\ pc[r] = "new"
        /\ Pop(i)
        /\ \/ /\ accepted
              /\ Continue(r, "findPendingUser",
                          [signin |-> i, user |-> pending.user, credential |-> credential,
                           strategy |-> strategy, attempts |-> pending.attempts,
                           mfa |-> TRUE, secret |-> None, codes |-> {}])
           \/ ~accepted /\ End(r, "failed")
        /\ UNCHANGED <<users, sessions, drawn, wrong, owner>>

\* The user lookup, and the choice of the factor to try.
FindPendingUser(r) ==
    LET user == users[loc[r].user]
        next == [loc[r] EXCEPT !.secret = user.totpSecret]
    IN  /\ pc[r] = "findPendingUser"
        /\ \/ /\ ~user.locked /\ loc[r].strategy \in {"totp", "undefined"}
              /\ Continue(r, "verifyTotp", next)
           \/ /\ ~user.locked /\ loc[r].strategy = "backup_code"
              /\ Continue(r, "consumeBackupCode", next)
           \/ /\ user.locked \/ loc[r].strategy \notin {"totp", "undefined", "backup_code"}
              /\ End(r, "failed")
        /\ UNCHANGED <<users, pendingSignins, sessions, drawn, wrong, owner>>

\* tryTotp, against the secret the handler read.
VerifyTotp(r) ==
    LET valid == loc[r].secret # None /\ loc[r].credential = loc[r].secret
    IN  /\ pc[r] = "verifyTotp"
        /\ \/ /\ valid
              /\ Continue(r, "reset", loc[r])
              /\ UNCHANGED <<pendingSignins, wrong>>
           \/ /\ ~valid /\ loc[r].strategy = "undefined"
              /\ Continue(r, "consumeBackupCode", loc[r])
              /\ UNCHANGED <<pendingSignins, wrong>>
           \/ /\ ~valid /\ loc[r].strategy = "totp"
              /\ Reject(r, "second_factor")
        /\ UNCHANGED <<users, sessions, drawn, owner>>

\* Mutant: checks the code and leaves it in the row.
AcceptBackupCode(r) ==
    /\ pc[r] = "consumeBackupCode"
    /\ \/ /\ loc[r].credential \in users[loc[r].user].backupCodes
          /\ Continue(r, "reset", loc[r])
          /\ UNCHANGED <<pendingSignins, wrong>>
       \/ /\ loc[r].credential \notin users[loc[r].user].backupCodes
          /\ Reject(r, "second_factor")
    /\ UNCHANGED <<users, sessions, drawn, owner>>

\* tryBackupCode: one UPDATE filters the code out of the row if it is there.
ConsumeBackupCode(r) ==
    LET u == loc[r].user
        code == loc[r].credential
    IN  /\ pc[r] = "consumeBackupCode"
        /\ \/ /\ code \in users[u].backupCodes
              /\ users' = [users EXCEPT ![u].backupCodes = @ \ {code}]
              /\ Continue(r, "reset", loc[r])
              /\ UNCHANGED <<pendingSignins, wrong>>
           \/ /\ code \notin users[u].backupCodes
              /\ Reject(r, "second_factor")
              /\ UNCHANGED users
        /\ UNCHANGED <<sessions, drawn, owner>>
-----------------------------------------------------------------------------
(* The end of both: the counter, then the session. *)

\* Mutant: the UPDATE has no WHERE locked = false.
ResetAlways(r) ==
    /\ pc[r] = "reset"
    /\ users' = [users EXCEPT ![loc[r].user].failed = 0]
    /\ wrong' = [wrong EXCEPT ![loc[r].user] = Cardinality(Charging(loc[r].user))]
    /\ Continue(r, "insertSession", loc[r])
    /\ UNCHANGED <<pendingSignins, sessions, drawn, owner>>

\* The counter goes back to 0 in the same statement that checks the lock.
ResetIfUnlocked(r) ==
    LET u == loc[r].user
    IN  /\ pc[r] = "reset"
        /\ \/ /\ ~users[u].locked
              /\ users' = [users EXCEPT ![u].failed = 0]
              /\ wrong' = [wrong EXCEPT ![u] = Cardinality(Charging(u))]
              /\ Continue(r, "insertSession", loc[r])
           \/ /\ users[u].locked
              /\ End(r, "failed")
              /\ UNCHANGED <<users, wrong>>
        /\ UNCHANGED <<pendingSignins, sessions, drawn, owner>>

\* Mutant: trusts the check of the statement before.
InsertAlways(r) ==
    /\ pc[r] = "insertSession"
    /\ sessions' = sessions \cup
          {[id |-> r, user |-> loc[r].user, signin |-> loc[r].signin,
            factor |-> loc[r].credential, mfa |-> loc[r].mfa]}
    /\ End(r, "done")
    /\ UNCHANGED <<users, pendingSignins, drawn, wrong, owner>>

\* createSessionForUser: INSERT ... SELECT ... WHERE locked = false.  What it
\* does next (lastSignInAt, the organisation claims, signing the token) touches
\* nothing this module tracks.
InsertSession(r) ==
    LET u == loc[r].user
    IN  /\ pc[r] = "insertSession"
        /\ \/ /\ ~users[u].locked
              /\ sessions' = sessions \cup
                    {[id |-> r, user |-> u, signin |-> loc[r].signin,
                      factor |-> loc[r].credential, mfa |-> loc[r].mfa]}
              /\ End(r, "done")
           \/ /\ users[u].locked
              /\ End(r, "failed")
              /\ UNCHANGED sessions
        /\ UNCHANGED <<users, pendingSignins, drawn, wrong, owner>>
-----------------------------------------------------------------------------
(* TotpService: each method reads the row, checks it, and writes it later. *)

TotpRequest(u, credential, secret, codes) ==
    [signin |-> None, user |-> u, credential |-> credential,
     strategy |-> "undefined", attempts |-> 0, mfa |-> FALSE,
     secret |-> secret, codes |-> codes]

EnrollTotp(r, u, secret) ==
    /\ pc[r] = "new"
    /\ ~users[u].totpEnabled
    /\ secret \notin drawn
    /\ drawn' = drawn \cup {secret}
    /\ Continue(r, "writeSecret", TotpRequest(u, WRONG, secret, {}))
    /\ UNCHANGED <<users, pendingSignins, sessions, wrong, owner>>

WriteSecret(r) ==
    /\ pc[r] = "writeSecret"
    /\ users' = [users EXCEPT ![loc[r].user].totpSecret = loc[r].secret]
    /\ End(r, "done")
    /\ UNCHANGED <<pendingSignins, sessions, drawn, wrong, owner>>

\* The result of totp.verify is a promise nobody awaits, and a promise is
\* always truthy: the code the caller typed decides nothing.
VerifyEnrollment(r, u, credential, codes) ==
    /\ pc[r] = "new"
    /\ users[u].totpSecret # None
    /\ ~users[u].totpEnabled
    /\ codes \cap drawn = {}
    /\ drawn' = drawn \cup codes
    /\ Continue(r, "writeEnabled", TotpRequest(u, credential, users[u].totpSecret, codes))
    /\ UNCHANGED <<users, pendingSignins, sessions, wrong, owner>>

WriteEnabled(r) ==
    /\ pc[r] = "writeEnabled"
    /\ users' = [users EXCEPT ![loc[r].user].totpEnabled = TRUE,
                              ![loc[r].user].backupCodes = loc[r].codes]
    /\ End(r, "done")
    /\ UNCHANGED <<pendingSignins, sessions, drawn, wrong, owner>>

RegenerateBackupCodes(r, u, codes) ==
    /\ pc[r] = "new"
    /\ users[u].totpEnabled
    /\ codes \cap drawn = {}
    /\ drawn' = drawn \cup codes
    /\ Continue(r, "writeCodes", TotpRequest(u, WRONG, None, codes))
    /\ UNCHANGED <<users, pendingSignins, sessions, wrong, owner>>

WriteCodes(r) ==
    /\ pc[r] = "writeCodes"
    /\ users' = [users EXCEPT ![loc[r].user].backupCodes = loc[r].codes]
    /\ End(r, "done")
    /\ UNCHANGED <<pendingSignins, sessions, drawn, wrong, owner>>

DisableTotp(r, u) ==
    /\ pc[r] = "new"
    /\ Continue(r, "writeDisabled", TotpRequest(u, WRONG, None, {}))
    /\ UNCHANGED <<users, pendingSignins, sessions, drawn, wrong, owner>>

WriteDisabled(r) ==
    /\ pc[r] = "writeDisabled"
    /\ users' = [users EXCEPT ![loc[r].user].totpSecret = None,
                              ![loc[r].user].totpEnabled = FALSE,
                              ![loc[r].user].backupCodes = {}]
    /\ End(r, "done")
    /\ UNCHANGED <<pendingSignins, sessions, drawn, wrong, owner>>
-----------------------------------------------------------------------------
(* The administrator, and the process. *)

\* Mutant: lifts the lock and leaves the counter.
UnlockKeepsCounter(u) ==
    /\ users' = [users EXCEPT ![u].locked = FALSE]
    /\ UNCHANGED <<pendingSignins, sessions, drawn, pc, loc, wrong, owner>>

\* POST /v1/users/:user_id/unlock
UnlockUser(u) ==
    /\ users' = [users EXCEPT ![u].locked = FALSE, ![u].failed = 0]
    /\ wrong' = [wrong EXCEPT ![u] = Cardinality(Charging(u))]
    /\ UNCHANGED <<pendingSignins, sessions, drawn, pc, loc, owner>>

\* updateUser and bulkUpdateUsers
SetStatus(u, status) ==
    /\ users' = [users EXCEPT ![u].status = status]
    /\ UNCHANGED <<pendingSignins, sessions, drawn, pc, loc, wrong, owner>>

\* The process dies and starts again with an empty store.  A failure that was
\* not charged yet never will be.
Crash ==
    /\ pendingSignins' = [i \in SigninIds |-> None]
    /\ pc' = [r \in Requests |-> IF pc[r] \in InFlight THEN "lost" ELSE pc[r]]
    /\ loc' = [r \in Requests |-> None]
    /\ wrong' = [u \in Users |-> users[u].failed]
    /\ UNCHANGED <<users, sessions, drawn, owner>>
-----------------------------------------------------------------------------
\* A new request; one that its handler refuses at the first read is left out.
Arrive(r) ==
    \/ \E i \in SigninIds, u \in Users, c \in {PASSWORD, WRONG}, s \in Strategies :
          AttemptSignin(r, i, u, c, s)
    \/ \E i \in SigninIds, c \in {WRONG} \cup Secrets \cup BackupCodes, s \in Strategies :
          AttemptSecondFactor(r, i, c, s)
    \/ \E u \in Users, s \in Secrets : EnrollTotp(r, u, s)
    \/ \E u \in Users, c \in {WRONG} \cup Secrets, codes \in Batches :
          VerifyEnrollment(r, u, c, codes)
    \/ \E u \in Users, codes \in Batches : RegenerateBackupCodes(r, u, codes)
    \/ \E u \in Users : DisableTotp(r, u)

Step(r) ==
    \/ FindUser(r) \/ VerifyPassword(r) \/ BumpUserFailures(r)
    \/ TouchIfUnlocked(r) \/ Elevate(r)
    \/ FindPendingUser(r) \/ VerifyTotp(r) \/ ConsumeBackupCode(r)
    \/ ResetIfUnlocked(r) \/ InsertSession(r)
    \/ WriteSecret(r) \/ WriteEnabled(r) \/ WriteCodes(r) \/ WriteDisabled(r)

Environment ==
    \/ \E u \in Users, i \in SigninIds : CreateSignin(u, i)
    \/ \E i \in SigninIds : Expire(i)
    \/ \E u \in Users : UnlockUser(u)
    \/ \E u \in Users, status \in {"active", "banned"} : SetStatus(u, status)
    \/ Crash

Next == Environment \/ \E r \in Requests : Arrive(r) \/ Step(r)

Spec == Init /\ [][Next]_vars

\* The runtime resumes every handler whose await has settled.
FairSpec == Spec /\ \A r \in Requests : WF_vars(Step(r))
-----------------------------------------------------------------------------
TablesOK ==
    /\ users \in [Users -> UserRow]
    /\ pendingSignins \in [SigninIds -> PendingSignin \cup {None}]
    /\ sessions \subseteq Session
    /\ drawn \subseteq Secrets \cup BackupCodes

\* A request has variables exactly while it is in flight, and a sign-in id
\* exactly while it attempts a sign-in.
RequestsOK ==
    /\ pc \in [Requests -> {"new"} \cup InFlight \cup Over]
    /\ loc \in [Requests -> Locals \cup {None}]
    /\ \A r \in Requests : pc[r] \in InFlight <=> loc[r] # None
    /\ \A r \in Requests : pc[r] \in Holding \cup {"bump"} => loc[r].signin # None

ObserversOK ==
    /\ owner \in [SigninIds -> Users \cup {None}]
    /\ wrong \in [Users -> Nat]

\* Every variable has its type, and a handler its variables while it runs.
TypeOK == TablesOK /\ RequestsOK /\ ObserversOK

\* The lock flag never disagrees with the counter, whatever races: an account
\* that has used up its attempts is locked, and no other is.
LockMeansExhausted ==
    \A u \in Users : users[u].locked <=> users[u].failed >= MaxAttempts

\* No update of the counter is lost: what has gone wrong since the last reset is
\* in the row or about to be written by a request that is still running.
NoLostFailure ==
    \A u \in Users : wrong[u] = users[u].failed + Cardinality(Charging(u))

\* One sign-in id yields at most one session, however many requests try to
\* finish it at the same time.
OneSessionPerSignin ==
    \A s, t \in sessions : s.signin = t.signin => s = t

\* A sign-in id signs in nobody but the account it was created for.
SigninOwner ==
    \A s \in sessions : s.user = owner[s.signin]

\* A session whose handler found TOTP enabled was created by a TOTP or a backup
\* code, never by the password alone.
SecondFactorWhenEnabled ==
    \A s \in sessions : s.mfa => s.factor \in Secrets \cup BackupCodes

\* A backup code lets its owner in once.
BackupCodeUsedOnce ==
    \A s, t \in sessions : s.factor = t.factor /\ s.factor \in BackupCodes => s = t

\* Only an administrator clears a lock.
OnlyUnlockClearsLock ==
    [][\A u \in Users : users[u].locked /\ ~users'[u].locked => UnlockUser(u)]_vars

\* The failure counter of a user goes down when an administrator unlocks the
\* user, or when a sign-in has verified everything the user's row asked for.
CounterFallsOnlyAfterAllFactors ==
    [][\A u \in Users : users'[u].failed < users[u].failed =>
          \/ UnlockUser(u)
          \/ \E r \in Requests :
                /\ pc[r] = "reset" /\ loc[r].user = u
                /\ loc[r].mfa => loc[r].credential # PASSWORD]_vars

\* A session is created for a user who is not locked at that moment.
NoSessionForLockedUser ==
    [][\A s \in sessions' \ sessions : ~users[s.user].locked]_vars

\* What totp.service.ts says of verify: "Invalid verification code" is thrown
\* for a code the secret does not generate, so TOTP is only ever enabled by a
\* valid one.  The code does not keep it.
EnabledOnlyByValidCode ==
    [][\A u \in Users : ~users[u].totpEnabled /\ users'[u].totpEnabled =>
          \E r \in Requests : /\ pc[r] = "writeEnabled"
                              /\ loc[r].user = u
                              /\ loc[r].credential = loc[r].secret]_vars

\* The account this module promises: see AccountLock.
Account == INSTANCE AccountLock WITH
    SessionIds <- Requests,
    failed <- [u \in Users |-> users[u].failed],
    locked <- [u \in Users |-> users[u].locked],
    granted <- [u \in Users |-> {r \in Requests : \E s \in sessions : s.id = r /\ s.user = u}]

\* Every step of every request is a step an account allows.
ImplementsAccountLock == Account!Spec

\* Every request is answered unless the process dies under it.
RequestsAnswered ==
    \A r \in Requests : pc[r] \in InFlight ~> pc[r] \in Over
=============================================================================
