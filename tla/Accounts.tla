------------------------------ MODULE Accounts ------------------------------
(***************************************************************************)
(* Who has an account, and what leads to it: sign-up with a code, magic    *)
(* links, the OAuth callback, SCIM provisioning, the e-mail addresses,     *)
(* phone numbers and identities of an account, its deletion and its        *)
(* restoration, the restrictions on sign-up and the verified domains that  *)
(* enrol a new account.                                                    *)
(*                                                                         *)
(* A request is a handler; one SQL statement, or the code between two      *)
(* awaits, is one step of it, and any other request may run in between.    *)
(* `loc` holds what the handler read.  Statements are not transactions, so *)
(* a constraint that fails in the middle leaves what came before.          *)
(***************************************************************************)
EXTENDS FiniteSets

CONSTANTS
    Requests,
    Emails,         \* spellings of e-mail addresses
    Typed,          \* those that people and providers use
    Phones,
    Lower,          \* String.toLowerCase on Emails
    DomainOf,       \* what follows the @
    Domains, Organizations,
    RestrictionPool,\* the restrictions an administrator may add
    UserIds, ContactIds, SignupIds, LinkIds, OAuthIds, SessionIds, \* nanoid()
    Subjects,       \* the ids an OAuth provider gives its users
    None

Values == Emails \cup Phones
Ids == UserIds \cup ContactIds \cup SignupIds \cup LinkIds \cup OAuthIds \cup SessionIds

ASSUME LowerAssumption ==
    /\ Typed \subseteq Emails
    /\ Lower \in [Emails -> Emails]
    /\ \A e \in Emails : Lower[Lower[e]] = Lower[e]
ASSUME DomainAssumption == DomainOf \in [Emails -> Domains]
ASSUME NoneAssumption == None \notin Ids \cup Values \cup Subjects \cup Organizations
ASSUME IdsAssumption ==
    /\ SignupIds \cap LinkIds = {}
    /\ UserIds \cap (ContactIds \cup SignupIds \cup LinkIds \cup OAuthIds \cup SessionIds) = {}
    /\ ContactIds \cap (SignupIds \cup LinkIds \cup OAuthIds \cup SessionIds) = {}
    /\ Emails \cap Phones = {}
    /\ LinkIds \cap Organizations = {}

VARIABLES
    users, contacts, links, oauthAccounts, sessions, \* tables, by id
    memberships, domains, restrictions,              \* tables
    pendingSignups, \* TransientStore<PendingSignup>: the address, by sign-up id
    drawn,          \* the ids that nanoid has produced
    pc, loc,        \* where each request is, and its variables
    asked,          \* observer: the address of each sign-up id
    origin,         \* observer: the sign-up id each account was created from
    claims          \* observer: <<u, v>> if u has ever had v

tables == <<users, contacts, links, oauthAccounts, sessions, memberships, domains, restrictions>>
observers == <<asked, origin, claims>>
admin == <<memberships, domains, restrictions>>
handlers == <<pc, loc>>
vars == <<tables, pendingSignups, drawn, pc, loc, observers>>

UserRow == [status : {"active", "inactive", "banned"}, deleted : BOOLEAN,
            primary : ContactIds \cup {None}]
\* emailAddresses and phoneNumbers: the value tells which table a row is in.
Contact == [owner : UserIds, value : Values, verified : BOOLEAN]
\* signInTokens, with the address it was asked for.
Link == [owner : UserIds, status : {"pending", "accepted", "expired"}, late : BOOLEAN,
         value : Values]
OAuthAccount == [owner : UserIds, subject : Subjects, value : Values]
\* sessions, with what opened it.
Session == [owner : UserIds, via : SignupIds \cup LinkIds]
Restriction == [type : {"allowlist", "blocklist"}, of : Emails \cup Domains]

\* No row is the absence of one.
ASSUME NoneIsNoRecord == None \notin UserRow \cup Contact \cup Link \cup OAuthAccount \cup Session

Positions == {"idle", "checkSignup", "insertUser", "insertAddress", "findDomain", "enroll",
              "openSession", "findLinkUser", "insertLink", "expireLink", "acceptLink",
              "linkAccount", "insertContact", "deleteRow", "writePrimary", "writeRestored"}

\* kind: which handler is running; user, value, ref: what it read or was given;
\* standing (observer): the restrictions in force ever since its code was taken.
Locals == [kind : {"signup", "oauth", "scim", "other"}, user : UserIds \cup {None},
           value : Values \cup {None}, ref : Ids \cup Subjects \cup Organizations \cup {None},
           standing : SUBSET RestrictionPool]
Idle == [kind |-> "other", user |-> None, value |-> None, ref |-> None, standing |-> {}]
-----------------------------------------------------------------------------
(* Helpers. *)

Exists(u) == users[u] # None
Rows(t) == {i \in DOMAIN t : t[i] # None}

\* findFirst({ where: eq(value) }), and the UNIQUE constraint of the column.
Holding(v) == {c \in Rows(contacts) : contacts[c].value = v}
Taken(v) == Holding(v) # {}

\* An id nobody has seen; which one makes no difference.
Fresh(S) == IF S \subseteq drawn THEN {} ELSE {CHOOSE i \in S : i \notin drawn}
Draw(i) == drawn' = drawn \cup {i}

Continue(r, p, l) ==
    /\ pc' = [pc EXCEPT ![r] = p]
    /\ loc' = [loc EXCEPT ![r] = l]

\* The handler answers, or throws.
Answer(r) == Continue(r, "idle", Idle)

\* A request arrives and its first statement finds what the handler asks for;
\* one that finds nothing answers at once and changes nothing.
Arrive(r, p, l) == pc[r] = "idle" /\ Continue(r, p, l)

\* ON DELETE CASCADE from users.
Without(t, u) == [i \in DOMAIN t |-> IF t[i] # None /\ t[i].owner = u THEN None ELSE t[i]]

\* RestrictionService.checkSignup
Matches(x, e) == x.of \in {Lower[e], DomainOf[Lower[e]]}
Blocked(e, R) == \E x \in R : x.type = "blocklist" /\ Matches(x, e)
\* Mutant: compares the address as it was typed.
AllowedAsTyped(e, R) == ~\E x \in R : x.type = "blocklist" /\ x.of \in {e, DomainOf[e]}

Allowed(e, R) ==
    /\ ~Blocked(e, R)
    /\ LET allowlist == {x \in R : x.type = "allowlist"}
       IN allowlist = {} \/ \E x \in allowlist : Matches(x, e)

-----------------------------------------------------------------------------
Init ==
    /\ users = [u \in UserIds |-> None]
    /\ contacts = [c \in ContactIds |-> None]
    /\ links = [t \in LinkIds |-> None]
    /\ oauthAccounts = [o \in OAuthIds |-> None]
    /\ sessions = [s \in SessionIds |-> None]
    /\ memberships = {}
    /\ domains = [d \in Domains |-> None]
    /\ restrictions = {}
    /\ pendingSignups = [s \in SignupIds |-> None]
    /\ drawn = {}
    /\ pc = [r \in Requests |-> "idle"]
    /\ loc = [r \in Requests |-> Idle]
    /\ asked = [s \in SignupIds |-> None]
    /\ origin = [u \in UserIds |-> None]
    /\ claims = {}
-----------------------------------------------------------------------------
(* Sign-up. *)

\* createSignup: the code is sent out; nothing looks the address up.
CreateSignup(s, e) ==
    /\ s \notin drawn
    /\ Draw(s)
    /\ pendingSignups' = [pendingSignups EXCEPT ![s] = e]
    /\ asked' = [asked EXCEPT ![s] = e]
    /\ UNCHANGED <<tables, handlers, origin, claims>>

\* The entry is gone fifteen minutes later, or when get meets it expired.
ExpireSignup(s) ==
    /\ pendingSignups[s] # None
    /\ pendingSignups' = [pendingSignups EXCEPT ![s] = None]
    /\ UNCHANGED <<tables, drawn, handlers, observers>>

\* Mutant: deletes the entry only when the account is there (it expires later).
AttemptSignupKeepsEntry(r, s) ==
    /\ pendingSignups[s] # None
    /\ Arrive(r, "checkSignup", [Idle EXCEPT !.kind = "signup", !.ref = s,
                                             !.value = pendingSignups[s],
                                             !.standing = restrictions])
    /\ UNCHANGED <<tables, pendingSignups, drawn, observers>>

\* attemptSignup with the right code (a wrong one leaves the entry and throws):
\* get, compare and delete run in one turn.
AttemptSignup(r, s) ==
    /\ pendingSignups[s] # None
    /\ Arrive(r, "checkSignup", [Idle EXCEPT !.kind = "signup", !.ref = s,
                                             !.value = pendingSignups[s],
                                             !.standing = restrictions])
    /\ pendingSignups' = [pendingSignups EXCEPT ![s] = None]
    /\ UNCHANGED <<tables, drawn, observers>>

CheckSignup(r) ==
    /\ pc[r] = "checkSignup"
    /\ IF Allowed(loc[r].value, restrictions)
       THEN Continue(r, "insertUser", loc[r])
       ELSE Answer(r)
    /\ UNCHANGED <<tables, pendingSignups, drawn, observers>>

\* INSERT INTO users, for sign-up, OAuth and SCIM alike.  SCIM may name no
\* address, and may create the account inactive.
InsertUser(r) ==
    /\ pc[r] = "insertUser"
    /\ \E u \in Fresh(UserIds), status \in {"active", "inactive"} :
        /\ status = "inactive" => loc[r].kind = "scim"
        /\ Draw(u)
        /\ users' = [users EXCEPT ![u] =
                        [status |-> status, deleted |-> FALSE, primary |-> None]]
        /\ origin' = [origin EXCEPT ![u] = IF loc[r].kind = "signup" THEN loc[r].ref ELSE None]
        /\ IF loc[r].value = None THEN Answer(r)
           ELSE Continue(r, "insertAddress", [loc[r] EXCEPT !.user = u, !.standing = {}])
    /\ UNCHANGED <<contacts, links, oauthAccounts, sessions, admin, pendingSignups, asked,
                   claims>>

\* What every insert of an address or a number does when it goes through.
AddRow(r, v, verified) ==
    /\ Exists(loc[r].user)
    /\ \E c \in Fresh(ContactIds) :
        /\ Draw(c)
        /\ contacts' = [contacts EXCEPT ![c] =
                            [owner |-> loc[r].user, value |-> v, verified |-> verified]]
    /\ claims' = claims \cup {<<loc[r].user, v>>}

Then(r, next) == IF next = "idle" THEN Answer(r) ELSE Continue(r, next, loc[r])

\* Mutant: ON CONFLICT DO NOTHING, and the handler goes on.
InsertOrIgnore(r, v, verified, next) ==
    \/ ~Taken(v) /\ AddRow(r, v, verified) /\ Then(r, next)
    \/ Taken(v) /\ Then(r, next) /\ UNCHANGED <<contacts, drawn, claims>>

\* Mutant: no UNIQUE constraint behind the handlers' own lookups.
InsertUnchecked(r, v, verified, next) == AddRow(r, v, verified) /\ Then(r, next)

\* INSERT INTO email_addresses or phone_numbers: the value is unique and its
\* account must exist, else the statement throws and the handler is over.
InsertRow(r, v, verified, next) ==
    \/ ~Taken(v) /\ AddRow(r, v, verified) /\ Then(r, next)
    \/ /\ Taken(v) \/ ~Exists(loc[r].user)
       /\ Answer(r)
       /\ UNCHANGED <<contacts, drawn, claims>>

InsertAddress(r) ==
    /\ pc[r] = "insertAddress"
    /\ InsertRow(r, loc[r].value, TRUE,
                 IF loc[r].kind = "signup" THEN "findDomain"
                 ELSE IF loc[r].kind = "oauth" THEN "linkAccount" ELSE "idle")
    /\ UNCHANGED <<users, links, oauthAccounts, sessions, admin, pendingSignups, asked, origin>>

\* Domain auto-enrolment: the row of a verified domain is read, the membership
\* inserted later; without the account it throws.
FindDomain(r) ==
    /\ pc[r] = "findDomain"
    /\ LET d == domains[DomainOf[loc[r].value]]
       IN IF d # None /\ d.verified
          THEN Continue(r, "enroll", [loc[r] EXCEPT !.ref = d.organization])
          ELSE Continue(r, "openSession", loc[r])
    /\ UNCHANGED <<tables, pendingSignups, drawn, observers>>

Enroll(r) ==
    /\ pc[r] = "enroll"
    /\ IF Exists(loc[r].user)
       THEN /\ memberships' = memberships \cup {<<loc[r].ref, loc[r].user>>}
            /\ Continue(r, "openSession", loc[r])
       ELSE Answer(r) /\ UNCHANGED memberships
    /\ UNCHANGED <<users, contacts, links, oauthAccounts, sessions, domains, restrictions,
                   pendingSignups, drawn, observers>>

\* createSessionForUser, and the insert at the end of verifyToken: both need the
\* account and nothing else of it (nobody locks an account that is just made).
OpenSession(r) ==
    /\ pc[r] = "openSession"
    /\ \/ /\ Exists(loc[r].user)
          /\ \E s \in Fresh(SessionIds) :
               /\ Draw(s)
               /\ sessions' = [sessions EXCEPT ![s] =
                    [owner |-> loc[r].user,
                     via |-> IF loc[r].kind = "signup" THEN origin[loc[r].user] ELSE loc[r].ref]]
       \/ ~Exists(loc[r].user) /\ UNCHANGED <<sessions, drawn>>
    /\ Answer(r)
    /\ UNCHANGED <<users, contacts, links, oauthAccounts, admin, pendingSignups, observers>>
-----------------------------------------------------------------------------
(* Magic links. *)

\* createToken: the row of the address, then the account, then the insert.
CreateLink(r, e) ==
    /\ \E c \in Holding(e) :
        Arrive(r, "findLinkUser", [Idle EXCEPT !.user = contacts[c].owner, !.value = e])
    /\ UNCHANGED <<tables, pendingSignups, drawn, observers>>

FindLinkUser(r) ==
    /\ pc[r] = "findLinkUser"
    /\ IF Exists(loc[r].user) /\ users[loc[r].user].status = "active"
       THEN Continue(r, "insertLink", loc[r])
       ELSE Answer(r)
    /\ UNCHANGED <<tables, pendingSignups, drawn, observers>>

InsertLink(r) ==
    /\ pc[r] = "insertLink"
    /\ \/ /\ Exists(loc[r].user)
          /\ \E t \in Fresh(LinkIds) :
               /\ Draw(t)
               /\ links' = [links EXCEPT ![t] =
                    [owner |-> loc[r].user, status |-> "pending", late |-> FALSE,
                     value |-> loc[r].value]]
       \/ ~Exists(loc[r].user) /\ UNCHANGED <<links, drawn>>
    /\ Answer(r)
    /\ UNCHANGED <<users, contacts, oauthAccounts, sessions, admin, pendingSignups, observers>>

\* Fifteen minutes pass.
LinkGoesLate(t) ==
    /\ links[t] # None
    /\ ~links[t].late
    /\ links' = [links EXCEPT ![t].late = TRUE]
    /\ UNCHANGED <<users, contacts, oauthAccounts, sessions, admin, pendingSignups, drawn,
                   handlers, observers>>

\* Mutant: any link that is there.
VerifyAnyLink(r, t) ==
    /\ links[t] # None
    /\ Arrive(r, IF links[t].late THEN "expireLink" ELSE "acceptLink",
              [Idle EXCEPT !.user = links[t].owner, !.ref = t])
    /\ UNCHANGED <<tables, pendingSignups, drawn, observers>>

\* verifyToken reads the row; what it writes later has no condition.
VerifyLink(r, t) ==
    /\ links[t] # None
    /\ links[t].status = "pending"
    /\ Arrive(r, IF links[t].late THEN "expireLink" ELSE "acceptLink",
              [Idle EXCEPT !.user = links[t].owner, !.ref = t])
    /\ UNCHANGED <<tables, pendingSignups, drawn, observers>>

\* An update of a row that is gone changes nothing.
SettleLink(r, status) ==
    links' = [links EXCEPT ![loc[r].ref] = IF @ = None THEN None ELSE [@ EXCEPT !.status = status]]

ExpireLink(r) ==
    /\ pc[r] = "expireLink"
    /\ SettleLink(r, "expired")
    /\ Answer(r)
    /\ UNCHANGED <<users, contacts, oauthAccounts, sessions, admin, pendingSignups, drawn,
                   observers>>

AcceptLink(r) ==
    /\ pc[r] = "acceptLink"
    /\ SettleLink(r, "accepted")
    /\ Continue(r, "openSession", loc[r])
    /\ UNCHANGED <<users, contacts, oauthAccounts, sessions, admin, pendingSignups, drawn,
                   observers>>
-----------------------------------------------------------------------------
(* OAuth, identities and SCIM. *)

\* findOrCreateUser, once the provider has answered: the account is found by
\* the address alone.
Callback(r, x, e) ==
    /\ IF Taken(e)
       THEN \E c \in Holding(e) :
              Arrive(r, "linkAccount", [Idle EXCEPT !.kind = "oauth", !.value = e, !.ref = x,
                                                    !.user = contacts[c].owner])
       ELSE Arrive(r, "insertUser", [Idle EXCEPT !.kind = "oauth", !.value = e, !.ref = x])
    /\ UNCHANGED <<tables, pendingSignups, drawn, observers>>

\* linkOAuthAccount is the same insert for an account that is signed in.
LinkIdentity(r, u, x, e) ==
    /\ Arrive(r, "linkAccount", [Idle EXCEPT !.value = e, !.ref = x, !.user = u])
    /\ UNCHANGED <<tables, pendingSignups, drawn, observers>>

\* No column but the id is unique: every callback adds a row.
LinkAccount(r) ==
    /\ pc[r] = "linkAccount"
    /\ \/ /\ Exists(loc[r].user)
          /\ \E o \in Fresh(OAuthIds) :
               /\ Draw(o)
               /\ oauthAccounts' = [oauthAccounts EXCEPT ![o] =
                    [owner |-> loc[r].user, subject |-> loc[r].ref, value |-> loc[r].value]]
       \/ ~Exists(loc[r].user) /\ UNCHANGED <<oauthAccounts, drawn>>
    /\ Answer(r)
    /\ UNCHANGED <<users, contacts, links, sessions, admin, pendingSignups, observers>>

UnlinkAccount(u, o) ==
    /\ oauthAccounts[o] # None
    /\ oauthAccounts[o].owner = u
    /\ oauthAccounts' = [oauthAccounts EXCEPT ![o] = None]
    /\ UNCHANGED <<users, contacts, links, sessions, admin, pendingSignups, drawn, handlers,
                   observers>>

ScimCreate(r, e) ==
    /\ Arrive(r, "insertUser", [Idle EXCEPT !.kind = "scim", !.value = e])
    /\ UNCHANGED <<tables, pendingSignups, drawn, observers>>

\* SCIM deletes the row, and the foreign keys what hangs on it.
ScimDelete(u) ==
    /\ Exists(u)
    /\ users' = [users EXCEPT ![u] = None]
    /\ contacts' = Without(contacts, u)
    /\ links' = Without(links, u)
    /\ oauthAccounts' = Without(oauthAccounts, u)
    /\ sessions' = Without(sessions, u)
    /\ memberships' = {m \in memberships : m[2] # u}
    /\ UNCHANGED <<domains, restrictions, pendingSignups, drawn, handlers, observers>>
-----------------------------------------------------------------------------
(* Addresses and numbers of an account. *)

\* The lookup that precedes the insert of v for account u.
AddContact(r, u, v) ==
    /\ ~Taken(v)
    /\ Arrive(r, "insertContact", [Idle EXCEPT !.user = u, !.value = v])
    /\ UNCHANGED <<tables, pendingSignups, drawn, observers>>

AddEmail(r, u, e) == AddContact(r, u, Lower[e])
AddPhoneNumber(r, u, n) == AddContact(r, u, n)

InsertContact(r) ==
    /\ pc[r] = "insertContact"
    /\ InsertRow(r, loc[r].value, FALSE, "idle")
    /\ UNCHANGED <<users, links, oauthAccounts, sessions, admin, pendingSignups, asked, origin>>

\* Found as the account's, deleted by id.
DeleteContact(r, u, c) ==
    /\ contacts[c] # None
    /\ contacts[c].owner = u
    /\ Arrive(r, "deleteRow", [Idle EXCEPT !.user = u, !.ref = c])
    /\ UNCHANGED <<tables, pendingSignups, drawn, observers>>

DeleteEmail(r, u, c) == DeleteContact(r, u, c) /\ contacts[c].value \in Emails
DeletePhoneNumber(r, u, c) == DeleteContact(r, u, c) /\ contacts[c].value \in Phones

DeleteRow(r) ==
    /\ pc[r] = "deleteRow"
    /\ contacts' = [contacts EXCEPT ![loc[r].ref] = None]
    /\ Answer(r)
    /\ UNCHANGED <<users, links, oauthAccounts, sessions, admin, pendingSignups, drawn,
                   observers>>

\* Mutant: forgets whose address it is.
SetPrimaryOfAny(r, u, c) ==
    /\ contacts[c] # None
    /\ contacts[c].value \in Emails /\ contacts[c].verified
    /\ Arrive(r, "writePrimary", [Idle EXCEPT !.user = u, !.ref = c])
    /\ UNCHANGED <<tables, pendingSignups, drawn, observers>>

\* setPrimaryEmail.  setPrimaryPhone, which has no column to write, is no action.
SetPrimary(r, u, c) ==
    /\ contacts[c] # None
    /\ contacts[c].owner = u
    /\ contacts[c].value \in Emails /\ contacts[c].verified
    /\ Arrive(r, "writePrimary", [Idle EXCEPT !.user = u, !.ref = c])
    /\ UNCHANGED <<tables, pendingSignups, drawn, observers>>

UpdateUser(u, row) == users' = [users EXCEPT ![u] = IF @ = None THEN None ELSE row]

WritePrimary(r) ==
    /\ pc[r] = "writePrimary"
    /\ UpdateUser(loc[r].user, [users[loc[r].user] EXCEPT !.primary = loc[r].ref])
    /\ Answer(r)
    /\ UNCHANGED <<contacts, links, oauthAccounts, sessions, admin, pendingSignups, drawn,
                   observers>>
-----------------------------------------------------------------------------
(* Administrators. *)

\* deleteUser: a mark; the rows of the account stay.
SoftDelete(u) ==
    /\ Exists(u)
    /\ users' = [users EXCEPT ![u].deleted = TRUE]
    /\ UNCHANGED <<contacts, links, oauthAccounts, sessions, admin, pendingSignups, drawn,
                   handlers, observers>>

RestoreUser(r, u) ==
    /\ Exists(u) /\ users[u].deleted
    /\ Arrive(r, "writeRestored", [Idle EXCEPT !.user = u])
    /\ UNCHANGED <<tables, pendingSignups, drawn, observers>>

\* Whatever the status was: a ban, too, is over.
WriteRestored(r) ==
    /\ pc[r] = "writeRestored"
    /\ UpdateUser(loc[r].user, [users[loc[r].user] EXCEPT !.deleted = FALSE, !.status = "active"])
    /\ Answer(r)
    /\ UNCHANGED <<contacts, links, oauthAccounts, sessions, admin, pendingSignups, drawn,
                   observers>>

SetStatus(u, status) ==
    /\ Exists(u)
    /\ users' = [users EXCEPT ![u].status = status]
    /\ UNCHANGED <<contacts, links, oauthAccounts, sessions, admin, pendingSignups, drawn,
                   handlers, observers>>

AddRestriction(x) ==
    /\ restrictions' = restrictions \cup {x}
    /\ UNCHANGED <<users, contacts, links, oauthAccounts, sessions, memberships, domains,
                   pendingSignups, drawn, handlers, observers>>

DeleteRestriction(x) ==
    /\ restrictions' = restrictions \ {x}
    /\ loc' = [r \in Requests |-> [loc[r] EXCEPT !.standing = @ \ {x}]]
    /\ UNCHANGED <<users, contacts, links, oauthAccounts, sessions, memberships, domains,
                   pendingSignups, drawn, pc, observers>>

\* addDomain (the column is unique), verifyDomain and deleteDomain, which find
\* the row by its id alone.
AddDomain(o, d) ==
    /\ domains[d] = None
    /\ domains' = [domains EXCEPT ![d] = [organization |-> o, verified |-> FALSE]]
    /\ UNCHANGED <<users, contacts, links, oauthAccounts, sessions, memberships, restrictions,
                   pendingSignups, drawn, handlers, observers>>

VerifyDomain(d) ==
    /\ domains[d] # None
    /\ domains' = [domains EXCEPT ![d].verified = TRUE]
    /\ UNCHANGED <<users, contacts, links, oauthAccounts, sessions, memberships, restrictions,
                   pendingSignups, drawn, handlers, observers>>

DeleteDomain(d) ==
    /\ domains' = [domains EXCEPT ![d] = None]
    /\ UNCHANGED <<users, contacts, links, oauthAccounts, sessions, memberships, restrictions,
                   pendingSignups, drawn, handlers, observers>>

\* The process dies: the store and the requests in flight are gone.
Crash ==
    /\ pendingSignups' = [s \in SignupIds |-> None]
    /\ pc' = [r \in Requests |-> "idle"]
    /\ loc' = [r \in Requests |-> Idle]
    /\ UNCHANGED <<tables, drawn, observers>>
-----------------------------------------------------------------------------

Next ==
    \/ \E s \in SignupIds :
        \/ \E e \in Typed : CreateSignup(s, e)
        \/ ExpireSignup(s)
    \/ \E t \in LinkIds : LinkGoesLate(t)
    \/ \E r \in Requests :
        \/ \E s \in SignupIds : AttemptSignup(r, s)
        \/ CheckSignup(r) \/ InsertUser(r) \/ InsertAddress(r)
        \/ FindDomain(r) \/ Enroll(r) \/ OpenSession(r)
        \/ \E e \in Typed : CreateLink(r, e)
        \/ FindLinkUser(r) \/ InsertLink(r)
        \/ \E t \in LinkIds : VerifyLink(r, t)
        \/ ExpireLink(r) \/ AcceptLink(r)
        \/ \E x \in Subjects, e \in Typed : Callback(r, x, e)
        \/ \E u \in Rows(users), x \in Subjects, e \in Typed : LinkIdentity(r, u, x, e)
        \/ LinkAccount(r)
        \/ \E e \in Typed \cup {None} : ScimCreate(r, e)
        \/ \E u \in Rows(users) :
            \/ \E e \in Typed : AddEmail(r, u, e)
            \/ \E n \in Phones : AddPhoneNumber(r, u, n)
        \/ InsertContact(r)
        \/ \E u \in UserIds, c \in ContactIds :
            DeleteEmail(r, u, c) \/ DeletePhoneNumber(r, u, c) \/ SetPrimary(r, u, c)
        \/ DeleteRow(r) \/ WritePrimary(r)
        \/ \E u \in UserIds : RestoreUser(r, u)
        \/ WriteRestored(r)
    \/ \E u \in UserIds :
        \/ ScimDelete(u) \/ SoftDelete(u)
        \/ \E status \in {"active", "inactive", "banned"} : SetStatus(u, status)
        \/ \E o \in OAuthIds : UnlinkAccount(u, o)
    \/ \E x \in RestrictionPool : AddRestriction(x) \/ DeleteRestriction(x)
    \/ \E d \in Domains :
        \/ \E o \in Organizations : AddDomain(o, d)
        \/ VerifyDomain(d) \/ DeleteDomain(d)
    \/ Crash

Spec == Init /\ [][Next]_vars
-----------------------------------------------------------------------------
(* Properties. *)

TypeOK ==
    /\ users \in [UserIds -> UserRow \cup {None}]
    /\ contacts \in [ContactIds -> Contact \cup {None}]
    /\ links \in [LinkIds -> Link \cup {None}]
    /\ oauthAccounts \in [OAuthIds -> OAuthAccount \cup {None}]
    /\ sessions \in [SessionIds -> Session \cup {None}]
    /\ memberships \subseteq Organizations \X UserIds
    /\ domains \in [Domains -> [organization : Organizations, verified : BOOLEAN] \cup {None}]
    /\ restrictions \subseteq RestrictionPool
    /\ pendingSignups \in [SignupIds -> Emails \cup {None}]
    /\ drawn \subseteq Ids
    /\ pc \in [Requests -> Positions]
    /\ loc \in [Requests -> Locals]
    /\ asked \in [SignupIds -> Emails \cup {None}]
    /\ origin \in [UserIds -> SignupIds \cup {None}]
    /\ claims \subseteq UserIds \X Values

\* One sign-up id becomes at most one account, however many requests bring its
\* code: attemptSignup takes the entry out of the store before its first await.
SignupOnce == \A u, v \in UserIds : origin[u] = origin[v] /\ origin[u] # None => u = v

\* Every session follows from the proof it was given for.  After a sign-up, its
\* account is the one that sign-up created and has held the address the code was
\* sent to; after a magic link, it is the account the link was made for, which
\* has held the address the link was asked for.  Between the proof and the
\* session lie up to six statements of the handler, and anybody else's.
SessionsFollowProof ==
    \A s \in Rows(sessions) :
        LET u == sessions[s].owner  p == sessions[s].via IN
        /\ p \in SignupIds => origin[u] = p /\ <<u, asked[p]>> \in claims
        /\ p \in LinkIds => links[p] # None /\ links[p].owner = u /\ <<u, links[p].value>> \in claims

\* An account that a sign-up creates is for a mailbox that was not blocked all
\* through its request, however the address is spelled, whatever administrators
\* added or removed meanwhile.
BlockedStaysOut ==
    [][\A u \in UserIds : origin'[u] # origin[u] =>
         \E r \in Requests :
            /\ pc[r] = "insertUser" /\ loc[r].ref = origin'[u]
            /\ ~Blocked(loc[r].value, loc[r].standing)]_vars

\* The requests that have found link t usable and are about to open a session.
Using(t) == {r \in Requests : pc[r] \in {"acceptLink", "openSession"} /\ loc[r].ref = t}

\* A link that was used or has expired is never usable again: whoever may still
\* open a session with it had found it pending before.
SettledLinksStaySettled ==
    [][\A t \in LinkIds : links[t] # None /\ links[t].status # "pending" =>
         /\ links'[t] # None => links'[t].status # "pending"
         /\ Using(t)' \subseteq Using(t)]_vars

\* A primary address that still exists is a verified address of that account.
PrimaryIsOwn ==
    \A u \in Rows(users) :
        LET c == users[u].primary IN
        c # None /\ contacts[c] # None =>
            contacts[c].owner = u /\ contacts[c].verified /\ contacts[c].value \in Emails

\* The code implements Directory: an address has one owner although the
\* handlers look for it in one statement and insert it in another.
D == INSTANCE Directory WITH
        used <- drawn \cap UserIds,
        accounts <- Rows(users),
        owned <- {<<contacts[c].value, contacts[c].owner>> : c \in Rows(contacts)},
        opened <- {<<s, sessions[s].owner>> : s \in Rows(sessions)}
ImplementsDirectory == D!Spec

\* openapi/blerp.v1.yaml: a soft-deleted user "cannot authenticate".  A request
\* that brings such a user's link is not turned away.
DeletedCannotAuthenticate ==
    [][\A r \in Requests : pc[r] = "idle" /\ pc'[r] = "acceptLink" =>
         ~users[loc'[r].user].deleted]_vars
=============================================================================
