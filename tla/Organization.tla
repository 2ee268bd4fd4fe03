---------------------------- MODULE Organization ----------------------------
(***************************************************************************)
(* Organisations, their members and their custom roles: the gate every     *)
(* organisation-scoped request passes (authMiddleware, requirePermission,  *)
(* requireProjectAccess) and the handlers behind it (MembershipService,    *)
(* RoleService, createOrganization, deleteOrganization), with the          *)
(* membership a sign-up from a verified domain brings.                     *)
(*                                                                         *)
(* A request is a handler that runs once; every SQL statement is a step.   *)
(* The gate reads the caller's membership in one statement and, for a      *)
(* custom role, its permissions by NAME in a second one; the services read *)
(* a row in one statement and write it by id in a later one.               *)
(*                                                                         *)
(* Of the six permissions the two that gate a change of these tables are   *)
(* kept; `perms` of a role is its share of those two.                      *)
(***************************************************************************)
EXTENDS Naturals, FiniteSets

CONSTANTS
    Users,           \* accounts, those who sign up later included
    Keys,            \* M2M tokens and secret keys
    Orgs,            \* `org_${nanoid()}`
    Projects,
    Requests,        \* HTTP requests; a request is also the id of the row it inserts
    SeedIds,         \* ids of the rows that are there at the start
    CustomNames,     \* names a custom role can have
    PermSets,        \* what a caller can set as the permissions of a role
    ProjectOf,       \* organizations.project_id
    ProjectOwner,    \* projects.owner_user_id
    KeyProject,      \* req.m2m.projectId of a key
    KeyScopes,       \* req.m2m.scopes of a key
    TenantRoot,      \* the keys for which isTenantRootM2M holds
    InitUsers, InitOrgs, InitMemberships, InitRoles,
    None

Permissions == {"org:write", "members:write"}
DefaultRoles == {"owner", "admin", "member"}
Names == DefaultRoles \cup CustomNames
RowIds == Requests \cup SeedIds
Callers == Users \cup Keys

Membership == [id : RowIds, org : Orgs, user : Users, role : Names]
CustomRole == [id : RowIds, org : Orgs, name : Names, perms : SUBSET Permissions]

ASSUME NoneAssumption ==
    /\ None \notin RowIds \cup Names \cup Callers
    /\ \A perms \in SUBSET Permissions : None # perms
ASSUME DistinctAssumption ==
    /\ Users \cap Keys = {}
    /\ CustomNames \cap DefaultRoles = {}
    /\ SeedIds \cap Requests = {}
ASSUME ScopesAssumption ==
    /\ PermSets \subseteq SUBSET Permissions
    /\ KeyScopes \in [Keys -> SUBSET Permissions]
    /\ KeyProject \in [Keys -> Projects]
    /\ ProjectOf \in [Orgs -> Projects]
    /\ ProjectOwner \in [Projects -> Users]
    /\ TenantRoot \subseteq Keys
ASSUME InitAssumption ==
    /\ InitUsers \subseteq Users
    /\ InitOrgs \subseteq Orgs
    /\ InitMemberships \subseteq
         [id : SeedIds, org : InitOrgs, user : InitUsers, role : Names]
    /\ InitRoles \subseteq
         [id : SeedIds, org : InitOrgs, name : Names, perms : SUBSET Permissions]
    /\ \A m, n \in InitMemberships : m.id = n.id => m = n
    /\ \A p, q \in InitRoles : p.id = q.id => p = q
    /\ IsFiniteSet(InitMemberships)

VARIABLES
    users,           \* the accounts that exist
    organizations,   \* per id: not created yet, live, or deleted
    memberships,     \* the memberships table; nothing makes (org, user) unique
    customRoles,     \* the custom_roles table; nothing makes (org, name) unique
    pc,              \* where each request is
    loc,             \* the variables of each request's handler
    calm             \* observer: the requests since whose first read of a row
                     \* nothing was written in their organisation

vars == <<users, organizations, memberships, customRoles, pc, loc, calm>>
tables == <<users, organizations, memberships, customRoles>>

Operations ==
    {"createMembership", "updateMembership", "deleteMembership", "leaveOrganization",
     "createRole", "updateRole", "deleteRole", "deleteOrganization",
     "createOrganization", "signUp"}

\* The request's route and parameters: `target` is a row or a user, `name` a
\* role, None where the request has no such part.  `role` is the role name the
\* handler read: the caller's at the gate, in deleteRole that of the role.
Locals == [op : Operations, caller : Callers, org : Orgs, target : RowIds \cup Users \cup {None},
           name : Names \cup {None}, perms : PermSets \cup {None},
           role : Names \cup {None}]

ASSUME NoneIsNoRecord == None \notin Locals
-----------------------------------------------------------------------------
(* Roles and permissions *)

\* ROLE_PERMISSIONS
DefaultPermissions == [owner |-> {"org:write", "members:write"},
                       admin |-> {"members:write"},
                       member |-> {}]

\* The rows findFirst chooses from; it has no ORDER BY.
RolesNamed(o, name) == {p \in customRoles : p.org = o /\ p.name = name}

\* The permission sets that hasPermission or resolvePermissions can come to.
Resolved(o, name) ==
    IF name \in DefaultRoles THEN {DefaultPermissions[name]}
    ELSE IF RolesNamed(o, name) = {} THEN {{}}
    ELSE {p.perms : p \in RolesNamed(o, name)}

MembershipsOf(u, o) == {m \in memberships : m.org = o /\ m.user = u}
OwnersOf(o) == {m \in memberships : m.org = o /\ m.role = "owner"}

\* The permission the route of an operation demands.
Needed(op) ==
    IF op \in {"createMembership", "updateMembership", "deleteMembership"}
    THEN "members:write" ELSE "org:write"

\* The first statement of the handler behind the gate.
FirstStatement ==
    [createMembership |-> "insertMembership", updateMembership |-> "findMembership",
     deleteMembership |-> "findMembership",   leaveOrganization |-> "findOwnMembership",
     createRole |-> "insertRole",             updateRole |-> "findRole",
     deleteRole |-> "findRole",               deleteOrganization |-> "deleteOrganization",
     createOrganization |-> "insertOrganization"]
-----------------------------------------------------------------------------
(* What the handlers share *)

Continue(r, p, l) ==
    /\ pc' = [pc EXCEPT ![r] = p]
    /\ loc' = [loc EXCEPT ![r] = l]

\* The request is answered, whatever the answer.
End(r) == Continue(r, "over", None)

Refuse(r) ==
    /\ End(r)
    /\ calm' = calm \ {r}

\* The last statement of a handler, which writes in organisation o.
Written(r, o) ==
    /\ End(r)
    /\ calm' = {s \in calm : loc[s].org # o}

\* A read that the handler goes on from.
Goes(r, p, l) ==
    /\ Continue(r, p, l)
    /\ UNCHANGED calm

Init ==
    /\ users = InitUsers
    /\ organizations = [o \in Orgs |-> IF o \in InitOrgs THEN "live" ELSE "unused"]
    /\ memberships = InitMemberships
    /\ customRoles = InitRoles
    /\ pc = [r \in Requests |-> "new"]
    /\ loc = [r \in Requests |-> None]
    /\ calm = {}
-----------------------------------------------------------------------------
(* The gate *)

\* The requests a client can send to an organisation's routes.
Calls ==
    LET Call(op, targets, names, perms) ==
          [op : {op}, caller : users \cup Keys,
           org : {o \in Orgs : organizations[o] # "unused"},
           target : targets, name : names, perms : perms, role : {None}]
        members == {m.id : m \in memberships}
        roles == {p.id : p \in customRoles}
    IN  Call("createMembership", Users, Names, {None})
          \cup Call("updateMembership", members, Names, {None})
          \cup Call("deleteMembership", members, {None}, {None})
          \cup Call("leaveOrganization", {None}, {None}, {None})
          \cup Call("createRole", {None}, Names, PermSets)
          \cup Call("updateRole", roles, Names \cup {None}, PermSets \cup {None})
          \cup Call("deleteRole", roles, {None}, {None})
          \cup Call("deleteOrganization", {None}, {None}, {None})

\* authMiddleware reads the membership of a session's user in the path's
\* organisation; requirePermission decides at once for a default role, and
\* needs another read for a custom one.  Leaving is gated by the session alone.
AuthenticateUser(r, call) ==
    LET rows == MembershipsOf(call.caller, call.org)
        allowed == Continue(r, FirstStatement[call.op], call)
    IN  /\ pc[r] = "new"
        /\ call.caller \in Users
        /\ \/ call.op = "leaveOrganization" /\ allowed
           \/ /\ call.op # "leaveOrganization"
              /\ rows = {}
              /\ End(r)
           \/ \E m \in rows :
                /\ call.op # "leaveOrganization"
                /\ \/ /\ m.role \in DefaultRoles
                      /\ Needed(call.op) \in DefaultPermissions[m.role]
                      /\ allowed
                   \/ /\ m.role \in DefaultRoles
                      /\ Needed(call.op) \notin DefaultPermissions[m.role]
                      /\ End(r)
                   \/ /\ m.role \notin DefaultRoles
                      /\ Continue(r, "resolvePermissions", [call EXCEPT !.role = m.role])
        /\ UNCHANGED <<tables, calm>>

\* A key has no membership: its scopes decide, and its project unless it is
\* tenant-root.  It cannot leave, being nobody.
AuthenticateKey(r, call) ==
    /\ pc[r] = "new"
    /\ call.caller \in Keys
    /\ \/ /\ call.op = "leaveOrganization" \/ Needed(call.op) \notin KeyScopes[call.caller]
          /\ End(r)
       \/ /\ call.op # "leaveOrganization"
          /\ Needed(call.op) \in KeyScopes[call.caller]
          /\ Continue(r, IF call.caller \in TenantRoot THEN FirstStatement[call.op]
                         ELSE "checkProject", call)
    /\ UNCHANGED <<tables, calm>>

CheckProject(r) ==
    LET o == loc[r].org
    IN  /\ pc[r] = "checkProject"
        /\ \/ /\ organizations[o] = "live"
              /\ ProjectOf[o] = KeyProject[loc[r].caller]
              /\ Goes(r, FirstStatement[loc[r].op], loc[r])
           \/ /\ organizations[o] # "live" \/ ProjectOf[o] # KeyProject[loc[r].caller]
              /\ Refuse(r)
        /\ UNCHANGED tables

\* Mutant: the role is looked up by its name in every organisation.
ResolvePermissionsAnywhere(r) ==
    /\ pc[r] = "resolvePermissions"
    /\ \/ /\ \E p \in customRoles : p.name = loc[r].role /\ Needed(loc[r].op) \in p.perms
          /\ Goes(r, FirstStatement[loc[r].op], loc[r])
       \/ Refuse(r)
    /\ UNCHANGED tables

\* resolvePermissions, by the name that the membership had.
ResolvePermissions(r) ==
    /\ pc[r] = "resolvePermissions"
    /\ \E perms \in Resolved(loc[r].org, loc[r].role) :
         \/ /\ Needed(loc[r].op) \in perms
            /\ Goes(r, FirstStatement[loc[r].op], loc[r])
         \/ Needed(loc[r].op) \notin perms /\ Refuse(r)
    /\ UNCHANGED tables
-----------------------------------------------------------------------------
(* MembershipService *)

\* Mutant: the insert does not look whether the organisation is still there.
InsertMembershipUnchecked(r) ==
    LET l == loc[r]
    IN  /\ pc[r] = "insertMembership"
        /\ memberships' = memberships \cup
             {[id |-> r, org |-> l.org, user |-> l.target, role |-> l.name]}
        /\ Written(r, l.org)
        /\ UNCHANGED <<users, organizations, customRoles>>

\* create: any role name, and any number of rows for one user; the foreign keys
\* are all that is checked.
InsertMembership(r) ==
    LET l == loc[r]
    IN  /\ pc[r] = "insertMembership"
        /\ \/ /\ organizations[l.org] = "live" /\ l.target \in users
              /\ memberships' = memberships \cup
                   {[id |-> r, org |-> l.org, user |-> l.target, role |-> l.name]}
              /\ Written(r, l.org)
           \/ /\ organizations[l.org] # "live" \/ l.target \notin users
              /\ Refuse(r)
              /\ UNCHANGED memberships
        /\ UNCHANGED <<users, organizations, customRoles>>

\* Mutant: the row is found by its id alone.
FindMembershipById(r) ==
    /\ pc[r] = "findMembership"
    /\ \/ /\ \E m \in memberships : m.id = loc[r].target
          /\ Continue(r, "writeMembership", loc[r])
          /\ calm' = calm \cup {r}
       \/ /\ \A m \in memberships : m.id # loc[r].target
          /\ Refuse(r)
    /\ UNCHANGED tables

\* updateInOrg and deleteInOrg: the row of the path's organisation with the id.
FindMembership(r) ==
    LET found == \E m \in memberships : m.id = loc[r].target /\ m.org = loc[r].org
    IN  /\ pc[r] = "findMembership"
        /\ \/ /\ found
              /\ Continue(r, "writeMembership", loc[r])
              /\ calm' = calm \cup {r}
           \/ ~found /\ Refuse(r)
        /\ UNCHANGED tables

\* ... and the UPDATE or DELETE by the id alone.
WriteMembership(r) ==
    LET l == loc[r]
    IN  /\ pc[r] = "writeMembership"
        /\ \/ /\ l.op = "updateMembership"
              /\ memberships' =
                   {IF m.id = l.target THEN [m EXCEPT !.role = l.name] ELSE m :
                      m \in memberships}
           \/ /\ l.op = "deleteMembership"
              /\ memberships' = {m \in memberships : m.id # l.target}
        /\ Written(r, l.org)
        /\ UNCHANGED <<users, organizations, customRoles>>

\* leaveOrganization: an owner has to count the owners first.
FindOwnMembership(r) ==
    LET rows == MembershipsOf(loc[r].caller, loc[r].org)
    IN  /\ pc[r] = "findOwnMembership"
        /\ \/ \E m \in rows :
                /\ Continue(r, IF m.role = "owner" THEN "countOwners" ELSE "deleteOwnMembership",
                            [loc[r] EXCEPT !.target = m.id])
                /\ calm' = calm \cup {r}
           \/ rows = {} /\ Refuse(r)
        /\ UNCHANGED tables

\* Mutant: the bound is off by one.
CountOwnersLate(r) ==
    LET owners == Cardinality(OwnersOf(loc[r].org))
    IN  /\ pc[r] = "countOwners"
        /\ \/ owners < 1 /\ Refuse(r)
           \/ owners >= 1 /\ Goes(r, "deleteOwnMembership", loc[r])
        /\ UNCHANGED tables

CountOwners(r) ==
    LET owners == Cardinality(OwnersOf(loc[r].org))
    IN  /\ pc[r] = "countOwners"
        /\ \/ owners <= 1 /\ Refuse(r)
           \/ owners > 1 /\ Goes(r, "deleteOwnMembership", loc[r])
        /\ UNCHANGED tables

DeleteOwnMembership(r) ==
    /\ pc[r] = "deleteOwnMembership"
    /\ memberships' = {m \in memberships : m.id # loc[r].target}
    /\ Written(r, loc[r].org)
    /\ UNCHANGED <<users, organizations, customRoles>>
-----------------------------------------------------------------------------
(* RoleService *)

InsertRole(r) ==
    LET l == loc[r]
    IN  /\ pc[r] = "insertRole"
        /\ \/ /\ organizations[l.org] = "live"
              /\ customRoles' = customRoles \cup
                   {[id |-> r, org |-> l.org, name |-> l.name, perms |-> l.perms]}
              /\ Written(r, l.org)
           \/ /\ organizations[l.org] # "live"
              /\ Refuse(r)
              /\ UNCHANGED customRoles
        /\ UNCHANGED <<users, organizations, memberships>>

\* update and delete: the role of the path's organisation with the id.
FindRole(r) ==
    LET rows == {p \in customRoles : p.id = loc[r].target /\ p.org = loc[r].org}
    IN  /\ pc[r] = "findRole"
        /\ \/ \E p \in rows :
                /\ Continue(r, IF loc[r].op = "updateRole" THEN "writeRole" ELSE "checkMembers",
                            [loc[r] EXCEPT !.role = p.name])
                /\ calm' = calm \cup {r}
           \/ rows = {} /\ Refuse(r)
        /\ UNCHANGED tables

\* update: a new name moves none of the members who carry the old one.
WriteRole(r) ==
    LET l == loc[r]
        Rewritten(p) == [p EXCEPT !.name = IF l.name = None THEN @ ELSE l.name,
                                  !.perms = IF l.perms = None THEN @ ELSE l.perms]
    IN  /\ pc[r] = "writeRole"
        /\ customRoles' = {IF p.id = l.target THEN Rewritten(p) ELSE p : p \in customRoles}
        /\ Written(r, l.org)
        /\ UNCHANGED <<users, organizations, memberships>>

\* Mutant: nobody looks whether members carry the role.
CheckMembersNever(r) ==
    /\ pc[r] = "checkMembers"
    /\ Goes(r, "deleteRole", loc[r])
    /\ UNCHANGED tables

\* delete: refused while members carry the name the role had when it was read.
CheckMembers(r) ==
    LET assigned == \E m \in memberships : m.org = loc[r].org /\ m.role = loc[r].role
    IN  /\ pc[r] = "checkMembers"
        /\ \/ assigned /\ Refuse(r)
           \/ ~assigned /\ Goes(r, "deleteRole", loc[r])
        /\ UNCHANGED tables

DeleteRole(r) ==
    /\ pc[r] = "deleteRole"
    /\ customRoles' = {p \in customRoles : p.id # loc[r].target}
    /\ Written(r, loc[r].org)
    /\ UNCHANGED <<users, organizations, memberships>>
-----------------------------------------------------------------------------
(* Organisations *)

\* deleteOrganization; the foreign keys cascade.
DeleteOrganization(r) ==
    LET o == loc[r].org
    IN  /\ pc[r] = "deleteOrganization"
        /\ organizations' = [organizations EXCEPT
                               ![o] = IF @ = "live" THEN "deleted" ELSE @]
        /\ memberships' = {m \in memberships : m.org # o}
        /\ customRoles' = {p \in customRoles : p.org # o}
        /\ Written(r, o)
        /\ UNCHANGED users

\* requireProjectAccess on POST /organizations: the project's owner, or a key of
\* the project (or tenant-root) with org:write.  `o` is the id the service will
\* draw, which nobody else has.
RequestOrganization(r, c, o) ==
    LET allowed == \/ c \in Users /\ ProjectOwner[ProjectOf[o]] = c
                   \/ /\ c \in Keys
                      /\ c \in TenantRoot \/ KeyProject[c] = ProjectOf[o]
                      /\ "org:write" \in KeyScopes[c]
    IN  /\ pc[r] = "new"
        /\ c \in users \cup Keys
        /\ organizations[o] = "unused"
        /\ \A s \in Requests : loc[s] # None => loc[s].org # o
        /\ \/ /\ allowed
              /\ Continue(r, "insertOrganization",
                          [op |-> "createOrganization", caller |-> c, org |-> o,
                           target |-> None, name |-> None, perms |-> None, role |-> None])
           \/ ~allowed /\ End(r)
        /\ UNCHANGED <<tables, calm>>

\* A key gets no membership.
InsertOrganization(r) ==
    LET o == loc[r].org
    IN  /\ pc[r] = "insertOrganization"
        /\ organizations' = [organizations EXCEPT ![o] = "live"]
        /\ \/ loc[r].caller \in Users /\ Goes(r, "insertOwner", loc[r])
           \/ loc[r].caller \in Keys /\ Written(r, o)
        /\ UNCHANGED <<users, memberships, customRoles>>

\* The creator's membership is a statement of its own, after the event.
InsertOwner(r) ==
    LET o == loc[r].org
    IN  /\ pc[r] = "insertOwner"
        /\ \/ /\ organizations[o] = "live"
              /\ memberships' = memberships \cup
                   {[id |-> r, org |-> o, user |-> loc[r].caller, role |-> "owner"]}
              /\ Written(r, o)
           \/ /\ organizations[o] # "live"
              /\ Refuse(r)
              /\ UNCHANGED memberships
        /\ UNCHANGED <<users, organizations, customRoles>>

\* attemptSignup: a new account, and the organisation that has verified the
\* domain of its address, if there is one (the inserts of the account and the
\* lookup of the domain are one step: only this request knows the new id) ...
SignUp(r, u) ==
    /\ pc[r] = "new"
    /\ u \notin users
    /\ users' = users \cup {u}
    /\ \/ End(r)
       \/ \E o \in Orgs :
            /\ organizations[o] = "live"
            /\ Continue(r, "enroll",
                        [op |-> "signUp", caller |-> u, org |-> o, target |-> None,
                         name |-> None, perms |-> None, role |-> None])
    /\ UNCHANGED <<organizations, memberships, customRoles, calm>>

\* ... which the account becomes a member of, unless it is gone by then.
Enroll(r) ==
    LET o == loc[r].org
    IN  /\ pc[r] = "enroll"
        /\ \/ /\ organizations[o] = "live"
              /\ memberships' = memberships \cup
                   {[id |-> r, org |-> o, user |-> loc[r].caller, role |-> "member"]}
              /\ Written(r, o)
           \/ /\ organizations[o] # "live"
              /\ Refuse(r)
              /\ UNCHANGED memberships
        /\ UNCHANGED <<users, organizations, customRoles>>

\* The process dies: the requests in flight are lost where they are.
Crash ==
    /\ \E r \in Requests : loc[r] # None
    /\ pc' = [r \in Requests |-> IF loc[r] # None THEN "over" ELSE pc[r]]
    /\ loc' = [r \in Requests |-> None]
    /\ calm' = {}
    /\ UNCHANGED tables
-----------------------------------------------------------------------------
Gate(r) ==
    \/ \E call \in Calls : AuthenticateUser(r, call) \/ AuthenticateKey(r, call)
    \/ \E c \in Callers, o \in Orgs : RequestOrganization(r, c, o)
    \/ CheckProject(r)
    \/ ResolvePermissions(r)

Members(r) ==
    \/ InsertMembership(r)
    \/ FindMembership(r)
    \/ WriteMembership(r)
    \/ FindOwnMembership(r)
    \/ CountOwners(r)
    \/ DeleteOwnMembership(r)

Roles(r) ==
    \/ InsertRole(r)
    \/ FindRole(r)
    \/ WriteRole(r)
    \/ CheckMembers(r)
    \/ DeleteRole(r)

Organizations(r) ==
    \/ InsertOrganization(r)
    \/ InsertOwner(r)
    \/ DeleteOrganization(r)
    \/ \E u \in Users : SignUp(r, u)
    \/ Enroll(r)

Next ==
    \/ \E r \in Requests : Gate(r) \/ Members(r) \/ Roles(r) \/ Organizations(r)
    \/ Crash

Spec == Init /\ [][Next]_vars
-----------------------------------------------------------------------------
(* Properties *)

Statements == {FirstStatement[op] : op \in DOMAIN FirstStatement} \cup
    {"writeMembership", "countOwners", "deleteOwnMembership", "writeRole",
     "checkMembers", "deleteRole", "insertOwner"}
InFlight == Statements \cup {"checkProject", "resolvePermissions", "enroll"}

\* The state of the program: the tables hold rows of their schema, and exactly
\* the requests in flight have variables.
TypeOK ==
    /\ users \subseteq Users
    /\ organizations \in [Orgs -> {"unused", "live", "deleted"}]
    /\ memberships \subseteq Membership
    /\ customRoles \subseteq CustomRole
    /\ pc \in [Requests -> InFlight \cup {"new", "over"}]
    /\ loc \in [Requests -> Locals \cup {None}]
    /\ \A r \in Requests : loc[r] # None <=> pc[r] \in InFlight
    /\ calm \subseteq {r \in Requests : loc[r] # None}

\* A membership or a role belongs to an organisation that exists, whenever the
\* organisation is deleted: the inserts of MembershipService and RoleService run
\* long after the gate that saw the organisation.
RowsHaveOrganization ==
    /\ \A m \in memberships : organizations[m.org] = "live"
    /\ \A p \in customRoles : organizations[p.org] = "live"

RowsOf(o) == <<{m \in memberships : m.org = o}, {p \in customRoles : p.org = o}>>

\* A request changes the members and the roles of the organisation in its path
\* only, although updateInOrg, deleteInOrg and RoleService write by id alone; and
\* leaving removes nobody else.
WritesStayInOrganization ==
    [][\A r \in Requests : pc'[r] # pc[r] =>
         /\ \A o \in Orgs : loc[r] = None \/ loc[r].org # o => RowsOf(o)' = RowsOf(o)
         /\ pc[r] = "deleteOwnMembership" =>
              \A m \in memberships \ memberships' : m.user = loc[r].caller]_vars

\* The requests that have passed the gate of organisation o to change it.
LetIn(o) == {r \in Requests :
    /\ loc[r] # None
    /\ loc[r].org = o
    /\ loc[r].op # "leaveOrganization"
    /\ pc[r] \in Statements}

\* Somebody may change organisation o: a member by the role they have, a caller
\* whose role was read and not resolved yet, a request behind the gate, or a key.
Authority(o) ==
    \/ \E m \in memberships : m.org = o /\ UNION Resolved(o, m.role) # {}
    \/ \E r \in Requests :
         /\ pc[r] = "resolvePermissions"
         /\ loc[r].org = o
         /\ UNION Resolved(o, loc[r].role) # {}
    \/ LetIn(o) # {}
    \/ \E k \in Keys : /\ KeyScopes[k] # {}
                       /\ k \in TenantRoot \/ KeyProject[k] = ProjectOf[o]

\* Authority over an organisation comes from authority over it: when nobody may
\* change it, no sequence of requests to it or to other organisations, no
\* sign-up, no role of the same name elsewhere and no key of another project
\* ever gives anybody the right (requirePermission, resolvePermissions).
AuthorityComesFromAuthority ==
    [][\A o \in Orgs :
         organizations[o] = "live" /\ ~Authority(o) => ~Authority(o)']_vars

\* Request r ends a leave of organisation o.
Leaves(r, o) ==
    pc[r] = "deleteOwnMembership" /\ pc'[r] = "over" /\ loc[r].org = o

\* A leave in whose organisation nothing was written since its first read leaves
\* an owner behind (leaveOrganization).
CalmLeaveKeepsOwner ==
    [][\A r \in Requests, o \in Orgs :
         Leaves(r, o) /\ r \in calm /\ OwnersOf(o) # {} => OwnersOf(o)' # {}]_vars

\* The members of o whose role is neither a default one nor a row.
Stranded(o) == {m \in memberships : m.org = o /\ m.role \notin DefaultRoles
                                    /\ RolesNamed(o, m.role) = {}}

\* A deletion of a role in whose organisation nothing was written since its
\* first read leaves no member with a name that means nothing (RoleService.delete).
CalmDeleteStrandsNobody ==
    [][\A r \in Requests, o \in Orgs :
         pc[r] = "deleteRole" /\ pc'[r] = "over" /\ loc[r].org = o /\ r \in calm =>
           Stranded(o)' \subseteq Stranded(o)]_vars
=============================================================================
