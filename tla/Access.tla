------------------------------- MODULE Access -------------------------------
(* Who may do what in a tenant, in production: the bearers a request may    *)
(* present (secret keys, access tokens of machine clients, sessions), the   *)
(* gates in front of the routes, and the operations on projects, API keys   *)
(* and machine clients.  Every tenant has a database of its own; one server *)
(* process interleaves its requests wherever they await.                    *)
EXTENDS Naturals, FiniteSets

CONSTANTS Requests, Projects, Tenants, Users, None,
          Gone,        \* stands for a deleted row: ids are not used again
          Home,        \* the tenant of each project
          Owner,       \* the owner of each project
          Account,     \* the tenant that each user has an account in
          KeyIds,      \* bound: API keys ever made
          ClientIds,   \* bound: machine clients ever made
          Asked,       \* bound: the sets of scopes that are asked for
          MaxRotations,\* bound: values of one key
          MaxArrivals  \* bound: requests

ASSUME AccessAssumption ==
    /\ Home \in [Projects -> Tenants] /\ Owner \in [Projects -> Users]
    /\ Account \in [Users -> Tenants]
    /\ \A p \in Projects : Account[Owner[p]] = Home[p]
    /\ MaxRotations \in Nat /\ MaxArrivals \in Nat
    /\ {None, Gone} \cap UNION {Projects, Users, Tenants, KeyIds, ClientIds} = {}

VARIABLES
    projects,      \* the rows of projects
    apiKeys,       \* the rows of api_keys: project, type, value, status
    m2mTokens,     \* the rows of m2m_tokens: project, scopes
    accessTokens,  \* the access tokens that have not expired
    requests, arrivals,
    keyed,         \* observer: the tenants that have had a secret key
    retired        \* observer: values of keys that were replaced or revoked

vars == <<projects, apiKeys, m2mTokens, accessTokens, requests, arrivals, keyed, retired>>
rows == <<projects, apiKeys, m2mTokens>>

---------------------------------------------------------------------------
(* Scopes.  Many scopes are alike for the gates; the model has one of each. *)

TENANT_ROOT_ADMIN_SCOPES == {"users:admin"}
Privileged == TENANT_ROOT_ADMIN_SCOPES \cup {"users:write"}
SecretKeyScopes == Privileged \cup {"projects:write", "api_keys:write", "webhooks:read"}
Scopes == SecretKeyScopes

ASSUME AskedAssumption == Asked \subseteq SUBSET Scopes

---------------------------------------------------------------------------
(* Rows, bearers and requests. *)

KeyRow == [project : Projects, type : {"secret", "publishable"}, value : Nat, status : {"active", "revoked"}]
ClientRow == [project : Projects, scopes : SUBSET Scopes]

Bearer == [kind : {"key"}, id : KeyIds, value : Nat]
          \cup [kind : {"token"}, id : ClientIds, project : Projects, tenant : Tenants, scopes : SUBSET Scopes]
          \cup [kind : {"session"}, user : Users, tenant : Tenants]

Request ==
    [op      : {"createApiKey", "rotateApiKey", "revokeApiKey", "deleteProject", "createM2MToken",
                "revokeM2MToken", "exchange", "strict", "tenantWide", "user"},
     step    : {"gate", "find", "handle", "write", "owns", "sign", "served"},
     as      : Bearer \cup {None},
     tenant  : Tenants,
     project : Projects \cup {None},
     target  : KeyIds \cup ClientIds \cup Users \cup {"secret", "publishable", None},
     scopes  : SUBSET Scopes]

ASSUME NoneIsNoRecord ==
    /\ None # Gone
    /\ None \notin KeyRow \cup ClientRow \cup Request
    /\ Gone \notin KeyRow \cup ClientRow

---------------------------------------------------------------------------
(* Bearers. *)

SecretKey(k, n) == [kind |-> "key", id |-> k, value |-> n]
AccessToken(c, p, t, s) == [kind |-> "token", id |-> c, project |-> p, tenant |-> t, scopes |-> s]
Session(u) == [kind |-> "session", user |-> u, tenant |-> Account[u]]

IsM2M(as) == as.kind \in {"key", "token"}
ScopesOf(as) == IF as.kind = "key" THEN SecretKeyScopes ELSE as.scopes
TenantOf(as) == IF as.kind = "key" THEN Home[apiKeys[as.id].project] ELSE as.tenant
ProjectOf(as) == IF as.kind = "key" THEN apiKeys[as.id].project ELSE as.project

HasValue(k, n) ==
    /\ apiKeys[k] # None
    /\ apiKeys[k].value = n /\ apiKeys[k].type = "secret" /\ apiKeys[k].status = "active"

\* The key is looked up in the database of the tenant that the request names,
\* and a token without any scope is no machine's.
authMiddleware(as, t) ==
    \/ as.kind = "key" /\ HasValue(as.id, as.value) /\ Home[apiKeys[as.id].project] = t
    \/ as.kind = "token" /\ as \in accessTokens /\ as.scopes # {} /\ as.tenant = t
    \/ as.kind = "session" /\ as.tenant = t

\* Everything ever handed out is presented.
Bearers ==
    (UNION {{SecretKey(k, n) : n \in 1..apiKeys[k].value} : k \in {i \in KeyIds : apiKeys[i] # None}})
    \cup accessTokens
    \cup {Session(u) : u \in Users}

---------------------------------------------------------------------------
(* Gates. *)

isTenantRootM2M(as) == as.kind = "key" \/ ScopesOf(as) \cap TENANT_ROOT_ADMIN_SCOPES # {}

Stored(p, t) == p \in projects /\ Home[p] = t

\* Authority over one project.
assertProjectOwnerOrM2M(q, p) ==
    \/ IsM2M(q.as) /\ (isTenantRootM2M(q.as) \/ ProjectOf(q.as) = p)
    \/ ~IsM2M(q.as) /\ Stored(p, q.tenant) /\ Owner[p] = q.as.user

RequiredScope == [createApiKey |-> "api_keys:write", rotateApiKey |-> "api_keys:write",
                  revokeApiKey |-> "api_keys:write", deleteProject |-> "projects:write"]

requireProjectAccess(q) ==
    /\ assertProjectOwnerOrM2M(q, q.project)
    /\ IsM2M(q.as) => RequiredScope[q.op] \in ScopesOf(q.as)

\* What a session grants is not looked at.
MayGrantAnything(as, scopes) == IsM2M(as) => scopes \subseteq ScopesOf(as)

\* Scopes only flow down: a machine grants what it has, a session what is
\* neither tenant-wide nor ":admin".
MayGrant(as, scopes) == IF IsM2M(as) THEN scopes \subseteq ScopesOf(as) ELSE scopes \cap Privileged = {}

PassCreateClient(q) == assertProjectOwnerOrM2M(q, q.project) /\ MayGrant(q.as, q.scopes)
PassRevokeClient(q) == /\ assertProjectOwnerOrM2M(q, q.project)
                       /\ IsM2M(q.as) => q.scopes \subseteq ScopesOf(q.as)

requireM2M(q) == IsM2M(q.as) /\ q.scopes \subseteq ScopesOf(q.as)

\* isSessionTenantAdmin: the user owns every project of the tenant, says the
\* first query, and one at least, says the second.
OwnsSome(q) == \E p \in projects : Home[p] = q.tenant /\ Owner[p] = q.as.user
OwnsAll(q) == \A p \in projects : Home[p] = q.tenant => Owner[p] = q.as.user

IsSelf(q) == q.op = "user" /\ q.as.kind = "session" /\ q.as.user = q.target

\* requireScopeOrTenantAdmin, and requireSelfOrM2M, which also lets the user
\* pass.
PassTenantGate(q) == IF IsM2M(q.as) THEN q.scopes \subseteq ScopesOf(q.as) ELSE IsSelf(q) \/ OwnsAll(q)

Gate(q) ==
    CASE q.op \in DOMAIN RequiredScope -> requireProjectAccess(q)
      [] q.op = "createM2MToken" -> PassCreateClient(q)
      [] q.op = "revokeM2MToken" -> PassRevokeClient(q)
      [] q.op = "strict" -> requireM2M(q)
      [] q.op \in {"tenantWide", "user"} -> PassTenantGate(q)

\* What comes after the gate.
After(q) ==
    IF q.op \notin {"strict", "tenantWide", "user"} THEN "handle"
    ELSE IF q.op = "strict" \/ IsM2M(q.as) \/ IsSelf(q) THEN "served" ELSE "owns"

---------------------------------------------------------------------------
Init ==
    /\ projects = Projects
    /\ apiKeys = [k \in KeyIds |-> None]
    /\ m2mTokens = [c \in ClientIds |-> None]
    /\ accessTokens = {}
    /\ requests = [r \in Requests |-> None] /\ arrivals = 0
    /\ keyed = {} /\ retired = {}

\* A request passes authMiddleware; a machine's passes the gate at once,
\* which reads nothing more.
Arrive(r, as, ask) ==
    /\ requests[r] = None /\ arrivals < MaxArrivals /\ arrivals' = arrivals + 1
    /\ \E t \in Tenants :
         /\ authMiddleware(as, t)
         /\ LET q == [ask EXCEPT !.as = as, !.tenant = t]
                now == IsM2M(as) /\ ask.step = "gate"
            IN
            /\ now => Gate(q)
            /\ requests' = [requests EXCEPT ![r] = IF now THEN [q EXCEPT !.step = After(q)] ELSE q]
    /\ UNCHANGED <<rows, accessTokens, keyed, retired>>

Ask(op, step) == [op |-> op, step |-> step, as |-> None, tenant |-> None,
                  project |-> None, target |-> None, scopes |-> {}]

At(r, step, ops) == requests[r] # None /\ requests[r].step = step /\ requests[r].op \in ops
Done(r) == requests' = [requests EXCEPT ![r] = None]
GotoIf(r, pass, step) == requests' = [requests EXCEPT ![r] = IF pass THEN [@ EXCEPT !.step = step] ELSE None]

\* A handler answers, fails, or is lost with the process.
End(r) ==
    /\ requests[r] # None /\ Done(r)
    /\ UNCHANGED <<rows, accessTokens, arrivals, keyed, retired>>

PassGate(r) ==
    /\ requests[r] # None /\ requests[r].step = "gate"
    /\ GotoIf(r, Gate(requests[r]), After(requests[r]))
    /\ UNCHANGED <<rows, accessTokens, arrivals, keyed, retired>>

---------------------------------------------------------------------------
(* Projects and API keys. *)

AskForProject(r, as) ==
    \E p \in Projects :
        \/ \E op \in {"createApiKey", "deleteProject"}, type \in {"secret", "publishable"} :
             /\ op = "deleteProject" => type = "secret"
             /\ Arrive(r, as, [Ask(op, "gate") EXCEPT !.project = p, !.target = type])
        \/ \E op \in {"rotateApiKey", "revokeApiKey"}, k \in KeyIds :
             /\ apiKeys[k] # None
             /\ Arrive(r, as, [Ask(op, "gate") EXCEPT !.project = p, !.target = k])

\* The reference of a new row to its project is a foreign key.
createApiKey(r, k) ==
    LET q == requests[r] IN
    /\ At(r, "handle", {"createApiKey"})
    /\ apiKeys[k] = None /\ Stored(q.project, q.tenant)
    /\ apiKeys' = [apiKeys EXCEPT ![k] =
         [project |-> q.project, type |-> q.target, value |-> 1, status |-> "active"]]
    /\ keyed' = IF q.target = "secret" THEN keyed \cup {q.tenant} ELSE keyed
    /\ Done(r)
    /\ UNCHANGED <<projects, m2mTokens, accessTokens, arrivals, retired>>

\* A key is found by its id alone.
KeyOfAnyPath(q) == Home[apiKeys[q.target].project] = q.tenant

\* A key is found under the project of the path.
KeyOfPath(q) == apiKeys[q.target].project = q.project /\ Home[q.project] = q.tenant

FindKey(r) ==
    /\ At(r, "handle", {"rotateApiKey", "revokeApiKey"})
    /\ GotoIf(r, KeyOfPath(requests[r]), "write")
    /\ UNCHANGED <<rows, accessTokens, arrivals, keyed, retired>>

\* The row is written as it was found.
rotateWholeRow(r) ==
    LET k == requests[r].target IN
    /\ At(r, "write", {"rotateApiKey"}) /\ apiKeys[k].value <= MaxRotations
    /\ apiKeys' = [apiKeys EXCEPT ![k].value = @ + 1, ![k].status = "active"]
    /\ retired' = retired \cup {<<k, apiKeys[k].value>>}
                    \cup (IF apiKeys[k].status = "revoked" THEN {<<k, apiKeys[k].value + 1>>} ELSE {})
    /\ Done(r)
    /\ UNCHANGED <<projects, m2mTokens, accessTokens, arrivals, keyed>>

\* Only the value is written: a key that was revoked meanwhile stays so, and
\* the caller gets a value that is not accepted.
rotateApiKey(r) ==
    LET k == requests[r].target IN
    /\ At(r, "write", {"rotateApiKey"}) /\ apiKeys[k].value <= MaxRotations
    /\ apiKeys' = [apiKeys EXCEPT ![k].value = @ + 1]
    /\ retired' = retired \cup {<<k, apiKeys[k].value>>}
                    \cup (IF apiKeys[k].status = "revoked" THEN {<<k, apiKeys[k].value + 1>>} ELSE {})
    /\ Done(r)
    /\ UNCHANGED <<projects, m2mTokens, accessTokens, arrivals, keyed>>

revokeApiKey(r) ==
    LET k == requests[r].target IN
    /\ At(r, "write", {"revokeApiKey"})
    /\ apiKeys' = [apiKeys EXCEPT ![k].status = "revoked"]
    /\ retired' = retired \cup {<<k, apiKeys[k].value>>}
    /\ Done(r)
    /\ UNCHANGED <<projects, m2mTokens, accessTokens, arrivals, keyed>>

FindProject(r) ==
    /\ At(r, "handle", {"deleteProject"})
    /\ GotoIf(r, Stored(requests[r].project, requests[r].tenant), "write")
    /\ UNCHANGED <<rows, accessTokens, arrivals, keyed, retired>>

\* No cascade: a project that a key or a client refers to is not deleted, and
\* a key is never deleted.
Referenced(p) == \/ \E k \in KeyIds : apiKeys[k] # None /\ apiKeys[k].project = p
                 \/ \E c \in ClientIds : m2mTokens[c] \notin {None, Gone} /\ m2mTokens[c].project = p

deleteProject(r) ==
    /\ At(r, "write", {"deleteProject"}) /\ ~Referenced(requests[r].project)
    /\ projects' = projects \ {requests[r].project}
    /\ Done(r)
    /\ UNCHANGED <<apiKeys, m2mTokens, accessTokens, arrivals, keyed, retired>>

---------------------------------------------------------------------------
(* Machine clients and the exchange of their secret for an access token. *)

AskForClient(r, as) ==
    \/ \E p \in Projects, s \in Asked :
         Arrive(r, as, [Ask("createM2MToken", "gate") EXCEPT !.project = p, !.scopes = s])
    \/ \E c \in ClientIds :
         m2mTokens[c] \notin {None, Gone} /\ Arrive(r, as, [Ask("revokeM2MToken", "find") EXCEPT !.target = c])

createM2MToken(r, c) ==
    LET q == requests[r] IN
    /\ At(r, "handle", {"createM2MToken"})
    /\ m2mTokens[c] = None /\ Stored(q.project, q.tenant)
    /\ m2mTokens' = [m2mTokens EXCEPT ![c] = [project |-> q.project, scopes |-> q.scopes]]
    /\ Done(r)
    /\ UNCHANGED <<projects, apiKeys, accessTokens, arrivals, keyed, retired>>

FindClient(r) ==
    LET q == requests[r] IN
    /\ At(r, "find", {"revokeM2MToken"})
    /\ requests' = [requests EXCEPT ![r] =
         IF m2mTokens[q.target] # Gone /\ Home[m2mTokens[q.target].project] = q.tenant
         THEN [q EXCEPT !.step = "gate", !.project = m2mTokens[q.target].project,
                        !.scopes = m2mTokens[q.target].scopes]
         ELSE None]
    /\ UNCHANGED <<rows, accessTokens, arrivals, keyed, retired>>

revokeM2MToken(r) ==
    /\ At(r, "handle", {"revokeM2MToken"})
    /\ m2mTokens' = [m2mTokens EXCEPT ![requests[r].target] = Gone]
    /\ Done(r)
    /\ UNCHANGED <<projects, apiKeys, accessTokens, arrivals, keyed, retired>>

\* authenticate: the client's secret, in the tenant's database.
Exchange(r, c) ==
    /\ requests[r] = None /\ arrivals < MaxArrivals /\ arrivals' = arrivals + 1
    /\ m2mTokens[c] \notin {None, Gone}
    /\ \E granted \in SUBSET m2mTokens[c].scopes :
         requests' = [requests EXCEPT ![r] =
           [Ask("exchange", "sign") EXCEPT !.target = c, !.project = m2mTokens[c].project,
              !.tenant = Home[m2mTokens[c].project], !.scopes = granted]]
    /\ UNCHANGED <<rows, accessTokens, keyed, retired>>

\* generateJwt, even if the client was revoked meanwhile.
generateJwt(r) ==
    LET q == requests[r] IN
    /\ At(r, "sign", {"exchange"})
    /\ accessTokens' = accessTokens \cup {AccessToken(q.target, q.project, q.tenant, q.scopes)}
    /\ Done(r)
    /\ UNCHANGED <<rows, arrivals, keyed, retired>>

Expire(token) ==
    /\ accessTokens' = accessTokens \ {token}
    /\ UNCHANGED <<rows, requests, arrivals, keyed, retired>>

---------------------------------------------------------------------------
(* Routes that concern the whole tenant, and those of one user. *)

AskForTenant(r, as) ==
    \/ Arrive(r, as, [Ask("strict", "gate") EXCEPT !.scopes = {"users:admin"}])
    \/ Arrive(r, as, [Ask("tenantWide", "gate") EXCEPT !.scopes = {"users:write"}])
    \/ \E u \in Users : Account[u] = TenantOf(as) /\ Arrive(r, as, [Ask("user", "gate") EXCEPT !.scopes = {"users:write"}, !.target = u])

isSessionTenantAdmin(r) ==
    /\ requests[r] # None /\ requests[r].step = "owns"
    /\ GotoIf(r, OwnsSome(requests[r]), "served")
    /\ UNCHANGED <<rows, accessTokens, arrivals, keyed, retired>>

---------------------------------------------------------------------------
AskAny(r) == \E as \in Bearers : AskForProject(r, as) \/ AskForClient(r, as) \/ AskForTenant(r, as)

Handle(r) ==
    \/ PassGate(r) \/ End(r)
    \/ FindKey(r) \/ rotateApiKey(r) \/ revokeApiKey(r) \/ FindProject(r) \/ deleteProject(r)
    \/ FindClient(r) \/ revokeM2MToken(r) \/ generateJwt(r) \/ isSessionTenantAdmin(r)
    \/ \E k \in KeyIds : createApiKey(r, k)
    \/ \E c \in ClientIds : createM2MToken(r, c) \/ Exchange(r, c)

Next == (\E r \in Requests : AskAny(r) \/ Handle(r)) \/ \E token \in accessTokens : Expire(token)

Spec == Init /\ [][Next]_vars

---------------------------------------------------------------------------
(* Properties *)

\* Type correctness.
TypeOK ==
    /\ projects \subseteq Projects
    /\ apiKeys \in [KeyIds -> KeyRow \cup {None}]
    /\ m2mTokens \in [ClientIds -> ClientRow \cup {None, Gone}]
    /\ accessTokens \subseteq {b \in Bearer : b.kind = "token"}
    /\ requests \in [Requests -> Request \cup {None}]
    /\ arrivals \in 0..MaxArrivals
    /\ keyed \subseteq Tenants
    /\ retired \subseteq KeyIds \X Nat

\* A tenant-wide or administrative scope exists in a tenant - in a client, in
\* a token, in a request that was let through - only if the tenant has had a
\* secret key; the one session that is let through to other people's data is
\* that of a user who owns every project.
AuthorityHasSource ==
    /\ \A c \in ClientIds : m2mTokens[c] \notin {None, Gone} /\ m2mTokens[c].scopes \cap Privileged # {}
         => Home[m2mTokens[c].project] \in keyed
    /\ \A token \in accessTokens : token.scopes \cap Privileged # {} => token.tenant \in keyed
    /\ \A r \in Requests : requests[r] # None /\ requests[r].step = "served" =>
         LET q == requests[r] IN
         IF IsM2M(q.as) THEN q.tenant \in keyed
         ELSE IsSelf(q) \/ OwnsAll(q)

\* No request is let in with a value that was replaced or belongs to a key
\* that was revoked, whatever rotations and revocations overlapped.
RetiredKeysStayOut ==
    [][\A r \in Requests :
         requests[r] = None /\ requests'[r] # None /\ requests'[r].op # "exchange" =>
           LET as == requests'[r].as IN as.kind = "key" => <<as.id, as.value>> \notin retired]_vars

\* What refers to a project is changed only by its owner, by a machine bound
\* to it, or by one with authority over its whole tenant.
Belongings(p) ==
    <<p \in projects,
      {<<k, apiKeys[k]>> : k \in {i \in KeyIds : apiKeys[i] # None /\ apiKeys[i].project = p}},
      {<<c, m2mTokens[c]>> : c \in {i \in ClientIds : m2mTokens[i] \notin {None, Gone} /\ m2mTokens[i].project = p}}>>

HasAuthority(q, p) ==
    /\ q.tenant = Home[p]
    /\ IF IsM2M(q.as) THEN isTenantRootM2M(q.as) \/ ProjectOf(q.as) = p ELSE Owner[p] = q.as.user

WritesStayInProject ==
    [][\A p \in Projects : Belongings(p)' # Belongings(p) =>
         \E r \in Requests : requests[r] # None /\ requests'[r] = None /\ HasAuthority(requests[r], p)]_rows
=============================================================================
