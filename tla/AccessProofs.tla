---------------------------- MODULE AccessProofs ----------------------------
(***************************************************************************)
(* Authority in any number of tenants, projects, keys, clients and         *)
(* requests: type correctness, that tenant-wide authority starts from a    *)
(* secret key, that values which were replaced or revoked stay out, and    *)
(* that what belongs to a project changes only by somebody with authority  *)
(* over it.                                                                *)
(***************************************************************************)
EXTENDS Access, TLAPS

\* The requests that a permission on one project gates.
ProjectOps == {"createApiKey", "rotateApiKey", "revokeApiKey", "deleteProject"}
TenantOps == {"strict", "tenantWide", "user"}

LEMMA RequiredScopeIs == DOMAIN RequiredScope = ProjectOps
  BY DEF RequiredScope, ProjectOps

---------------------------------------------------------------------------
(* What is true of a request, given the tables it is judged by: they are   *)
(* parameters, so that it can be said of the tables before and after a     *)
(* step.                                                                   *)

\* A machine has the tenant that its request names, and what it may do in the
\* whole tenant comes from a secret key.
BearerOK(who, t, keys, kd) ==
    /\ who.kind = "key" => keys[who.id] # None /\ Home[keys[who.id].project] = t /\ t \in kd
    /\ who.kind = "token" => who.tenant = t /\ (who.scopes \cap Privileged # {} => t \in kd)

\* Authority over one project; for a bearer that passed the gate it does not
\* change, whatever happens to the rows.
Manages(who, p) ==
    IF IsM2M(who)
    THEN who.kind = "key" \/ who.scopes \cap TENANT_ROOT_ADMIN_SCOPES # {} \/ who.project = p
    ELSE Owner[p] = who.user

\* The steps of each operation.
StepOK(q) ==
    /\ q.op \in ProjectOps => q.step \in {"gate", "handle", "write"}
    /\ q.op = "createM2MToken" => q.step \in {"gate", "handle"}
    /\ q.op = "revokeM2MToken" => q.step \in {"find", "gate", "handle"}
    /\ q.op = "exchange" => q.step = "sign"
    /\ q.op \in TenantOps => q.step \in {"gate", "owns", "served"}

\* What a request is about, and what it has found.
TargetOK(q, keys, clients) ==
    /\ q.op \in ProjectOps \cup {"createM2MToken", "exchange"} => q.project \in Projects
    /\ q.op = "createApiKey" => q.target \in {"secret", "publishable"}
    /\ q.op \in {"rotateApiKey", "revokeApiKey"} => q.target \in KeyIds /\ keys[q.target] # None
    /\ q.op \in ProjectOps /\ q.step = "write" => Home[q.project] = q.tenant
    /\ q.op \in {"rotateApiKey", "revokeApiKey"} /\ q.step = "write" => keys[q.target].project = q.project
    /\ q.op \in {"revokeM2MToken", "exchange"} => q.target \in ClientIds /\ clients[q.target] # None
    /\ q.op = "exchange" => q.tenant = Home[q.project]
    /\ q.op = "revokeM2MToken" /\ q.step # "find" =>
         /\ q.project \in Projects /\ Home[q.project] = q.tenant
         /\ clients[q.target] # Gone => clients[q.target].project = q.project
    /\ q.op = "strict" => q.scopes = {"users:admin"}
    /\ q.op \in {"tenantWide", "user"} => q.scopes = {"users:write"}

OwnsAllOf(q, ps) == \A p \in ps : Home[p] = q.tenant => Owner[p] = q.as.user

\* What the gates that a request has passed have established.
GateOK(q, ps, kd) ==
    /\ q.step \in {"handle", "write"} => Manages(q.as, q.project)
    /\ q.op = "exchange" \/ (q.op = "createM2MToken" /\ q.step = "handle") =>
         (q.scopes \cap Privileged # {} => q.tenant \in kd)
    /\ q.step = "owns" => ~IsM2M(q.as) /\ OwnsAllOf(q, ps)
    /\ q.step = "served" => IF IsM2M(q.as) THEN q.tenant \in kd ELSE IsSelf(q) \/ OwnsAllOf(q, ps)

RequestOK(q, keys, clients, ps, kd) ==
    /\ q.op # "exchange" => q.as \in Bearer /\ BearerOK(q.as, q.tenant, keys, kd)
    /\ StepOK(q)
    /\ TargetOK(q, keys, clients)
    /\ GateOK(q, ps, kd)

RequestsInv ==
    \A r \in Requests : requests[r] # None =>
        RequestOK(requests[r], apiKeys, m2mTokens, projects, keyed)

\* Where tenant-wide authority is written down, there was a secret key.
RowsInv ==
    /\ \A k \in KeyIds : apiKeys[k] # None /\ apiKeys[k].type = "secret"
         => Home[apiKeys[k].project] \in keyed
    /\ \A c \in ClientIds : m2mTokens[c] \notin {None, Gone} /\ m2mTokens[c].scopes \cap Privileged # {}
         => Home[m2mTokens[c].project] \in keyed
    /\ \A token \in accessTokens : token.scopes \cap Privileged # {} => token.tenant \in keyed

\* A retired value is an old one of its key, or that of a revoked key.
RetiredInv ==
    \A v \in retired :
        /\ apiKeys[v[1]] # None
        /\ v[2] < apiKeys[v[1]].value \/ apiKeys[v[1]].status = "revoked"

Inv == TypeOK /\ RowsInv /\ RetiredInv /\ RequestsInv

---------------------------------------------------------------------------
(* What no step undoes. *)

Kept(keys, clients, ps, kd, keys1, clients1, ps1, kd1) ==
    /\ \A k \in KeyIds : keys[k] # None =>
         keys1[k] # None /\ keys1[k].project = keys[k].project
    /\ \A c \in ClientIds : clients[c] # None =>
         clients1[c] # None /\ (clients1[c] = Gone \/ clients1[c] = clients[c])
    /\ ps1 \subseteq ps
    /\ kd \subseteq kd1

KeptNow == Kept(apiKeys, m2mTokens, projects, keyed, apiKeys', m2mTokens', projects', keyed')

\* What was true of a request stays true while others change the tables.
LEMMA RequestStays ==
    ASSUME NEW q \in Request, NEW keys, NEW clients, NEW ps, NEW kd,
           NEW keys1, NEW clients1, NEW ps1, NEW kd1,
           Kept(keys, clients, ps, kd, keys1, clients1, ps1, kd1),
           RequestOK(q, keys, clients, ps, kd)
    PROVE  RequestOK(q, keys1, clients1, ps1, kd1)
<1>1. q.op # "exchange" => q.as \in Bearer /\ BearerOK(q.as, q.tenant, keys1, kd1)
  <2>1. SUFFICES ASSUME q.op # "exchange" PROVE q.as \in Bearer /\ BearerOK(q.as, q.tenant, keys1, kd1)
    OBVIOUS
  <2>2. q.as \in Bearer /\ BearerOK(q.as, q.tenant, keys, kd)
    BY <2>1 DEF RequestOK
  <2>3. q.as.kind = "key" => q.as.id \in KeyIds
    BY <2>2 DEF Bearer
  <2>. QED
    BY <2>2, <2>3 DEF BearerOK, Kept
<1>2. TargetOK(q, keys1, clients1)
  BY DEF RequestOK, TargetOK, Kept
<1>3. GateOK(q, ps1, kd1)
  BY DEF RequestOK, GateOK, Kept, OwnsAllOf
<1>. QED
  BY <1>1, <1>2, <1>3 DEF RequestOK

\* A step that keeps what others rely on, and leaves its own request ended or
\* in order, keeps every request in order.
LEMMA OneRequest ==
    ASSUME Inv, KeptNow, NEW r \in Requests, NEW x,
           requests' = [requests EXCEPT ![r] = x],
           x # None => x \in Request /\ RequestOK(x, apiKeys', m2mTokens', projects', keyed')
    PROVE  RequestsInv' /\ requests' \in [Requests -> Request \cup {None}]
<1>1. requests \in [Requests -> Request \cup {None}]
  BY DEF Inv, TypeOK
<1>2. ASSUME NEW s \in Requests, requests'[s] # None
      PROVE  RequestOK(requests'[s], apiKeys', m2mTokens', projects', keyed')
  <2>1. CASE s = r
    BY <1>1, <1>2, <2>1
  <2>2. CASE s # r
    <3>1. requests'[s] = requests[s] /\ requests[s] \in Request
      BY <1>1, <1>2, <2>2
    <3>2. RequestOK(requests[s], apiKeys, m2mTokens, projects, keyed)
      BY <1>2, <3>1 DEF Inv, RequestsInv
    <3>. QED
      BY <3>1, <3>2, RequestStays DEF KeptNow
  <2>. QED
    BY <2>1, <2>2
<1>. QED
  BY <1>1, <1>2 DEF RequestsInv

\* The same when no request changes.
LEMMA NoRequest ==
    ASSUME Inv, KeptNow, requests' = requests
    PROVE  RequestsInv'
<1>1. ASSUME NEW s \in Requests, requests'[s] # None
      PROVE  RequestOK(requests'[s], apiKeys', m2mTokens', projects', keyed')
  <2>1. requests[s] \in Request
    BY <1>1 DEF Inv, TypeOK
  <2>2. RequestOK(requests[s], apiKeys, m2mTokens, projects, keyed)
    BY <1>1 DEF Inv, RequestsInv
  <2>. QED
    BY <2>1, <2>2, RequestStays DEF KeptNow
<1>. QED
  BY <1>1 DEF RequestsInv

---------------------------------------------------------------------------
(* Bearers and gates. *)

\* Whoever is let in is one of the bearers, and BearerOK.
LEMMA LetIn ==
    ASSUME Inv, NEW who \in Bearers, NEW t \in Tenants, authMiddleware(who, t)
    PROVE  who \in Bearer /\ BearerOK(who, t, apiKeys, keyed)
<1>1. CASE \E k \in KeyIds : apiKeys[k] # None /\ \E n \in 1..apiKeys[k].value : who = SecretKey(k, n)
  <2>1. PICK k \in KeyIds : apiKeys[k] # None /\ \E n \in 1..apiKeys[k].value : who = SecretKey(k, n)
    BY <1>1
  <2>2. apiKeys[k] \in KeyRow
    BY <2>1 DEF Inv, TypeOK
  <2>3. PICK n \in 1..apiKeys[k].value : who = SecretKey(k, n)
    BY <2>1
  <2>4. n \in Nat /\ who = [kind |-> "key", id |-> k, value |-> n]
    BY <2>2, <2>3 DEF KeyRow, SecretKey
  <2>5. apiKeys[k].type = "secret" /\ Home[apiKeys[k].project] = t
    BY <2>4 DEF authMiddleware, HasValue
  <2>. QED
    BY <2>1, <2>4, <2>5 DEF Bearer, BearerOK, Inv, RowsInv
<1>2. CASE who \in accessTokens
  <2>1. who \in Bearer /\ who.kind = "token"
    BY <1>2 DEF Inv, TypeOK
  <2>2. who.tenant = t
    BY <2>1 DEF authMiddleware
  <2>. QED
    BY <1>2, <2>1, <2>2 DEF BearerOK, Inv, RowsInv
<1>3. CASE \E u \in Users : who = Session(u)
  BY <1>3, AccessAssumption DEF Session, Bearer, BearerOK
<1>4. \/ who \in UNION {{SecretKey(k, n) : n \in 1..apiKeys[k].value} : k \in {i \in KeyIds : apiKeys[i] # None}}
      \/ who \in accessTokens
      \/ who \in {Session(u) : u \in Users}
  BY Zenon DEF Bearers
<1>5. ASSUME who \in UNION {{SecretKey(k, n) : n \in 1..apiKeys[k].value} : k \in {i \in KeyIds : apiKeys[i] # None}}
      PROVE  \E k \in KeyIds : apiKeys[k] # None /\ \E n \in 1..apiKeys[k].value : who = SecretKey(k, n)
  BY <1>5, Zenon
<1>6. ASSUME who \in {Session(u) : u \in Users} PROVE \E u \in Users : who = Session(u)
  BY <1>6, Zenon
<1>. QED
  BY <1>1, <1>2, <1>3, <1>4, <1>5, <1>6, Zenon

\* The tables that requests are judged by now.
Judged(q) == RequestOK(q, apiKeys, m2mTokens, projects, keyed)

\* A request that passes its gate has what the gate asks for.
LEMMA GatePassed ==
    ASSUME Inv, NEW q \in Request, Judged(q), q.step = "gate", Gate(q), NEW x,
           x = [q EXCEPT !.step = After(q)]
    PROVE  x \in Request /\ Judged(x)
<1>1. /\ q.op # "exchange" /\ q.as \in Bearer /\ BearerOK(q.as, q.tenant, apiKeys, keyed)
      /\ q.op \in ProjectOps \cup TenantOps \cup {"createM2MToken", "revokeM2MToken"}
  BY DEF Judged, RequestOK, StepOK, Request, ProjectOps, TenantOps
<1>2. CASE q.op \in ProjectOps
  <2>1. After(q) = "handle"
    BY <1>2 DEF After, ProjectOps
  <2>. Gate(q) = requireProjectAccess(q)
    BY <1>2, RequiredScopeIs DEF Gate, ProjectOps
  <2>5. assertProjectOwnerOrM2M(q, q.project)
    BY DEF requireProjectAccess
  <2>2. Manages(q.as, q.project)
    BY <1>1, <2>5 DEF assertProjectOwnerOrM2M, Manages, isTenantRootM2M, ScopesOf, ProjectOf, IsM2M, Bearer
  <2>. QED
    BY <1>1, <1>2, <2>1, <2>2 DEF Judged, RequestOK, StepOK, TargetOK, GateOK, Request, ProjectOps, TenantOps
<1>3. CASE q.op \in {"createM2MToken", "revokeM2MToken"}
  <2>1. After(q) = "handle"
    BY <1>3 DEF After
  <2>6. q.op = "createM2MToken" => PassCreateClient(q)
    BY <1>3, RequiredScopeIs DEF Gate, ProjectOps
  <2>7. q.op = "revokeM2MToken" => PassRevokeClient(q)
    BY <1>3, RequiredScopeIs DEF Gate, ProjectOps
  <2>5. assertProjectOwnerOrM2M(q, q.project)
    BY <1>3, <2>6, <2>7 DEF PassCreateClient, PassRevokeClient
  <2>2. Manages(q.as, q.project)
    BY <1>1, <2>5 DEF assertProjectOwnerOrM2M, Manages, isTenantRootM2M, ScopesOf, ProjectOf, IsM2M, Bearer
  <2>3. q.op = "createM2MToken" => MayGrant(q.as, q.scopes)
    BY <2>6 DEF PassCreateClient
  <2>4. q.op = "createM2MToken" /\ q.scopes \cap Privileged # {} => q.tenant \in keyed
    BY <1>1, <2>3 DEF MayGrant, BearerOK, ScopesOf, IsM2M
  <2>. QED
    BY <1>1, <1>3, <2>1, <2>2, <2>4 DEF Judged, RequestOK, StepOK, TargetOK, GateOK, Request, ProjectOps, TenantOps
<1>4. CASE q.op \in TenantOps
  <2>1. q.op = "strict" => requireM2M(q)
    BY <1>4, RequiredScopeIs DEF Gate, ProjectOps
  <2>2. q.op # "strict" => PassTenantGate(q)
    BY <1>4, RequiredScopeIs DEF Gate, ProjectOps, TenantOps
  <2>3. /\ q.op = "strict" => q.scopes = {"users:admin"}
        /\ q.op # "strict" => q.scopes = {"users:write"}
    BY <1>4 DEF Judged, RequestOK, TargetOK, TenantOps
  <2>4. IsM2M(q.as) => q.tenant \in keyed
    <3>1. SUFFICES ASSUME q.as.kind = "token" PROVE q.tenant \in keyed
      BY <1>1 DEF BearerOK, IsM2M
    <3>2. q.scopes \subseteq q.as.scopes
      BY <2>1, <2>2, <3>1 DEF requireM2M, PassTenantGate, ScopesOf, IsM2M
    <3>3. q.as.scopes \cap Privileged # {}
      BY <2>3, <3>2 DEF Privileged, TENANT_ROOT_ADMIN_SCOPES
    <3>. QED
      BY <1>1, <3>1, <3>3 DEF BearerOK
  <2>5. q.op = "strict" => IsM2M(q.as)
    BY <2>1 DEF requireM2M
  <2>6. ~IsM2M(q.as) => IsSelf(q) \/ OwnsAllOf(q, projects)
    BY <2>2, <2>5 DEF PassTenantGate, OwnsAll, OwnsAllOf
  <2>7. After(q) = IF IsM2M(q.as) \/ IsSelf(q) THEN "served" ELSE "owns"
    BY <1>4, <2>5 DEF After, TenantOps
  <2>8. x \in Request /\ x.step \in {"served", "owns"} /\ x.as = q.as /\ x.op = q.op /\ x.scopes = q.scopes
        /\ x.tenant = q.tenant /\ x.project = q.project /\ x.target = q.target /\ x.step = After(q)
    BY <2>7 DEF Request
  <2>9. IsSelf(x) = IsSelf(q) /\ OwnsAllOf(x, projects) = OwnsAllOf(q, projects)
    BY <2>8 DEF IsSelf, OwnsAllOf
  <2>10. GateOK(x, projects, keyed)
    BY <1>1, <1>4, <2>4, <2>6, <2>7, <2>8, <2>9 DEF GateOK, TenantOps
  <2>11. TargetOK(x, apiKeys, m2mTokens) /\ StepOK(x)
    BY <1>4, <2>8 DEF Judged, RequestOK, TargetOK, StepOK, TenantOps, ProjectOps
  <2>. QED
    BY <1>1, <2>8, <2>10, <2>11 DEF Judged, RequestOK
<1>. QED
  BY <1>1, <1>2, <1>3, <1>4

---------------------------------------------------------------------------
(* What every step shows: the invariant again, and the two properties of   *)
(* steps.                                                                  *)

Enters ==
    \A r \in Requests :
        requests[r] = None /\ requests'[r] # None /\ requests'[r].op # "exchange" =>
            LET who == requests'[r].as IN who.kind = "key" => <<who.id, who.value>> \notin retired

WritesOK ==
    \A p \in Projects : Belongings(p)' # Belongings(p) =>
        \E r \in Requests : requests[r] # None /\ requests'[r] = None /\ HasAuthority(requests[r], p)

StepGood == Inv' /\ Enters /\ WritesOK

LEMMA SameRows == rows' = rows => WritesOK
  BY DEF rows, WritesOK, Belongings

\* A step of a request that was in is no entry.
LEMMA NoEntry ==
    ASSUME Inv, NEW r \in Requests, requests[r] # None, NEW x, requests' = [requests EXCEPT ![r] = x]
    PROVE  Enters
  BY DEF Enters, Inv, TypeOK

\* A request that goes on, or ends, and changes nothing else.
LEMMA Moves ==
    ASSUME Inv, NEW r \in Requests, requests[r] # None, NEW x, requests' = [requests EXCEPT ![r] = x],
           x # None => x \in Request /\ Judged(x),
           UNCHANGED <<rows, accessTokens, arrivals, keyed, retired>>
    PROVE  StepGood
<1>1. KeptNow
  BY DEF KeptNow, Kept, rows
<1>2. RequestsInv' /\ requests' \in [Requests -> Request \cup {None}]
  BY <1>1, OneRequest DEF Judged, rows
<1>3. TypeOK' /\ RowsInv' /\ RetiredInv'
  BY <1>2 DEF Inv, TypeOK, RowsInv, RetiredInv, rows
<1>. QED
  BY <1>2, <1>3, NoEntry, SameRows DEF StepGood, Inv

\* What a request asks for, before it is known who asks.
Asking ==
    [op      : ProjectOps \cup TenantOps \cup {"createM2MToken", "revokeM2MToken"},
     step    : {"gate", "find"},
     as      : {None},
     tenant  : {None},
     project : Projects \cup {None},
     target  : KeyIds \cup ClientIds \cup Users \cup {"secret", "publishable", None},
     scopes  : SUBSET Scopes]

\* A request that arrives: what it asks for decides what is true of it.
LEMMA ArriveGood ==
    ASSUME Inv, NEW r \in Requests, NEW who \in Bearers, NEW ask \in Asking,
           ask.step = IF ask.op = "revokeM2MToken" THEN "find" ELSE "gate",
           ask.op \in ProjectOps \cup {"createM2MToken"} => ask.project \in Projects,
           ask.op = "createApiKey" => ask.target \in {"secret", "publishable"},
           ask.op \in {"rotateApiKey", "revokeApiKey"} => ask.target \in KeyIds /\ apiKeys[ask.target] # None,
           ask.op = "revokeM2MToken" => ask.target \in ClientIds /\ m2mTokens[ask.target] # None,
           ask.op = "strict" => ask.scopes = {"users:admin"},
           ask.op \in {"tenantWide", "user"} => ask.scopes = {"users:write"},
           Arrive(r, who, ask)
    PROVE  StepGood
<1>1. PICK t \in Tenants :
        /\ authMiddleware(who, t)
        /\ LET q == [ask EXCEPT !.as = who, !.tenant = t]
               now == IsM2M(who) /\ ask.step = "gate"
           IN
           /\ now => Gate(q)
           /\ requests' = [requests EXCEPT ![r] = IF now THEN [q EXCEPT !.step = After(q)] ELSE q]
  BY DEF Arrive
<1>. DEFINE q == [ask EXCEPT !.as = who, !.tenant = t]
            y == [q EXCEPT !.step = After(q)]
            x == IF IsM2M(who) /\ ask.step = "gate" THEN y ELSE q
<1>2. q.op = ask.op /\ q.step = ask.step /\ q.as = who /\ q.tenant = t /\ q.project = ask.project
      /\ q.target = ask.target /\ q.scopes = ask.scopes
  BY DEF Asking
<1>3. /\ IsM2M(who) /\ ask.step = "gate" => Gate(q)
      /\ requests' = [requests EXCEPT ![r] = x]
  BY <1>1
<1>4. who \in Bearer /\ BearerOK(who, t, apiKeys, keyed)
  BY <1>1, LetIn
<1>5. q \in Request
  BY <1>4 DEF Asking, Request, ProjectOps, TenantOps
<1>. HIDE DEF q
<1>6. Judged(q)
  <2>1. StepOK(q) /\ GateOK(q, projects, keyed)
    BY <1>2 DEF StepOK, GateOK, Asking, ProjectOps, TenantOps
  <2>2. TargetOK(q, apiKeys, m2mTokens)
    BY <1>2 DEF TargetOK, Asking, ProjectOps, TenantOps
  <2>3. q.as \in Bearer /\ BearerOK(q.as, q.tenant, apiKeys, keyed)
    BY <1>2, <1>4
  <2>. QED
    BY <2>1, <2>2, <2>3 DEF Judged, RequestOK
<1>7. x \in Request /\ Judged(x) /\ x.as = who
  <2>1. CASE IsM2M(who) /\ ask.step = "gate"
    <3>1. y \in Request /\ Judged(y)
      BY <1>2, <1>3, <1>5, <1>6, <2>1, GatePassed
    <3>2. y.as = who
      BY <1>2, <1>5 DEF Request
    <3>. QED
      BY <2>1, <3>1, <3>2
  <2>2. CASE ~(IsM2M(who) /\ ask.step = "gate")
    BY <1>2, <1>5, <1>6, <2>2
  <2>. QED
    BY <2>1, <2>2
<1>. HIDE DEF x
<1>8. UNCHANGED <<rows, accessTokens, keyed, retired>> /\ arrivals' = arrivals + 1 /\ arrivals < MaxArrivals
      /\ requests[r] = None
  BY DEF Arrive
<1>9. KeptNow
  BY <1>8 DEF KeptNow, Kept, rows
<1>10. RequestsInv' /\ requests' \in [Requests -> Request \cup {None}]
  BY <1>3, <1>7, <1>8, <1>9, OneRequest DEF Judged, rows
<1>11. TypeOK' /\ RowsInv' /\ RetiredInv'
  BY <1>8, <1>10, AccessAssumption DEF Inv, TypeOK, RowsInv, RetiredInv, rows
<1>12. who.kind = "key" => <<who.id, who.value>> \notin retired
  <2>1. SUFFICES ASSUME who.kind = "key", <<who.id, who.value>> \in retired PROVE FALSE
    OBVIOUS
  <2>2. HasValue(who.id, who.value)
    BY <1>1, <1>4, <2>1 DEF authMiddleware
  <2>3. who.id \in KeyIds /\ apiKeys[who.id] \in KeyRow
    BY <1>4, <2>1, <2>2 DEF Bearer, HasValue, Inv, TypeOK
  <2>4. who.value < apiKeys[who.id].value \/ apiKeys[who.id].status = "revoked"
    BY <2>1 DEF Inv, RetiredInv
  <2>5. apiKeys[who.id].value = who.value /\ apiKeys[who.id].status = "active" /\ who.value \in Nat
    BY <2>2, <2>3 DEF HasValue, KeyRow
  <2>6. who.value < who.value
    BY <2>4, <2>5, Zenon
  <2>. QED
    BY <2>5, <2>6
<1>13. Enters
  BY <1>3, <1>7, <1>12 DEF Enters, Inv, TypeOK
<1>. QED
  BY <1>8, <1>10, <1>11, <1>13, SameRows DEF StepGood, Inv

LEMMA AskForProjectGood ==
    ASSUME Inv, NEW r \in Requests, NEW who \in Bearers, AskForProject(r, who)
    PROVE  StepGood
<1>1. PICK p \in Projects :
        \/ \E op \in {"createApiKey", "deleteProject"}, type \in {"secret", "publishable"} :
             Arrive(r, who, [Ask(op, "gate") EXCEPT !.project = p, !.target = type])
        \/ \E op \in {"rotateApiKey", "revokeApiKey"}, k \in KeyIds :
             /\ apiKeys[k] # None
             /\ Arrive(r, who, [Ask(op, "gate") EXCEPT !.project = p, !.target = k])
  BY DEF AskForProject
<1>2. ASSUME NEW op \in {"createApiKey", "deleteProject"}, NEW type \in {"secret", "publishable"},
             Arrive(r, who, [Ask(op, "gate") EXCEPT !.project = p, !.target = type])
      PROVE  StepGood
  <2>. DEFINE ask == [Ask(op, "gate") EXCEPT !.project = p, !.target = type]
  <2>1. ask \in Asking /\ ask.op = op /\ ask.step = "gate" /\ ask.project = p /\ ask.target = type
    BY DEF Ask, Asking, ProjectOps
  <2>. QED
    BY <1>2, <2>1, ArriveGood
<1>3. ASSUME NEW op \in {"rotateApiKey", "revokeApiKey"}, NEW k \in KeyIds, apiKeys[k] # None,
             Arrive(r, who, [Ask(op, "gate") EXCEPT !.project = p, !.target = k])
      PROVE  StepGood
  <2>. DEFINE ask == [Ask(op, "gate") EXCEPT !.project = p, !.target = k]
  <2>1. ask \in Asking /\ ask.op = op /\ ask.step = "gate" /\ ask.project = p /\ ask.target = k
    BY DEF Ask, Asking, ProjectOps
  <2>. QED
    BY <1>3, <2>1, ArriveGood
<1>. QED
  BY <1>1, <1>2, <1>3

LEMMA AskForClientGood ==
    ASSUME Inv, NEW r \in Requests, NEW who \in Bearers, AskForClient(r, who)
    PROVE  StepGood
<1>1. ASSUME NEW p \in Projects, NEW s \in Asked,
             Arrive(r, who, [Ask("createM2MToken", "gate") EXCEPT !.project = p, !.scopes = s])
      PROVE  StepGood
  <2>. DEFINE ask == [Ask("createM2MToken", "gate") EXCEPT !.project = p, !.scopes = s]
  <2>1. ask \in Asking /\ ask.op = "createM2MToken" /\ ask.step = "gate" /\ ask.project = p
    BY AskedAssumption DEF Ask, Asking
  <2>. QED
    BY <1>1, <2>1, ArriveGood
<1>2. ASSUME NEW c \in ClientIds, m2mTokens[c] \notin {None, Gone},
             Arrive(r, who, [Ask("revokeM2MToken", "find") EXCEPT !.target = c])
      PROVE  StepGood
  <2>. DEFINE ask == [Ask("revokeM2MToken", "find") EXCEPT !.target = c]
  <2>1. ask \in Asking /\ ask.op = "revokeM2MToken" /\ ask.step = "find" /\ ask.target = c
    BY DEF Ask, Asking
  <2>. QED
    BY <1>2, <2>1, ArriveGood DEF ProjectOps
<1>. QED
  BY <1>1, <1>2 DEF AskForClient

LEMMA AskForTenantGood ==
    ASSUME Inv, NEW r \in Requests, NEW who \in Bearers, AskForTenant(r, who)
    PROVE  StepGood
<1>1. ASSUME NEW op \in {"strict", "tenantWide"}, NEW s \in SUBSET Scopes,
             op = "strict" => s = {"users:admin"}, op = "tenantWide" => s = {"users:write"},
             Arrive(r, who, [Ask(op, "gate") EXCEPT !.scopes = s])
      PROVE  StepGood
  <2>. DEFINE ask == [Ask(op, "gate") EXCEPT !.scopes = s]
  <2>1. ask \in Asking /\ ask.op = op /\ ask.step = "gate" /\ ask.scopes = s
    BY DEF Ask, Asking, TenantOps
  <2>. QED
    BY <1>1, <2>1, ArriveGood DEF ProjectOps
<1>2. ASSUME NEW u \in Users, NEW s \in SUBSET Scopes, s = {"users:write"},
             Arrive(r, who, [Ask("user", "gate") EXCEPT !.scopes = s, !.target = u])
      PROVE  StepGood
  <2>. DEFINE ask == [Ask("user", "gate") EXCEPT !.scopes = s, !.target = u]
  <2>1. ask \in Asking /\ ask.op = "user" /\ ask.step = "gate" /\ ask.scopes = s
    BY DEF Ask, Asking, TenantOps
  <2>. QED
    BY <1>2, <2>1, ArriveGood DEF ProjectOps
<1>3. {"users:admin"} \in SUBSET Scopes /\ {"users:write"} \in SUBSET Scopes
  BY DEF Scopes, SecretKeyScopes, Privileged, TENANT_ROOT_ADMIN_SCOPES
<1>. QED
  BY <1>1, <1>2, <1>3 DEF AskForTenant

---------------------------------------------------------------------------
(* Handlers that change no row. *)

LEMMA EndGood == ASSUME Inv, NEW r \in Requests, End(r) PROVE StepGood
  BY Moves DEF End, Done

LEMMA PassGateGood == ASSUME Inv, NEW r \in Requests, PassGate(r) PROVE StepGood
<1>. DEFINE q == requests[r]
            x == IF Gate(q) THEN [q EXCEPT !.step = After(q)] ELSE None
<1>1. q # None /\ q.step = "gate" /\ UNCHANGED <<rows, accessTokens, arrivals, keyed, retired>>
  BY DEF PassGate
<1>2. q \in Request /\ Judged(q)
  BY <1>1 DEF Inv, TypeOK, RequestsInv, Judged
<1>3. requests' = [requests EXCEPT ![r] = x]
  BY <1>2 DEF PassGate, GotoIf, Inv, TypeOK
<1>4. x # None => x \in Request /\ Judged(x)
  BY <1>1, <1>2, GatePassed
<1>. QED
  BY <1>1, <1>3, <1>4, Moves

\* A request that goes on to its next step, if what it looks up is there.
LEMMA GoesOn ==
    ASSUME Inv, NEW r \in Requests, NEW pass, NEW step, requests[r] # None, GotoIf(r, pass, step),
           NEW x, x = [requests[r] EXCEPT !.step = step],
           pass => x \in Request /\ Judged(x),
           UNCHANGED <<rows, accessTokens, arrivals, keyed, retired>>
    PROVE  StepGood
<1>1. requests' = [requests EXCEPT ![r] = IF pass THEN x ELSE None]
  BY DEF GotoIf
<1>. QED
  BY <1>1, Moves

LEMMA FindKeyGood == ASSUME Inv, NEW r \in Requests, FindKey(r) PROVE StepGood
<1>. DEFINE q == requests[r]
            x == [q EXCEPT !.step = "write"]
<1>1. q # None /\ q.step = "handle" /\ q.op \in {"rotateApiKey", "revokeApiKey"}
      /\ GotoIf(r, KeyOfPath(q), "write")
      /\ UNCHANGED <<rows, accessTokens, arrivals, keyed, retired>>
  BY DEF FindKey, At
<1>2. q \in Request /\ Judged(q)
  BY <1>1 DEF Inv, TypeOK, RequestsInv, Judged
<1>3. KeyOfPath(q) => x \in Request /\ Judged(x)
  BY <1>1, <1>2 DEF Judged, RequestOK, StepOK, TargetOK, GateOK, KeyOfPath, Request, ProjectOps, TenantOps
<1>. QED
  BY <1>1, <1>3, GoesOn

LEMMA FindProjectGood == ASSUME Inv, NEW r \in Requests, FindProject(r) PROVE StepGood
<1>. DEFINE q == requests[r]
            x == [q EXCEPT !.step = "write"]
<1>1. q # None /\ q.step = "handle" /\ q.op = "deleteProject"
      /\ GotoIf(r, Stored(q.project, q.tenant), "write")
      /\ UNCHANGED <<rows, accessTokens, arrivals, keyed, retired>>
  BY DEF FindProject, At
<1>2. q \in Request /\ Judged(q)
  BY <1>1 DEF Inv, TypeOK, RequestsInv, Judged
<1>3. Stored(q.project, q.tenant) => x \in Request /\ Judged(x)
  BY <1>1, <1>2 DEF Judged, RequestOK, StepOK, TargetOK, GateOK, Stored, Request, ProjectOps, TenantOps
<1>. QED
  BY <1>1, <1>3, GoesOn

LEMMA OwnsSomeGood == ASSUME Inv, NEW r \in Requests, isSessionTenantAdmin(r) PROVE StepGood
<1>. DEFINE q == requests[r]
            x == [q EXCEPT !.step = "served"]
<1>1. q # None /\ q.step = "owns" /\ GotoIf(r, OwnsSome(q), "served")
      /\ UNCHANGED <<rows, accessTokens, arrivals, keyed, retired>>
  BY DEF isSessionTenantAdmin
<1>2. q \in Request /\ Judged(q)
  BY <1>1 DEF Inv, TypeOK, RequestsInv, Judged
<1>3. q.op \in TenantOps /\ ~IsM2M(q.as) /\ OwnsAllOf(q, projects)
  BY <1>1, <1>2 DEF Judged, RequestOK, StepOK, GateOK, Request, ProjectOps, TenantOps
<1>4. x \in Request /\ x.step = "served" /\ x.op = q.op /\ x.as = q.as /\ x.tenant = q.tenant /\ x.scopes = q.scopes
  BY <1>2 DEF Request
<1>5. x \in Request /\ Judged(x)
  BY <1>1, <1>2, <1>3, <1>4 DEF Judged, RequestOK, StepOK, TargetOK, GateOK, OwnsAllOf, ProjectOps, TenantOps
<1>. QED
  BY <1>1, <1>5, GoesOn

LEMMA FindClientGood == ASSUME Inv, NEW r \in Requests, FindClient(r) PROVE StepGood
<1>. DEFINE q == requests[r]
            c == m2mTokens[q.target]
            y == [q EXCEPT !.step = "gate", !.project = c.project, !.scopes = c.scopes]
            x == IF c # Gone /\ Home[c.project] = q.tenant THEN y ELSE None
<1>1. q # None /\ q.step = "find" /\ q.op = "revokeM2MToken"
      /\ requests' = [requests EXCEPT ![r] = x]
      /\ UNCHANGED <<rows, accessTokens, arrivals, keyed, retired>>
  BY DEF FindClient, At
<1>2. q \in Request /\ Judged(q)
  BY <1>1 DEF Inv, TypeOK, RequestsInv, Judged
<1>3. q.target \in ClientIds /\ c # None
  BY <1>1, <1>2 DEF Judged, RequestOK, TargetOK
<1>4. ASSUME c # Gone, Home[c.project] = q.tenant
      PROVE  y \in Request /\ Judged(y)
  <2>1. c \in ClientRow
    BY <1>3, <1>4 DEF Inv, TypeOK
  <2>2. y \in Request /\ y.step = "gate" /\ y.op = "revokeM2MToken" /\ y.as = q.as /\ y.tenant = q.tenant
        /\ y.project = c.project /\ y.target = q.target
    BY <1>1, <1>2, <2>1 DEF Request, ClientRow
  <2>. QED
    BY <1>1, <1>2, <1>3, <1>4, <2>1, <2>2
    DEF Judged, RequestOK, StepOK, TargetOK, GateOK, ClientRow, ProjectOps, TenantOps
<1>5. x # None => x \in Request /\ Judged(x)
  BY <1>4
<1>. HIDE DEF x
<1>. QED
  BY <1>1, <1>5, Moves

---------------------------------------------------------------------------
(* Handlers that write: the one project they touch is the request's, over  *)
(* which it has authority.                                                 *)

\* The two sets of Belongings.
KeysOf(p) == {<<k, apiKeys[k]>> : k \in {i \in KeyIds : apiKeys[i] # None /\ apiKeys[i].project = p}}
ClientsOf(p) ==
    {<<c, m2mTokens[c]>> : c \in {i \in ClientIds : m2mTokens[i] \notin {None, Gone} /\ m2mTokens[i].project = p}}

\* A key of another project that is written changes nothing here.
LEMMA OtherKeys ==
    ASSUME Inv, NEW p, NEW k \in KeyIds, NEW x, apiKeys' = [apiKeys EXCEPT ![k] = x],
           apiKeys[k] # None => apiKeys[k].project # p, x # None, x.project # p
    PROVE  KeysOf(p)' = KeysOf(p)
<1>1. \A i \in KeyIds : i # k => apiKeys'[i] = apiKeys[i]
  BY DEF Inv, TypeOK
<1>2. apiKeys'[k] = x
  BY DEF Inv, TypeOK
<1>. QED
  BY <1>1, <1>2 DEF KeysOf

LEMMA OtherClients ==
    ASSUME Inv, NEW p, NEW c \in ClientIds, NEW x, m2mTokens' = [m2mTokens EXCEPT ![c] = x],
           m2mTokens[c] \notin {None, Gone} => m2mTokens[c].project # p, x \notin {None, Gone} => x.project # p
    PROVE  ClientsOf(p)' = ClientsOf(p)
<1>1. \A i \in ClientIds : i # c => m2mTokens'[i] = m2mTokens[i]
  BY DEF Inv, TypeOK
<1>2. m2mTokens'[c] = x
  BY DEF Inv, TypeOK
<1>. QED
  BY <1>1, <1>2 DEF ClientsOf

\* The writer has authority over its project, and ends.
LEMMA Writer ==
    ASSUME Inv, NEW r \in Requests, requests[r] # None, requests[r].step \in {"handle", "write"},
           Home[requests[r].project] = requests[r].tenant, Done(r),
           \A p \in Projects : p # requests[r].project =>
             (p \in projects)' = (p \in projects) /\ KeysOf(p)' = KeysOf(p) /\ ClientsOf(p)' = ClientsOf(p)
    PROVE  WritesOK
<1>. DEFINE q == requests[r]
<1>1. q \in Request /\ RequestOK(q, apiKeys, m2mTokens, projects, keyed)
  BY DEF Inv, TypeOK, RequestsInv
<1>2. Manages(q.as, q.project) /\ q.as \in Bearer
  BY <1>1 DEF RequestOK, GateOK, StepOK
<1>3. HasAuthority(q, q.project)
  BY <1>2 DEF HasAuthority, Manages, isTenantRootM2M, ScopesOf, ProjectOf, IsM2M, Bearer
<1>4. requests'[r] = None
  BY DEF Done, Inv, TypeOK
<1>5. ASSUME NEW p \in Projects, p # q.project PROVE Belongings(p)' = Belongings(p)
  BY <1>5 DEF Belongings, KeysOf, ClientsOf
<1>. QED
  BY <1>3, <1>4, <1>5 DEF WritesOK

\* What a writer shows, but for its own tables.
LEMMA Writes ==
    ASSUME Inv, NEW r \in Requests, requests[r] # None, Done(r), KeptNow, WritesOK,
           requests' \in [Requests -> Request \cup {None}] => TypeOK', RowsInv', RetiredInv'
    PROVE  StepGood
<1>1. RequestsInv' /\ requests' \in [Requests -> Request \cup {None}]
  BY OneRequest DEF Done
<1>2. Enters
  BY NoEntry DEF Done
<1>. QED
  BY <1>1, <1>2 DEF StepGood, Inv

LEMMA createApiKeyGood == ASSUME Inv, NEW r \in Requests, NEW k \in KeyIds, createApiKey(r, k) PROVE StepGood
<1>. DEFINE q == requests[r]
            x == [project |-> q.project, type |-> q.target, value |-> 1, status |-> "active"]
<1>1. /\ q # None /\ q.step = "handle" /\ q.op = "createApiKey"
      /\ apiKeys[k] = None /\ q.project \in Projects /\ Home[q.project] = q.tenant
      /\ apiKeys' = [apiKeys EXCEPT ![k] = x]
      /\ keyed' = IF q.target = "secret" THEN keyed \cup {q.tenant} ELSE keyed
      /\ Done(r) /\ UNCHANGED <<projects, m2mTokens, accessTokens, arrivals, retired>>
  BY DEF createApiKey, At, Stored, Inv, TypeOK
<1>2. q \in Request /\ q.target \in {"secret", "publishable"}
  BY <1>1 DEF Inv, TypeOK, RequestsInv, RequestOK, TargetOK
<1>3. x \in KeyRow /\ x # None /\ x.project = q.project /\ x.type = q.target
  BY <1>1, <1>2, NoneIsNoRecord DEF KeyRow
<1>. HIDE DEF x
<1>4. KeptNow
  BY <1>1 DEF KeptNow, Kept, Inv, TypeOK
<1>5. WritesOK
  <2>1. ASSUME NEW p \in Projects, p # q.project
        PROVE  (p \in projects)' = (p \in projects) /\ KeysOf(p)' = KeysOf(p) /\ ClientsOf(p)' = ClientsOf(p)
    <3>1. KeysOf(p)' = KeysOf(p)
      BY <1>1, <1>3, <2>1, OtherKeys
    <3>. QED
      BY <1>1, <3>1 DEF ClientsOf
  <2>. QED
    BY <1>1, <2>1, Writer
<1>6. requests' \in [Requests -> Request \cup {None}] => TypeOK'
  BY <1>1, <1>2, <1>3 DEF Inv, TypeOK, Request
<1>7. RowsInv'
  <2>1. ASSUME NEW i \in KeyIds, apiKeys'[i] # None, apiKeys'[i].type = "secret"
        PROVE  Home[apiKeys'[i].project] \in keyed'
    BY <1>1, <1>3, <2>1 DEF Inv, TypeOK, RowsInv
  <2>. QED
    BY <1>1, <2>1 DEF Inv, RowsInv
<1>8. RetiredInv'
  BY <1>1 DEF Inv, TypeOK, RetiredInv
<1>. QED
  BY <1>1, <1>4, <1>5, <1>6, <1>7, <1>8, Writes

\* Writing the row of a key: its project and its type stay.
LEMMA KeyWritten ==
    ASSUME Inv, NEW r \in Requests, At(r, "write", {"rotateApiKey", "revokeApiKey"}), Done(r),
           NEW x \in KeyRow, apiKeys' = [apiKeys EXCEPT ![requests[r].target] = x],
           x.project = apiKeys[requests[r].target].project, x.type = apiKeys[requests[r].target].type,
           x.value >= apiKeys[requests[r].target].value,
           apiKeys[requests[r].target].status = "revoked" => x.status = "revoked",
           NEW V \in SUBSET Nat, retired' = retired \cup {<<requests[r].target, v>> : v \in V},
           \A v \in V : v < x.value \/ x.status = "revoked",
           UNCHANGED <<projects, m2mTokens, accessTokens, arrivals, keyed>>
    PROVE  StepGood
<1>. DEFINE q == requests[r]
            k == q.target
<1>1. q # None /\ q.step = "write" /\ q.op \in {"rotateApiKey", "revokeApiKey"}
  BY DEF At
<1>2. /\ q \in Request /\ k \in KeyIds /\ apiKeys[k] # None /\ apiKeys[k].project = q.project
      /\ Home[q.project] = q.tenant
  BY <1>1 DEF Inv, TypeOK, RequestsInv, RequestOK, TargetOK, ProjectOps
<1>3. apiKeys[k] \in KeyRow /\ x # None /\ apiKeys'[k] = x /\ apiKeys' \in [KeyIds -> KeyRow \cup {None}]
      /\ \A i \in KeyIds : i # k => apiKeys'[i] = apiKeys[i]
  BY <1>2, NoneIsNoRecord DEF Inv, TypeOK
<1>4. KeptNow
  BY <1>2, <1>3 DEF KeptNow, Kept
<1>5. WritesOK
  <2>1. ASSUME NEW p \in Projects, p # q.project
        PROVE  (p \in projects)' = (p \in projects) /\ KeysOf(p)' = KeysOf(p) /\ ClientsOf(p)' = ClientsOf(p)
    <3>1. KeysOf(p)' = KeysOf(p)
      BY <1>2, <1>3, <2>1, OtherKeys
    <3>. QED
      BY <3>1 DEF ClientsOf
  <2>. QED
    BY <1>1, <1>2, <2>1, Writer
<1>6. requests' \in [Requests -> Request \cup {None}] => TypeOK'
  BY <1>2, <1>3 DEF Inv, TypeOK
<1>7. RowsInv'
  <2>1. ASSUME NEW i \in KeyIds, apiKeys'[i] # None, apiKeys'[i].type = "secret"
        PROVE  Home[apiKeys'[i].project] \in keyed'
    BY <1>2, <1>3, <2>1 DEF Inv, RowsInv
  <2>. QED
    BY <2>1 DEF Inv, RowsInv
<1>8. RetiredInv'
  <2>1. ASSUME NEW v \in retired
        PROVE  apiKeys'[v[1]] # None /\ (v[2] < apiKeys'[v[1]].value \/ apiKeys'[v[1]].status = "revoked")
    <3>1. v[1] \in KeyIds /\ v[2] \in Nat /\ apiKeys[v[1]] # None
          /\ (v[2] < apiKeys[v[1]].value \/ apiKeys[v[1]].status = "revoked")
      BY DEF Inv, TypeOK, RetiredInv
    <3>2. CASE v[1] = k
      <4>1. x.value \in Nat /\ apiKeys[k].value \in Nat
        BY <1>3 DEF KeyRow
      <4>. QED
        BY <1>3, <3>1, <3>2, <4>1
    <3>3. CASE v[1] # k
      BY <1>3, <3>1, <3>3
    <3>. QED
      BY <3>2, <3>3
  <2>2. ASSUME NEW n \in V
        PROVE  apiKeys'[k] # None /\ (n < apiKeys'[k].value \/ apiKeys'[k].status = "revoked")
    BY <1>3
  <2>3. ASSUME NEW v \in {<<k, n>> : n \in V}
        PROVE  apiKeys'[v[1]] # None /\ (v[2] < apiKeys'[v[1]].value \/ apiKeys'[v[1]].status = "revoked")
    BY <2>2
  <2>. QED
    BY <2>1, <2>3 DEF RetiredInv
<1>. QED
  BY <1>1, <1>4, <1>5, <1>6, <1>7, <1>8, Writes

\* The key of a request that writes one.
LEMMA WrittenKey ==
    ASSUME Inv, NEW r \in Requests, At(r, "write", {"rotateApiKey", "revokeApiKey"})
    PROVE  requests[r].target \in KeyIds /\ apiKeys[requests[r].target] \in KeyRow
  BY DEF At, Inv, TypeOK, RequestsInv, RequestOK, TargetOK

LEMMA rotateApiKeyGood == ASSUME Inv, NEW r \in Requests, rotateApiKey(r) PROVE StepGood
<1>. DEFINE k == requests[r].target
            x == [apiKeys[k] EXCEPT !.value = @ + 1]
            V == {apiKeys[k].value} \cup (IF apiKeys[k].status = "revoked" THEN {apiKeys[k].value + 1} ELSE {})
<1>1. At(r, "write", {"rotateApiKey", "revokeApiKey"}) /\ Done(r)
      /\ UNCHANGED <<projects, m2mTokens, accessTokens, arrivals, keyed>>
  BY DEF rotateApiKey, At
<1>2. k \in KeyIds /\ apiKeys[k] \in KeyRow
  BY <1>1, WrittenKey
<1>3. x \in KeyRow /\ x.project = apiKeys[k].project /\ x.type = apiKeys[k].type
      /\ x.value = apiKeys[k].value + 1 /\ x.status = apiKeys[k].status /\ apiKeys[k].value \in Nat
  BY <1>2 DEF KeyRow
<1>4. apiKeys' = [apiKeys EXCEPT ![k] = x]
  BY DEF rotateApiKey
<1>5. retired' = retired \cup {<<k, v>> : v \in V}
  BY DEF rotateApiKey
<1>6. V \in SUBSET Nat /\ \A v \in V : v < x.value \/ x.status = "revoked"
  BY <1>3
<1>. HIDE DEF x, V
<1>7. x.value >= apiKeys[k].value
  BY <1>3
<1>. QED
  BY <1>1, <1>3, <1>4, <1>5, <1>6, <1>7, KeyWritten

LEMMA revokeApiKeyGood == ASSUME Inv, NEW r \in Requests, revokeApiKey(r) PROVE StepGood
<1>. DEFINE k == requests[r].target
            x == [apiKeys[k] EXCEPT !.status = "revoked"]
            V == {apiKeys[k].value}
<1>1. At(r, "write", {"rotateApiKey", "revokeApiKey"}) /\ Done(r)
      /\ UNCHANGED <<projects, m2mTokens, accessTokens, arrivals, keyed>>
  BY DEF revokeApiKey, At
<1>2. k \in KeyIds /\ apiKeys[k] \in KeyRow
  BY <1>1, WrittenKey
<1>3. x \in KeyRow /\ x.project = apiKeys[k].project /\ x.type = apiKeys[k].type
      /\ x.value = apiKeys[k].value /\ x.status = "revoked" /\ apiKeys[k].value \in Nat
  BY <1>2 DEF KeyRow
<1>4. apiKeys' = [apiKeys EXCEPT ![k] = x] /\ retired' = retired \cup {<<k, v>> : v \in V}
  BY DEF revokeApiKey
<1>6. V \in SUBSET Nat
  BY <1>3
<1>. HIDE DEF x, V
<1>7. x.value >= apiKeys[k].value
  BY <1>3
<1>. QED
  BY <1>1, <1>3, <1>4, <1>6, <1>7, KeyWritten

LEMMA deleteProjectGood == ASSUME Inv, NEW r \in Requests, deleteProject(r) PROVE StepGood
<1>. DEFINE q == requests[r]
<1>1. /\ q # None /\ q.step = "write" /\ q.op = "deleteProject"
      /\ projects' = projects \ {q.project}
      /\ Done(r) /\ UNCHANGED <<apiKeys, m2mTokens, accessTokens, arrivals, keyed, retired>>
  BY DEF deleteProject, At
<1>2. Home[q.project] = q.tenant
  BY <1>1 DEF Inv, TypeOK, RequestsInv, RequestOK, TargetOK, ProjectOps
<1>3. KeptNow
  BY <1>1 DEF KeptNow, Kept
<1>4. WritesOK
  BY <1>1, <1>2, Writer DEF KeysOf, ClientsOf
<1>5. requests' \in [Requests -> Request \cup {None}] => TypeOK'
  BY <1>1 DEF Inv, TypeOK
<1>6. RowsInv' /\ RetiredInv'
  BY <1>1 DEF Inv, RowsInv, RetiredInv
<1>. QED
  BY <1>1, <1>3, <1>4, <1>5, <1>6, Writes

LEMMA createM2MTokenGood == ASSUME Inv, NEW r \in Requests, NEW c \in ClientIds, createM2MToken(r, c) PROVE StepGood
<1>. DEFINE q == requests[r]
            x == [project |-> q.project, scopes |-> q.scopes]
<1>1. /\ q # None /\ q.step = "handle" /\ q.op = "createM2MToken"
      /\ m2mTokens[c] = None /\ q.project \in Projects /\ Home[q.project] = q.tenant
      /\ m2mTokens' = [m2mTokens EXCEPT ![c] = x]
      /\ Done(r) /\ UNCHANGED <<projects, apiKeys, accessTokens, arrivals, keyed, retired>>
  BY DEF createM2MToken, At, Stored, Inv, TypeOK
<1>2. q \in Request /\ (q.scopes \cap Privileged # {} => q.tenant \in keyed)
  BY <1>1 DEF Inv, TypeOK, RequestsInv, RequestOK, GateOK
<1>3. x \in ClientRow /\ x # None /\ x # Gone /\ x.project = q.project /\ x.scopes = q.scopes
  BY <1>1, <1>2, NoneIsNoRecord DEF ClientRow, Request
<1>. HIDE DEF x
<1>4. KeptNow
  BY <1>1 DEF KeptNow, Kept, Inv, TypeOK
<1>5. WritesOK
  <2>1. ASSUME NEW p \in Projects, p # q.project
        PROVE  (p \in projects)' = (p \in projects) /\ KeysOf(p)' = KeysOf(p) /\ ClientsOf(p)' = ClientsOf(p)
    <3>1. ClientsOf(p)' = ClientsOf(p)
      BY <1>1, <1>3, <2>1, OtherClients
    <3>. QED
      BY <1>1, <3>1 DEF KeysOf
  <2>. QED
    BY <1>1, <2>1, Writer
<1>6. requests' \in [Requests -> Request \cup {None}] => TypeOK'
  BY <1>1, <1>3 DEF Inv, TypeOK
<1>7. RowsInv' /\ RetiredInv'
  BY <1>1, <1>2, <1>3 DEF Inv, TypeOK, RowsInv, RetiredInv
<1>. QED
  BY <1>1, <1>4, <1>5, <1>6, <1>7, Writes

LEMMA revokeM2MTokenGood == ASSUME Inv, NEW r \in Requests, revokeM2MToken(r) PROVE StepGood
<1>. DEFINE q == requests[r]
            c == q.target
<1>1. /\ q # None /\ q.step = "handle" /\ q.op = "revokeM2MToken"
      /\ m2mTokens' = [m2mTokens EXCEPT ![c] = Gone]
      /\ Done(r) /\ UNCHANGED <<projects, apiKeys, accessTokens, arrivals, keyed, retired>>
  BY DEF revokeM2MToken, At
<1>2. /\ c \in ClientIds /\ Home[q.project] = q.tenant
      /\ m2mTokens[c] # None /\ (m2mTokens[c] # Gone => m2mTokens[c].project = q.project)
  BY <1>1 DEF Inv, TypeOK, RequestsInv, RequestOK, TargetOK
<1>4. KeptNow
  BY <1>1, <1>2, NoneIsNoRecord DEF KeptNow, Kept, Inv, TypeOK
<1>5. WritesOK
  <2>1. ASSUME NEW p \in Projects, p # q.project
        PROVE  (p \in projects)' = (p \in projects) /\ KeysOf(p)' = KeysOf(p) /\ ClientsOf(p)' = ClientsOf(p)
    <3>1. ClientsOf(p)' = ClientsOf(p)
      BY <1>1, <1>2, <2>1, OtherClients
    <3>. QED
      BY <1>1, <3>1 DEF KeysOf
  <2>. QED
    BY <1>1, <1>2, <2>1, Writer
<1>6. requests' \in [Requests -> Request \cup {None}] => TypeOK'
  BY <1>1, <1>2 DEF Inv, TypeOK
<1>7. RowsInv' /\ RetiredInv'
  BY <1>1, <1>2 DEF Inv, TypeOK, RowsInv, RetiredInv
<1>. QED
  BY <1>1, <1>4, <1>5, <1>6, <1>7, Writes

---------------------------------------------------------------------------
(* Access tokens. *)

LEMMA ExchangeGood == ASSUME Inv, NEW r \in Requests, NEW c \in ClientIds, Exchange(r, c) PROVE StepGood
<1>1. PICK granted \in SUBSET m2mTokens[c].scopes :
         requests' = [requests EXCEPT ![r] =
           [Ask("exchange", "sign") EXCEPT !.target = c, !.project = m2mTokens[c].project,
              !.tenant = Home[m2mTokens[c].project], !.scopes = granted]]
  BY DEF Exchange
<1>. DEFINE p == m2mTokens[c].project
            x == [Ask("exchange", "sign") EXCEPT !.target = c, !.project = p, !.tenant = Home[p], !.scopes = granted]
<1>2. /\ requests[r] = None /\ arrivals < MaxArrivals /\ arrivals' = arrivals + 1
      /\ m2mTokens[c] \notin {None, Gone} /\ UNCHANGED <<rows, accessTokens, keyed, retired>>
  BY DEF Exchange
<1>3. m2mTokens[c] \in ClientRow
  BY <1>2 DEF Inv, TypeOK
<1>4. p \in Projects /\ Home[p] \in Tenants /\ granted \in SUBSET Scopes
  BY <1>3, AccessAssumption DEF ClientRow
<1>5. x \in Request /\ x.op = "exchange" /\ x.step = "sign" /\ x.target = c /\ x.project = p /\ x.tenant = Home[p]
      /\ x.scopes = granted
  BY <1>4 DEF Ask, Request
<1>6. x.scopes \cap Privileged # {} => x.tenant \in keyed
  BY <1>2, <1>5 DEF Inv, RowsInv
<1>. HIDE DEF x
<1>7. Judged(x)
  BY <1>2, <1>4, <1>5, <1>6 DEF Judged, RequestOK, StepOK, TargetOK, GateOK, ProjectOps, TenantOps
<1>8. KeptNow
  BY <1>2 DEF KeptNow, Kept, rows
<1>9. requests' = [requests EXCEPT ![r] = x]
  BY <1>1 DEF x
<1>10. RequestsInv' /\ requests' \in [Requests -> Request \cup {None}]
  BY <1>2, <1>5, <1>7, <1>8, <1>9, OneRequest DEF Judged, rows
<1>11. TypeOK' /\ RowsInv' /\ RetiredInv'
  BY <1>2, <1>10, AccessAssumption DEF Inv, TypeOK, RowsInv, RetiredInv, rows
<1>12. Enters
  BY <1>5, <1>9 DEF Enters, Inv, TypeOK
<1>. QED
  BY <1>2, <1>10, <1>11, <1>12, SameRows DEF StepGood, Inv

LEMMA generateJwtGood == ASSUME Inv, NEW r \in Requests, generateJwt(r) PROVE StepGood
<1>. DEFINE q == requests[r]
            token == AccessToken(q.target, q.project, q.tenant, q.scopes)
<1>1. /\ q # None /\ q.op = "exchange" /\ accessTokens' = accessTokens \cup {token}
      /\ Done(r) /\ UNCHANGED <<rows, arrivals, keyed, retired>>
  BY DEF generateJwt, At
<1>2. q \in Request /\ q.target \in ClientIds /\ q.project \in Projects
      /\ (q.scopes \cap Privileged # {} => q.tenant \in keyed)
  <2>1. q \in Request /\ RequestOK(q, apiKeys, m2mTokens, projects, keyed)
    BY <1>1 DEF Inv, TypeOK, RequestsInv
  <2>2. q.target \in ClientIds /\ q.project \in Projects
    BY <1>1, <2>1 DEF RequestOK, TargetOK
  <2>3. GateOK(q, projects, keyed) /\ q.op = "exchange"
    BY <1>1, <2>1 DEF RequestOK
  <2>4. q.scopes \cap Privileged # {} => q.tenant \in keyed
    BY <2>3 DEF GateOK
  <2>. QED
    BY <2>1, <2>2, <2>4
<1>3. token \in Bearer /\ token.kind = "token" /\ token.tenant = q.tenant /\ token.scopes = q.scopes
  BY <1>2 DEF AccessToken, Bearer, Request
<1>. HIDE DEF token
<1>4. KeptNow
  BY <1>1 DEF KeptNow, Kept, rows
<1>5. requests' \in [Requests -> Request \cup {None}] => TypeOK'
  BY <1>1, <1>3 DEF Inv, TypeOK, rows
<1>6. RowsInv' /\ RetiredInv'
  BY <1>1, <1>2, <1>3 DEF Inv, RowsInv, RetiredInv, rows
<1>. QED
  BY <1>1, <1>4, <1>5, <1>6, SameRows, Writes

LEMMA ExpireGood == ASSUME Inv, NEW token \in accessTokens, Expire(token) PROVE StepGood
<1>1. accessTokens' = accessTokens \ {token} /\ UNCHANGED <<rows, requests, arrivals, keyed, retired>>
  BY DEF Expire
<1>2. KeptNow
  BY <1>1 DEF KeptNow, Kept, rows
<1>3. Inv' /\ Enters
  BY <1>1, <1>2, NoRequest DEF Inv, TypeOK, RowsInv, RetiredInv, Enters, rows
<1>. QED
  BY <1>1, <1>3, SameRows DEF StepGood

---------------------------------------------------------------------------
(* Every step. *)

LEMMA StutterGood == ASSUME Inv, UNCHANGED vars PROVE StepGood
<1>1. UNCHANGED <<rows, accessTokens, requests, arrivals, keyed, retired>>
  BY DEF vars, rows
<1>2. KeptNow
  BY <1>1 DEF KeptNow, Kept, rows
<1>3. Inv' /\ Enters
  BY <1>1, <1>2, NoRequest DEF Inv, TypeOK, RowsInv, RetiredInv, Enters, rows
<1>. QED
  BY <1>1, <1>3, SameRows DEF StepGood

LEMMA StepIsGood == Inv /\ [Next]_vars => StepGood
<1>. SUFFICES ASSUME Inv, [Next]_vars PROVE StepGood
  OBVIOUS
<1>1. ASSUME NEW r \in Requests, AskAny(r) PROVE StepGood
  BY <1>1, AskForProjectGood, AskForClientGood, AskForTenantGood DEF AskAny
<1>2. ASSUME NEW r \in Requests, Handle(r) PROVE StepGood
  BY <1>2, EndGood, PassGateGood, FindKeyGood, FindProjectGood, FindClientGood, OwnsSomeGood,
     createApiKeyGood, rotateApiKeyGood, revokeApiKeyGood, deleteProjectGood, createM2MTokenGood,
     revokeM2MTokenGood, ExchangeGood, generateJwtGood
  DEF Handle
<1>3. ASSUME NEW token \in accessTokens, Expire(token) PROVE StepGood
  BY <1>3, ExpireGood
<1>. QED
  BY <1>1, <1>2, <1>3, StutterGood DEF Next

LEMMA InitGood == Init => Inv
<1>. SUFFICES ASSUME Init PROVE Inv
  OBVIOUS
<1>1. TypeOK
  BY AccessAssumption DEF Init, TypeOK
<1>. QED
  BY <1>1 DEF Init, Inv, RowsInv, RetiredInv, RequestsInv

LEMMA AlwaysInv == Spec => []Inv
<1>1. Inv /\ [Next]_vars => Inv'
  BY StepIsGood DEF StepGood
<1>. QED
  BY <1>1, InitGood, PTL DEF Spec

---------------------------------------------------------------------------
(* Theorems *)

\* Type correctness.
THEOREM TypeCorrect == Spec => []TypeOK
<1>1. Inv => TypeOK
  BY DEF Inv
<1>. QED
  BY <1>1, AlwaysInv, PTL

\* A tenant-wide or administrative scope exists in a tenant only if it has had
\* a secret key (tokenGrantGuard, m2m.service.ts, requireM2M and the two gates
\* that also let sessions pass).
THEOREM AuthorityIsSourced == Spec => []AuthorityHasSource
<1>1. Inv => AuthorityHasSource
  <2>. SUFFICES ASSUME Inv PROVE AuthorityHasSource
    OBVIOUS
  <2>1. ASSUME NEW r \in Requests, requests[r] # None, requests[r].step = "served"
        PROVE  IF IsM2M(requests[r].as) THEN requests[r].tenant \in keyed
               ELSE IsSelf(requests[r]) \/ OwnsAll(requests[r])
    BY <2>1 DEF Inv, RequestsInv, RequestOK, GateOK, OwnsAll, OwnsAllOf
  <2>. QED
    BY <2>1 DEF AuthorityHasSource, Inv, RowsInv
<1>. QED
  BY <1>1, AlwaysInv, PTL

\* No request is let in with a value that a rotation or a revocation retired,
\* however many of them overlap (apikey.service.ts, authMiddleware).
THEOREM RetiredStayOut == Spec => RetiredKeysStayOut
<1>1. Inv /\ [Next]_vars =>
        [\A r \in Requests :
           requests[r] = None /\ requests'[r] # None /\ requests'[r].op # "exchange" =>
             LET as == requests'[r].as IN as.kind = "key" => <<as.id, as.value>> \notin retired]_vars
  BY StepIsGood DEF StepGood, Enters
<1>. QED
  BY <1>1, AlwaysInv, PTL DEF Spec, RetiredKeysStayOut

\* Keys, clients and projects change only at the end of a request with
\* authority over the project they belong to (requireProjectAccess, findKey,
\* revokeM2MToken's own look-up).
THEOREM WritesStay == Spec => WritesStayInProject
<1>1. Inv /\ [Next]_vars =>
        [\A p \in Projects : Belongings(p)' # Belongings(p) =>
           \E r \in Requests : requests[r] # None /\ requests'[r] = None /\ HasAuthority(requests[r], p)]_rows
  BY StepIsGood DEF StepGood, WritesOK
<1>. QED
  BY <1>1, AlwaysInv, PTL DEF Spec, WritesStayInProject
=============================================================================
