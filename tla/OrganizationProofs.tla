------------------------- MODULE OrganizationProofs -------------------------
(***************************************************************************)
(* Organisations, their members and their roles for any number of users,   *)
(* keys, requests and organisations: type correctness, the foreign keys,   *)
(* that nothing is written outside the path's organisation, that authority *)
(* comes from authority, and that leaves and deletions nobody raced keep   *)
(* what they promise.                                                      *)
(***************************************************************************)
EXTENDS Organization, FiniteSetTheorems, TLAPS

(* Requests and where they are *)

\* The operations that a permission gates.
Gated == DOMAIN FirstStatement \ {"leaveOrganization", "createOrganization"}

\* The statement behind the gate, operation by operation.
LEMMA FirstStatementIs ==
    /\ DOMAIN FirstStatement =
         {"createMembership", "updateMembership", "deleteMembership", "leaveOrganization",
          "createRole", "updateRole", "deleteRole", "deleteOrganization",
          "createOrganization"}
    /\ FirstStatement["createMembership"] = "insertMembership"
    /\ FirstStatement["updateMembership"] = "findMembership"
    /\ FirstStatement["deleteMembership"] = "findMembership"
    /\ FirstStatement["leaveOrganization"] = "findOwnMembership"
    /\ FirstStatement["createRole"] = "insertRole"
    /\ FirstStatement["updateRole"] = "findRole"
    /\ FirstStatement["deleteRole"] = "findRole"
    /\ FirstStatement["deleteOrganization"] = "deleteOrganization"
    /\ FirstStatement["createOrganization"] = "insertOrganization"
  BY DEF FirstStatement

\* What the default roles may do; a member may do nothing.
LEMMA DefaultPermissionsAre ==
    /\ DefaultPermissions["owner"] = {"org:write", "members:write"}
    /\ DefaultPermissions["admin"] = {"members:write"}
    /\ DefaultPermissions["member"] = {}
  BY DEF DefaultPermissions

\* What the parameters of an operation are.
ArgsOK(l) ==
    /\ l.op = "createMembership" => l.target \in Users /\ l.name \in Names
    /\ l.op = "updateMembership" => l.name \in Names
    /\ l.op = "createRole" => l.name \in Names /\ l.perms \in PermSets

\* Which operations can be at a statement, and what they have passed before it.
At(p, l) ==
    /\ l.op = "leaveOrganization"
         <=> p \in {"findOwnMembership", "countOwners", "deleteOwnMembership"}
    /\ p \in {"resolvePermissions", "checkProject"} => l.op \in Gated
    /\ p = "checkProject" =>
         l.caller \in Keys /\ Needed(l.op) \in KeyScopes[l.caller]
    /\ p = "insertMembership" => l.op = "createMembership"
    /\ p = "findMembership" => l.op \in {"updateMembership", "deleteMembership"}
    /\ p = "writeMembership" => l.op \in {"updateMembership", "deleteMembership"}
    /\ p = "insertRole" => l.op = "createRole"
    /\ p = "findRole" => l.op \in {"updateRole", "deleteRole"}
    /\ p = "writeRole" => l.op = "updateRole"
    /\ p \in {"checkMembers", "deleteRole"} => l.op = "deleteRole"
    /\ p = "deleteOrganization" => l.op = "deleteOrganization"
    /\ p \in {"insertOrganization", "insertOwner"} => l.op = "createOrganization"
    /\ p = "insertOwner" => l.caller \in Users
    /\ p = "enroll" => l.op = "signUp" /\ l.caller \in Users

\* A position and the variables that go with it.
Handler(p, l) ==
    \/ p \in {"new", "over"} /\ l = None
    \/ /\ p \in InFlight
       /\ l \in Locals
       /\ ArgsOK(l)
       /\ At(p, l)

HandlersOK ==
    /\ pc \in [Requests -> InFlight \cup {"new", "over"}]
    /\ loc \in [Requests -> Locals \cup {None}]
    /\ \A r \in Requests : Handler(pc[r], loc[r])

TablesOK ==
    /\ users \subseteq Users
    /\ organizations \in [Orgs -> {"unused", "live", "deleted"}]
    /\ memberships \subseteq Membership
    /\ IsFiniteSet(memberships)
    /\ customRoles \subseteq CustomRole

\* Request r moves and nobody else does.
Moves(r) ==
    \E p, l :
      /\ p \in InFlight \cup {"over"}
      /\ pc[r] # "over"
      /\ Handler(p, l)
      /\ pc' = [pc EXCEPT ![r] = p]
      /\ loc' = [loc EXCEPT ![r] = l]

\* The positions of a handler, written out.
LEMMA PositionsAre ==
    /\ Statements = {"insertMembership", "findMembership", "findOwnMembership",
         "insertRole", "findRole", "deleteOrganization", "insertOrganization",
         "writeMembership", "countOwners", "deleteOwnMembership", "writeRole",
         "checkMembers", "deleteRole", "insertOwner"}
    /\ InFlight = Statements \cup {"checkProject", "resolvePermissions", "enroll"}
<1>1. Statements = {FirstStatement[op] : op \in DOMAIN FirstStatement} \cup
    {"writeMembership", "countOwners", "deleteOwnMembership", "writeRole",
     "checkMembers", "deleteRole", "insertOwner"}
  BY DEF Statements
<1> QED
  BY <1>1, FirstStatementIs DEF InFlight

\* What a client sends fits the operation.
LEMMA CallFits ==
    ASSUME TablesOK, NEW call \in Calls
    PROVE  /\ call \in Locals
           /\ call.op \in Gated \cup {"leaveOrganization"}
           /\ ArgsOK(call)
           /\ call.caller \in Callers
<1> DEFINE Of(op, targets, names, perms) ==
      [op : {op}, caller : users \cup Keys,
       org : {o \in Orgs : organizations[o] # "unused"},
       target : targets, name : names, perms : perms, role : {None}]
<1> DEFINE Some(op, names, perms) ==
      /\ call \in [op : {op}, caller : Callers, org : Orgs,
                   target : RowIds \cup Users \cup {None}, name : names,
                   perms : perms, role : {None}]
<1>1. /\ {m.id : m \in memberships} \subseteq RowIds
      /\ {p.id : p \in customRoles} \subseteq RowIds
  BY DEF TablesOK, Membership, CustomRole
<1>2. \A op, targets, names, perms :
        call \in Of(op, targets, names, perms) /\ targets \subseteq RowIds \cup Users \cup {None}
          => Some(op, names, perms)
  BY DEF TablesOK, Callers
<1>3. \/ call \in Of("createMembership", Users, Names, {None})
      \/ call \in Of("updateMembership", {m.id : m \in memberships}, Names, {None})
      \/ call \in Of("deleteMembership", {m.id : m \in memberships}, {None}, {None})
      \/ call \in Of("leaveOrganization", {None}, {None}, {None})
      \/ call \in Of("createRole", {None}, Names, PermSets)
      \/ call \in Of("updateRole", {p.id : p \in customRoles}, Names \cup {None}, PermSets \cup {None})
      \/ call \in Of("deleteRole", {p.id : p \in customRoles}, {None}, {None})
      \/ call \in Of("deleteOrganization", {None}, {None}, {None})
  BY DEF Calls
<1>4. call.op = "createMembership" => call.target \in Users
  BY <1>3
<1>5. \/ Some("createMembership", Names, {None})
      \/ Some("updateMembership", Names, {None})
      \/ Some("deleteMembership", {None}, {None})
      \/ Some("leaveOrganization", {None}, {None})
      \/ Some("createRole", Names, PermSets)
      \/ Some("updateRole", Names \cup {None}, PermSets \cup {None})
      \/ Some("deleteRole", {None}, {None})
      \/ Some("deleteOrganization", {None}, {None})
  <2> HIDE DEF Of, Some
  <2> QED
    BY <1>1, <1>2, <1>3
<1>6. call \in Locals /\ call.caller \in Callers
  <2>1. \A op \in Operations : \A names, perms :
          /\ Some(op, names, perms)
          /\ names \subseteq Names \cup {None}
          /\ perms \subseteq PermSets \cup {None}
          => call \in Locals /\ call.caller \in Callers
    BY DEF Locals
  <2>2. {"createMembership", "updateMembership", "deleteMembership",
          "leaveOrganization", "createRole", "updateRole", "deleteRole",
          "deleteOrganization"} \subseteq Operations
    BY DEF Operations
  <2> HIDE DEF Some
  <2> QED
    BY <1>5, <2>1, <2>2
<1>7. call.op \in Gated \cup {"leaveOrganization"}
  BY <1>5, FirstStatementIs DEF Gated
<1>8. call.op = "createMembership" => call.name \in Names
  BY <1>5
<1>9. call.op = "updateMembership" => call.name \in Names
  BY <1>5
<1>10. call.op = "createRole" => call.name \in Names /\ call.perms \in PermSets
  BY <1>5
<1> QED
  BY <1>4, <1>6, <1>7, <1>8, <1>9, <1>10 DEF ArgsOK

\* Behind the gate.
LEMMA FirstFits ==
    ASSUME NEW l \in Locals, l.op \in Gated, ArgsOK(l)
    PROVE  FirstStatement[l.op] \in Statements /\ Handler(FirstStatement[l.op], l)
<1>1. l.op \in {"createMembership", "updateMembership", "deleteMembership",
          "createRole", "updateRole", "deleteRole", "deleteOrganization"}
  BY FirstStatementIs DEF Gated
<1> QED
  BY <1>1, FirstStatementIs, PositionsAre DEF Handler, At, Gated

\* A request that goes on, with variables that fit the position, moves.
LEMMA MoveTo ==
    ASSUME NEW r \in Requests, pc[r] # "over", NEW p \in InFlight \cup {"over"},
           NEW l, Handler(p, l), Continue(r, p, l)
    PROVE  Moves(r)
  BY DEF Moves, Continue

\* A request that is answered moves.
LEMMA MoveEnd ==
    ASSUME NEW r \in Requests, pc[r] # "over", End(r)
    PROVE  Moves(r)
  BY MoveTo DEF End, Handler

\* The steps of the gate.
LEMMA GateMoves ==
    ASSUME TablesOK, HandlersOK, NEW r \in Requests, Gate(r)
    PROVE  Moves(r)
<1>h. Handler(pc[r], loc[r])
  BY DEF HandlersOK
<1>1. ASSUME NEW call \in Calls, AuthenticateUser(r, call)
      PROVE  Moves(r)
  <2>1. /\ call \in Locals
        /\ call.op \in Gated \cup {"leaveOrganization"}
        /\ ArgsOK(call)
    BY CallFits
  <2>2. pc[r] # "over"
    BY <1>1 DEF AuthenticateUser
  <2>3. CASE End(r)
    BY <2>2, <2>3, MoveEnd
  <2>4. CASE Continue(r, FirstStatement[call.op], call)
    <3>1. CASE call.op \in Gated
      BY <2>1, <2>2, <2>4, <3>1, FirstFits, MoveTo, PositionsAre
    <3>2. CASE call.op = "leaveOrganization"
      <4>1. Handler("findOwnMembership", call)
        BY <2>1, <3>2, PositionsAre DEF Handler, At
      <4> QED
        BY <2>2, <2>4, <3>2, <4>1, FirstStatementIs, PositionsAre, MoveTo
    <3> QED
      BY <2>1, <3>1, <3>2
  <2>5. ASSUME NEW m \in memberships, call.op # "leaveOrganization",
               Continue(r, "resolvePermissions", [call EXCEPT !.role = m.role])
        PROVE  Moves(r)
    <3> DEFINE l == [call EXCEPT !.role = m.role]
    <3>1. m.role \in Names
      BY DEF TablesOK, Membership
    <3>2. l \in Locals /\ l.op = call.op /\ ArgsOK(l)
      BY <2>1, <3>1 DEF Locals, ArgsOK
    <3>3. Handler("resolvePermissions", l)
      BY <2>1, <2>5, <3>2, PositionsAre DEF Handler, At
    <3> QED
      BY <2>2, <2>5, <3>3, PositionsAre, MoveTo
  <2> QED
    <3>1. MembershipsOf(call.caller, call.org) \subseteq memberships
      BY DEF MembershipsOf
    <3> QED
      BY <1>1, <2>3, <2>4, <2>5, <3>1 DEF AuthenticateUser
<1>2. ASSUME NEW call \in Calls, AuthenticateKey(r, call)
      PROVE  Moves(r)
  <2>1. /\ call \in Locals
        /\ call.op \in Gated \cup {"leaveOrganization"}
        /\ ArgsOK(call)
    BY CallFits
  <2>2. pc[r] # "over"
    BY <1>2 DEF AuthenticateKey
  <2>3. CASE End(r)
    BY <2>2, <2>3, MoveEnd
  <2>4. CASE /\ call.op # "leaveOrganization"
             /\ Continue(r, FirstStatement[call.op], call)
    BY <2>1, <2>2, <2>4, FirstFits, MoveTo, PositionsAre
  <2>5. CASE /\ call.op # "leaveOrganization"
             /\ Needed(call.op) \in KeyScopes[call.caller]
             /\ Continue(r, "checkProject", call)
    <3>1. Handler("checkProject", call)
      BY <1>2, <2>1, <2>5, PositionsAre DEF Handler, At, AuthenticateKey
    <3> QED
      BY <2>2, <2>5, <3>1, PositionsAre, MoveTo
  <2> QED
    BY <1>2, <2>3, <2>4, <2>5 DEF AuthenticateKey
<1>3. ASSUME NEW c \in Callers, NEW o \in Orgs, RequestOrganization(r, c, o)
      PROVE  Moves(r)
  <2> DEFINE l == [op |-> "createOrganization", caller |-> c, org |-> o,
                   target |-> None, name |-> None, perms |-> None, role |-> None]
  <2>1. pc[r] # "over"
    BY <1>3 DEF RequestOrganization
  <2>2. l \in Locals
    BY DEF Locals, Operations
  <2>3. Handler("insertOrganization", l)
    BY <2>2, PositionsAre DEF Handler, At, ArgsOK
  <2> HIDE DEF l
  <2>4. End(r) \/ Continue(r, "insertOrganization", l)
    BY <1>3 DEF RequestOrganization, l
  <2> QED
    BY <2>1, <2>3, <2>4, PositionsAre, MoveTo, MoveEnd
<1>4. CASE CheckProject(r) \/ ResolvePermissions(r)
  <2>1. pc[r] \in {"checkProject", "resolvePermissions"}
    BY <1>4 DEF CheckProject, ResolvePermissions
  <2>2. loc[r] \in Locals /\ ArgsOK(loc[r]) /\ loc[r].op \in Gated
    BY <1>h, <2>1 DEF Handler, At
  <2>3. End(r) \/ Continue(r, FirstStatement[loc[r].op], loc[r])
    BY <1>4 DEF CheckProject, ResolvePermissions, Goes, Refuse
  <2> QED
    BY <2>1, <2>2, <2>3, FirstFits, MoveTo, MoveEnd, PositionsAre
<1> QED
  BY <1>1, <1>2, <1>3, <1>4 DEF Gate

\* The steps behind the gate.
LEMMA WorkMoves ==
    ASSUME TablesOK, HandlersOK, NEW r \in Requests,
           Members(r) \/ Roles(r) \/ Organizations(r)
    PROVE  Moves(r)
<1>h. Handler(pc[r], loc[r])
  BY DEF HandlersOK
<1>1. CASE /\ End(r)
           /\ pc[r] # "over"
  BY <1>1, MoveEnd
<1>2. CASE FindMembership(r) /\ Continue(r, "writeMembership", loc[r])
  <2>1. Handler("writeMembership", loc[r])
    BY <1>h, <1>2, PositionsAre DEF FindMembership, Handler, At
  <2> QED
    BY <1>2, <2>1, PositionsAre, MoveTo DEF FindMembership
<1>3. ASSUME FindOwnMembership(r), NEW m \in memberships,
             NEW p \in {"countOwners", "deleteOwnMembership"},
             Continue(r, p, [loc[r] EXCEPT !.target = m.id])
      PROVE  Moves(r)
  <2> DEFINE l == [loc[r] EXCEPT !.target = m.id]
  <2>1. loc[r] \in Locals /\ At("findOwnMembership", loc[r]) /\ ArgsOK(loc[r])
    BY <1>h, <1>3, PositionsAre DEF FindOwnMembership, Handler
  <2>2. m.id \in RowIds
    BY DEF TablesOK, Membership
  <2>3. l \in Locals /\ l.op = "leaveOrganization"
    BY <2>1, <2>2 DEF Locals, At
  <2>4. Handler(p, l)
    BY <2>3, PositionsAre DEF Handler, At, ArgsOK
  <2> QED
    BY <1>3, <2>4, PositionsAre, MoveTo DEF FindOwnMembership
<1>4. CASE CountOwners(r) /\ Continue(r, "deleteOwnMembership", loc[r])
  <2>1. Handler("deleteOwnMembership", loc[r])
    BY <1>h, <1>4, PositionsAre DEF CountOwners, Handler, At
  <2> QED
    BY <1>4, <2>1, PositionsAre, MoveTo DEF CountOwners
<1>5. ASSUME FindRole(r), NEW p \in customRoles,
             NEW q, q = IF loc[r].op = "updateRole" THEN "writeRole" ELSE "checkMembers",
             Continue(r, q, [loc[r] EXCEPT !.role = p.name])
      PROVE  Moves(r)
  <2> DEFINE l == [loc[r] EXCEPT !.role = p.name]
  <2>1. /\ loc[r] \in Locals /\ ArgsOK(loc[r])
        /\ loc[r].op \in {"updateRole", "deleteRole"}
    BY <1>h, <1>5, PositionsAre DEF FindRole, Handler, At
  <2>2. p.name \in Names
    BY DEF TablesOK, CustomRole
  <2>3. l \in Locals /\ l.op = loc[r].op
    BY <2>1, <2>2 DEF Locals
  <2>4. Handler(q, l)
    BY <1>5, <2>1, <2>3, PositionsAre DEF Handler, At, ArgsOK
  <2> QED
    BY <1>5, <2>1, <2>4, PositionsAre, MoveTo DEF FindRole
<1>6. CASE CheckMembers(r) /\ Continue(r, "deleteRole", loc[r])
  <2>1. Handler("deleteRole", loc[r])
    BY <1>h, <1>6, PositionsAre DEF CheckMembers, Handler, At
  <2> QED
    BY <1>6, <2>1, PositionsAre, MoveTo DEF CheckMembers
<1>7. CASE InsertOrganization(r) /\ loc[r].caller \in Users
           /\ Continue(r, "insertOwner", loc[r])
  <2>1. Handler("insertOwner", loc[r])
    BY <1>h, <1>7, PositionsAre DEF InsertOrganization, Handler, At
  <2> QED
    BY <1>7, <2>1, PositionsAre, MoveTo DEF InsertOrganization
<1>8. ASSUME NEW u \in Users, NEW o \in Orgs, pc[r] = "new",
             Continue(r, "enroll",
               [op |-> "signUp", caller |-> u, org |-> o, target |-> None,
                name |-> None, perms |-> None, role |-> None])
      PROVE  Moves(r)
  <2> DEFINE l == [op |-> "signUp", caller |-> u, org |-> o, target |-> None,
                   name |-> None, perms |-> None, role |-> None]
  <2>1. l \in Locals
    BY DEF Locals, Operations, Callers
  <2>2. Handler("enroll", l)
    BY <2>1, PositionsAre DEF Handler, At, ArgsOK
  <2> QED
    BY <1>8, <2>2, PositionsAre, MoveTo
<1>m. CASE Members(r)
  BY <1>m, <1>1, <1>2, <1>3, <1>4
  DEF Members, InsertMembership, FindMembership, WriteMembership, FindOwnMembership,
      CountOwners, DeleteOwnMembership, Written, Refuse, Goes, MembershipsOf
<1>r. CASE Roles(r)
  BY <1>r, <1>1, <1>5, <1>6
  DEF Roles, InsertRole, FindRole, WriteRole, CheckMembers, DeleteRole, Written, Refuse, Goes
<1>o. CASE Organizations(r)
  BY <1>o, <1>1, <1>7, <1>8
  DEF Organizations, InsertOrganization, InsertOwner, DeleteOrganization, SignUp, Enroll,
      Written, Refuse, Goes
<1> QED
  BY <1>m, <1>r, <1>o

\* The observer keeps requests in flight only.
CalmOK == calm \subseteq {r \in Requests : loc[r] # None}

TypeInv == HandlersOK /\ TablesOK /\ CalmOK

\* A handler has the variables of its operation and position after every step.
LEMMA HandlersStay ==
    ASSUME HandlersOK, TablesOK, Next
    PROVE  HandlersOK'
<1>1. ASSUME NEW r \in Requests, Moves(r)
      PROVE  HandlersOK'
  <2>1. PICK p, l :
          /\ p \in InFlight \cup {"over"}
          /\ Handler(p, l)
          /\ pc' = [pc EXCEPT ![r] = p]
          /\ loc' = [loc EXCEPT ![r] = l]
    BY <1>1 DEF Moves
  <2>2. \A s \in Requests : Handler(pc'[s], loc'[s])
    BY <2>1 DEF HandlersOK
  <2>3. pc' \in [Requests -> InFlight \cup {"new", "over"}] /\ loc' \in [Requests -> Locals \cup {None}]
    BY <2>1 DEF HandlersOK, Handler
  <2> QED
    BY <2>2, <2>3 DEF HandlersOK
<1>2. CASE Crash
  <2>1. \A s \in Requests : Handler(pc'[s], loc'[s])
    BY <1>2, NoneIsNoRecord DEF HandlersOK, Crash, Handler
  <2>2. pc' \in [Requests -> InFlight \cup {"new", "over"}] /\ loc' \in [Requests -> Locals \cup {None}]
    BY <1>2 DEF HandlersOK, Crash
  <2> QED
    BY <2>1, <2>2 DEF HandlersOK
<1> QED
  BY <1>1, <1>2, GateMoves, WorkMoves DEF Next

\* The gate, and the reads behind it, leave the tables alone.
LEMMA GateReads ==
    ASSUME NEW r \in Requests, Gate(r)
    PROVE  UNCHANGED tables
  BY DEF Gate, AuthenticateUser, AuthenticateKey, RequestOrganization, CheckProject,
         ResolvePermissions

\* The steps that read, and the steps that write.
Reads(r) ==
    \/ Gate(r)
    \/ FindMembership(r)
    \/ FindOwnMembership(r)
    \/ CountOwners(r)
    \/ FindRole(r)
    \/ CheckMembers(r)

Writes(r) ==
    \/ InsertMembership(r)
    \/ WriteMembership(r)
    \/ DeleteOwnMembership(r)
    \/ InsertRole(r)
    \/ WriteRole(r)
    \/ DeleteRole(r)
    \/ InsertOrganization(r)
    \/ InsertOwner(r)
    \/ DeleteOrganization(r)
    \/ \E u \in Users : SignUp(r, u)
    \/ Enroll(r)

\* A step of a request reads the tables or writes them.
LEMMA StepIs ==
    ASSUME NEW r \in Requests, Gate(r) \/ Members(r) \/ Roles(r) \/ Organizations(r)
    PROVE  Reads(r) \/ Writes(r)
  BY DEF Members, Roles, Organizations, Reads, Writes

\* A step that reads leaves the tables as they are.
LEMMA ReadsRead ==
    ASSUME NEW r \in Requests, Reads(r)
    PROVE  UNCHANGED tables
  BY GateReads DEF Reads, FindMembership, FindOwnMembership, CountOwners, FindRole, CheckMembers

\* Rewriting the elements of a finite set leaves it finite.
LEMMA RewrittenSetIsFinite ==
    ASSUME NEW S, IsFiniteSet(S), NEW f, DOMAIN f = S
    PROVE  IsFiniteSet({f[x] : x \in S})
<1> DEFINE T == {f[x] : x \in S}
<1>1. [x \in S |-> f[x]] \in Surjection(S, T)
  BY DEF Surjection
<1> QED
  BY <1>1, FS_Surjection

\* The tables hold rows of their schema after every step.
LEMMA TablesStay ==
    ASSUME HandlersOK, TablesOK, Next
    PROVE  TablesOK'
<1>t. /\ users \subseteq Users
      /\ organizations \in [Orgs -> {"unused", "live", "deleted"}]
      /\ memberships \subseteq Membership
      /\ IsFiniteSet(memberships)
      /\ customRoles \subseteq CustomRole
  BY DEF TablesOK
<1>h. \A r \in Requests : Handler(pc[r], loc[r])
  BY DEF HandlersOK
<1>u. CASE UNCHANGED tables
  BY <1>u DEF TablesOK, tables
<1>i. ASSUME NEW o \in Orgs, NEW u \in Users, NEW n \in Names, NEW i \in RowIds,
             memberships' = memberships \cup {[id |-> i, org |-> o, user |-> u, role |-> n]}
      PROVE  memberships' \subseteq Membership /\ IsFiniteSet(memberships')
  <2> DEFINE m == [id |-> i, org |-> o, user |-> u, role |-> n]
  <2>1. m \in Membership
    BY DEF Membership
  <2> HIDE DEF m
  <2>2. memberships' = memberships \cup {m}
    BY <1>i DEF m
  <2>3. IsFiniteSet(memberships \cup {m})
    BY <1>t, FS_AddElement
  <2> QED
    BY <1>t, <2>1, <2>2, <2>3
<1>d. ASSUME memberships' \subseteq memberships
      PROVE  memberships' \subseteq Membership /\ IsFiniteSet(memberships')
  BY <1>t, <1>d, FS_Subset
<1>n. "owner" \in Names /\ "member" \in Names /\ Requests \subseteq RowIds
  BY DEF Names, DefaultRoles, RowIds
<1>w. ASSUME NEW r \in Requests, Writes(r)
      PROVE  TablesOK'
  <2>h. Handler(pc[r], loc[r])
    BY <1>h
  <2>1. CASE InsertMembership(r)
    <3>1. loc[r].org \in Orgs /\ loc[r].target \in Users /\ loc[r].name \in Names
      BY <2>h, <2>1, PositionsAre DEF InsertMembership, Handler, At, ArgsOK, Locals
    <3> QED
      BY <2>1, <3>1, <1>t, <1>i, <1>n DEF InsertMembership, TablesOK
  <2>2. CASE WriteMembership(r)
    <3> DEFINE f == [m \in memberships |->
                       IF m.id = loc[r].target THEN [m EXCEPT !.role = loc[r].name] ELSE m]
    <3>1. CASE /\ loc[r].op = "updateMembership"
               /\ memberships' =
                    {IF m.id = loc[r].target THEN [m EXCEPT !.role = loc[r].name] ELSE m :
                       m \in memberships}
      <4>1. loc[r].name \in Names
        BY <2>h, <2>2, <3>1, PositionsAre DEF WriteMembership, Handler, ArgsOK
      <4>2. \A m \in memberships : f[m] \in Membership
        BY <1>t, <4>1 DEF Membership
      <4>3. memberships' = {f[m] : m \in memberships}
        BY <3>1
      <4> HIDE DEF f
      <4>4. memberships' \subseteq Membership
        BY <4>2, <4>3
      <4>5. IsFiniteSet(memberships')
        <5>1. DOMAIN f = memberships
          BY DEF f
        <5>2. IsFiniteSet({f[m] : m \in memberships})
          BY <1>t, <5>1, RewrittenSetIsFinite
        <5> QED
          BY <4>3, <5>2
      <4> QED
        BY <1>t, <2>2, <4>4, <4>5 DEF WriteMembership, TablesOK
    <3>2. CASE memberships' = {m \in memberships : m.id # loc[r].target}
      <4>1. memberships' \subseteq memberships
        BY <3>2
      <4> QED
        BY <1>t, <1>d, <2>2, <4>1 DEF WriteMembership, TablesOK
    <3> QED
      BY <2>2, <3>1, <3>2 DEF WriteMembership
  <2>3. CASE DeleteOwnMembership(r)
    <3>1. memberships' \subseteq memberships
      BY <2>3 DEF DeleteOwnMembership
    <3> QED
      BY <1>t, <1>d, <2>3, <3>1 DEF DeleteOwnMembership, TablesOK
  <2>4. CASE InsertRole(r)
    <3>1. /\ loc[r].org \in Orgs /\ loc[r].name \in Names
          /\ loc[r].perms \in SUBSET Permissions
      BY <2>h, <2>4, PositionsAre, ScopesAssumption DEF InsertRole, Handler, At, ArgsOK, Locals
    <3>2. [id |-> r, org |-> loc[r].org, name |-> loc[r].name, perms |-> loc[r].perms]
             \in CustomRole
      BY <3>1, <1>n DEF CustomRole
    <3>3. customRoles' \subseteq CustomRole
      BY <1>t, <2>4, <3>2 DEF InsertRole
    <3> QED
      BY <2>4, <3>3, <1>t DEF InsertRole, TablesOK
  <2>5. CASE WriteRole(r)
    <3> DEFINE Rewritten(p) == [p EXCEPT !.name = IF loc[r].name = None THEN @ ELSE loc[r].name,
                                         !.perms = IF loc[r].perms = None THEN @ ELSE loc[r].perms]
    <3>1. /\ loc[r].name \in Names \cup {None}
          /\ loc[r].perms \in (SUBSET Permissions) \cup {None}
      BY <2>h, <2>5, PositionsAre, ScopesAssumption DEF WriteRole, Handler, Locals
    <3>2. \A p \in customRoles : Rewritten(p) \in CustomRole
      <4> SUFFICES ASSUME NEW p \in CustomRole
                   PROVE  Rewritten(p) \in CustomRole
        BY <1>t
      <4> QED
        BY <3>1 DEF CustomRole
    <3>3. customRoles' = {IF p.id = loc[r].target THEN Rewritten(p) ELSE p : p \in customRoles}
      BY <2>5 DEF WriteRole
    <3> HIDE DEF Rewritten
    <3>4. customRoles' \subseteq CustomRole
      BY <1>t, <3>2, <3>3
    <3> QED
      BY <2>5, <3>4, <1>t DEF WriteRole, TablesOK
  <2>6. CASE DeleteRole(r)
    BY <2>6, <1>t DEF DeleteRole, TablesOK
  <2>7. CASE InsertOrganization(r)
    BY <2>7, <1>t DEF InsertOrganization, TablesOK
  <2>8. CASE InsertOwner(r)
    <3>1. loc[r].org \in Orgs /\ loc[r].caller \in Users
      BY <2>h, <2>8, PositionsAre DEF InsertOwner, Handler, At, Locals
    <3> QED
      BY <2>8, <3>1, <1>t, <1>i, <1>n DEF InsertOwner, TablesOK
  <2>9. CASE DeleteOrganization(r)
    <3>1. memberships' \subseteq memberships
      BY <2>9 DEF DeleteOrganization
    <3>2. organizations' \in [Orgs -> {"unused", "live", "deleted"}]
      BY <2>9, <1>t DEF DeleteOrganization
    <3> QED
      BY <2>9, <3>1, <3>2, <1>t, <1>d DEF DeleteOrganization, TablesOK
  <2>10. CASE \E u \in Users : SignUp(r, u)
    BY <2>10, <1>t DEF SignUp, TablesOK
  <2>11. CASE Enroll(r)
    <3>1. loc[r].org \in Orgs /\ loc[r].caller \in Users
      BY <2>h, <2>11, PositionsAre DEF Enroll, Handler, At, Locals
    <3> QED
      BY <2>11, <3>1, <1>t, <1>i, <1>n DEF Enroll, TablesOK
  <2> QED
    BY <1>w, <2>1, <2>2, <2>3, <2>4, <2>5, <2>6, <2>7, <2>8, <2>9, <2>10, <2>11 DEF Writes
<1> QED
  BY <1>u, <1>w, StepIs, ReadsRead DEF Next, Crash

\* The requests in flight are those with variables.
LEMMA InFlightHasVariables ==
    ASSUME HandlersOK, NEW r \in Requests
    PROVE  /\ pc[r] \in InFlight => loc[r] \in Locals /\ loc[r] # None
           /\ pc[r] \notin InFlight => loc[r] = None
  BY PositionsAre, NoneIsNoRecord DEF HandlersOK, Handler

\* A request that a step leaves in the observer is still in flight.
LEMMA CalmStays ==
    ASSUME TypeInv, Next, HandlersOK'
    PROVE  CalmOK'
<1>p. /\ \A s \in Requests : pc'[s] \in InFlight => loc'[s] # None
      /\ \A s \in calm : s \in Requests /\ pc[s] \in InFlight
  BY InFlightHasVariables, PositionsAre, NoneIsNoRecord
  DEF HandlersOK, Handler, TypeInv, CalmOK
<1>1. ASSUME NEW r \in Requests, NEW p, NEW l, Continue(r, p, l),
             calm' \subseteq calm \cup {r}, r \in calm' => p \in InFlight
      PROVE  CalmOK'
  <2>1. \A s \in calm' : s \in Requests /\ pc'[s] \in InFlight
    BY <1>p, <1>1 DEF Continue, TypeInv, HandlersOK
  <2> QED
    BY <2>1, <1>p DEF CalmOK
<1>2. ASSUME NEW r \in Requests, Refuse(r)
      PROVE  CalmOK'
  BY <1>1, <1>2 DEF Refuse, End
<1>3. ASSUME NEW r \in Requests, Written(r, loc[r].org)
      PROVE  CalmOK'
  BY <1>1, <1>3 DEF Written, End
<1>4. ASSUME NEW r \in Requests, pc[r] = "new", UNCHANGED calm, NEW p, NEW l, Continue(r, p, l)
      PROVE  CalmOK'
  BY <1>1, <1>4, <1>p, PositionsAre
<1>5. ASSUME NEW r \in Requests, pc[r] = "new", UNCHANGED calm, End(r)
      PROVE  CalmOK'
  BY <1>4, <1>5 DEF End
<1>6. ASSUME NEW r \in Requests, NEW p \in InFlight, NEW l, Goes(r, p, l)
      PROVE  CalmOK'
  BY <1>1, <1>6 DEF Goes
<1>7. ASSUME NEW r \in Requests, NEW p \in InFlight, NEW l, Continue(r, p, l),
             calm' = calm \cup {r}
      PROVE  CalmOK'
  BY <1>1, <1>7
<1>g. ASSUME NEW r \in Requests, Gate(r)
      PROVE  CalmOK'
  <2>1. CASE \E call \in Calls : AuthenticateUser(r, call)
    BY <2>1, <1>4, <1>5 DEF AuthenticateUser
  <2>2. CASE \E call \in Calls : AuthenticateKey(r, call)
    BY <2>2, <1>4, <1>5 DEF AuthenticateKey
  <2>3. CASE \E c \in Callers, o \in Orgs : RequestOrganization(r, c, o)
    BY <2>3, <1>4, <1>5 DEF RequestOrganization
  <2>4. CASE CheckProject(r) \/ ResolvePermissions(r)
    <3>1. pc[r] \in {"checkProject", "resolvePermissions"}
      BY <2>4 DEF CheckProject, ResolvePermissions
    <3>2. FirstStatement[loc[r].op] \in InFlight
      BY <3>1, FirstFits, PositionsAre DEF TypeInv, HandlersOK, Handler, At
    <3> QED
      BY <2>4, <3>2, <1>2, <1>6 DEF CheckProject, ResolvePermissions
  <2> QED
    BY <1>g, <2>1, <2>2, <2>3, <2>4 DEF Gate
<1>r. ASSUME NEW r \in Requests, Reads(r)
      PROVE  CalmOK'
  <2>p. {"writeMembership", "countOwners", "deleteOwnMembership", "writeRole",
         "checkMembers", "deleteRole"} \subseteq InFlight
    BY PositionsAre
  <2>1. CASE FindMembership(r)
    BY <2>1, <2>p, <1>2, <1>7 DEF FindMembership
  <2>2. CASE FindOwnMembership(r)
    BY <2>2, <2>p, <1>2, <1>7 DEF FindOwnMembership
  <2>3. CASE CountOwners(r)
    BY <2>3, <2>p, <1>2, <1>6 DEF CountOwners
  <2>4. CASE FindRole(r)
    BY <2>4, <2>p, <1>2, <1>7 DEF FindRole
  <2>5. CASE CheckMembers(r)
    BY <2>5, <2>p, <1>2, <1>6 DEF CheckMembers
  <2> QED
    BY <1>r, <1>g, <2>1, <2>2, <2>3, <2>4, <2>5 DEF Reads
<1>w. ASSUME NEW r \in Requests, Writes(r)
      PROVE  CalmOK'
  <2>1. CASE InsertMembership(r) \/ WriteMembership(r) \/ DeleteOwnMembership(r)
    BY <2>1, <1>2, <1>3 DEF InsertMembership, WriteMembership, DeleteOwnMembership
  <2>2. CASE InsertRole(r) \/ WriteRole(r) \/ DeleteRole(r)
    BY <2>2, <1>2, <1>3 DEF InsertRole, WriteRole, DeleteRole
  <2>3. CASE InsertOrganization(r)
    <3>1. "insertOwner" \in InFlight
      BY PositionsAre
    <3> QED
      BY <2>3, <3>1, <1>3, <1>6 DEF InsertOrganization
  <2>4. CASE InsertOwner(r) \/ DeleteOrganization(r) \/ Enroll(r)
    BY <2>4, <1>2, <1>3 DEF InsertOwner, DeleteOrganization, Enroll
  <2>5. CASE \E u \in Users : SignUp(r, u)
    BY <2>5, <1>4, <1>5 DEF SignUp
  <2> QED
    BY <1>w, <2>1, <2>2, <2>3, <2>4, <2>5 DEF Writes
<1>c. CASE Crash
  BY <1>c DEF Crash, CalmOK
<1> QED
  BY <1>r, <1>w, <1>c, StepIs DEF Next

\* The initial state has the inductive type invariant ...
LEMMA TypeInvInit ==
    Init => TypeInv
<1> SUFFICES ASSUME Init
             PROVE  TypeInv
  OBVIOUS
<1>1. HandlersOK
  BY DEF Init, HandlersOK, Handler
<1>2. InitMemberships \subseteq Membership
  BY InitAssumption DEF Membership, RowIds
<1>3. InitRoles \subseteq CustomRole
  BY InitAssumption DEF CustomRole, RowIds
<1>4. TablesOK
  BY <1>2, <1>3, InitAssumption DEF Init, TablesOK
<1> QED
  BY <1>1, <1>4 DEF Init, TypeInv, CalmOK

\* ... every step keeps it ...
LEMMA TypeInvStep ==
    TypeInv /\ [Next]_vars => TypeInv'
<1> SUFFICES ASSUME TypeInv, [Next]_vars
             PROVE  TypeInv'
  OBVIOUS
<1>1. CASE Next
  <2>1. HandlersOK' /\ TablesOK'
    BY <1>1, HandlersStay, TablesStay DEF TypeInv
  <2> QED
    BY <1>1, <2>1, CalmStays DEF TypeInv
<1>2. CASE UNCHANGED vars
  BY <1>2 DEF vars, TypeInv, HandlersOK, TablesOK, CalmOK
<1> QED
  BY <1>1, <1>2

\* ... and it implies TypeOK.
LEMMA TypeInvTypes ==
    TypeInv => TypeOK
<1> SUFFICES ASSUME TypeInv
             PROVE  TypeOK
  OBVIOUS
<1>1. ASSUME NEW r \in Requests
      PROVE  loc[r] \in Locals \cup {None} /\ (loc[r] # None <=> pc[r] \in InFlight)
  <2>1. HandlersOK
    BY DEF TypeInv
  <2> QED
    BY <2>1, InFlightHasVariables
<1> QED
  BY <1>1 DEF TypeInv, HandlersOK, TablesOK, CalmOK, TypeOK

\* The tables hold rows of their schema, and exactly the requests in flight have
\* variables, which are those of their operation and of the statement they are
\* at: Organization's type invariant, for any number of requests.
THEOREM TypeCorrect == Spec => []TypeOK
<1>1. Spec => []TypeInv
  BY TypeInvInit, TypeInvStep, PTL DEF Spec
<1> QED
  BY <1>1, TypeInvTypes, PTL
-----------------------------------------------------------------------------
(* What a write does to the two tables *)

\* The request adds a row under its own id, to an organisation that is there.
AddsMembership(r) ==
    \E m \in Membership :
      /\ memberships' = memberships \cup {m}
      /\ m.id = r /\ m.org = loc[r].org
      /\ organizations[m.org] = "live" /\ UNCHANGED organizations
      /\ pc[r] \in InFlight /\ pc'[r] = "over"

\* updateMembership.
ChangesMembership(r) ==
    /\ pc[r] = "writeMembership"
    /\ memberships' =
         {IF m.id = loc[r].target THEN [m EXCEPT !.role = loc[r].name] ELSE m : m \in memberships}
    /\ UNCHANGED organizations

\* The same for roles.
AddsRole(r) ==
    \E p \in CustomRole :
      /\ customRoles' = customRoles \cup {p}
      /\ p.id = r /\ p.org = loc[r].org
      /\ organizations[p.org] = "live" /\ UNCHANGED organizations
      /\ pc[r] \in InFlight /\ pc'[r] = "over"

Rewritten(r, p) ==
    [p EXCEPT !.name = IF loc[r].name = None THEN @ ELSE loc[r].name,
              !.perms = IF loc[r].perms = None THEN @ ELSE loc[r].perms]

ChangesRole(r) ==
    /\ pc[r] = "writeRole"
    /\ customRoles' = {IF p.id = loc[r].target THEN Rewritten(r, p) ELSE p : p \in customRoles}
    /\ UNCHANGED organizations

\* A write removes rows, adds the request's own row, or rewrites the row it read.
LEMMA WriteIs ==
    ASSUME TypeInv, NEW r \in Requests, Writes(r)
    PROVE  /\ memberships' \subseteq memberships \/ AddsMembership(r) \/ ChangesMembership(r)
           /\ customRoles' \subseteq customRoles \/ AddsRole(r) \/ ChangesRole(r)
<1>h. Handler(pc[r], loc[r]) /\ pc \in [Requests -> InFlight \cup {"new", "over"}]
  BY DEF TypeInv, HandlersOK
<1>i. Requests \subseteq RowIds
  BY DEF RowIds
<1>m. ASSUME NEW u \in Users, NEW n \in Names, pc[r] \in InFlight, End(r),
             organizations[loc[r].org] = "live", UNCHANGED organizations,
             memberships' = memberships \cup
               {[id |-> r, org |-> loc[r].org, user |-> u, role |-> n]}
      PROVE  AddsMembership(r)
  <2> DEFINE m == [id |-> r, org |-> loc[r].org, user |-> u, role |-> n]
  <2>1. m \in Membership
    BY <1>h, <1>i, <1>m, PositionsAre DEF Handler, Locals, Membership
  <2>2. pc'[r] = "over"
    BY <1>h, <1>m DEF End, Continue
  <2> QED
    BY <1>m, <2>1, <2>2 DEF AddsMembership
<1>1. CASE InsertMembership(r)
  <2>1. loc[r].target \in Users /\ loc[r].name \in Names /\ pc[r] \in InFlight
    BY <1>h, <1>1, PositionsAre DEF InsertMembership, Handler, At, ArgsOK
  <2> QED
    BY <1>1, <2>1, <1>m DEF InsertMembership, Written
<1>2. CASE WriteMembership(r)
  BY <1>2 DEF WriteMembership, ChangesMembership
<1>3. CASE DeleteOwnMembership(r)
  BY <1>3 DEF DeleteOwnMembership
<1>4. CASE InsertRole(r)
  <2>1. CASE customRoles' = customRoles
    BY <1>4, <2>1 DEF InsertRole
  <2>2. CASE organizations[loc[r].org] = "live" /\ customRoles' # customRoles
    <3> DEFINE p == [id |-> r, org |-> loc[r].org, name |-> loc[r].name, perms |-> loc[r].perms]
    <3>1. /\ loc[r].name \in Names /\ loc[r].perms \in SUBSET Permissions
          /\ loc[r].org \in Orgs /\ pc[r] \in InFlight
      BY <1>h, <1>4, PositionsAre, ScopesAssumption DEF InsertRole, Handler, At, ArgsOK, Locals
    <3>2. p \in CustomRole
      BY <3>1, <1>i DEF CustomRole
    <3>3. pc'[r] = "over"
      BY <1>4, <1>h, <2>2 DEF InsertRole, Written, End, Continue
    <3>4. customRoles' = customRoles \cup {p}
      BY <1>4, <2>2 DEF InsertRole
    <3>5. AddsRole(r)
      BY <1>4, <2>2, <3>1, <3>2, <3>3, <3>4 DEF InsertRole, AddsRole
    <3> QED
      BY <1>4, <3>5 DEF InsertRole
  <2> QED
    BY <1>4, <2>1, <2>2 DEF InsertRole
<1>5. CASE WriteRole(r)
  BY <1>5 DEF WriteRole, ChangesRole, Rewritten
<1>6. CASE DeleteRole(r)
  BY <1>6 DEF DeleteRole
<1>7. CASE InsertOrganization(r)
  BY <1>7 DEF InsertOrganization
<1>8. CASE InsertOwner(r)
  <2>1. loc[r].caller \in Users /\ "owner" \in Names /\ pc[r] \in InFlight
    BY <1>h, <1>8, PositionsAre DEF InsertOwner, Handler, At, Names, DefaultRoles
  <2> QED
    BY <1>8, <2>1, <1>m DEF InsertOwner, Written
<1>9. CASE DeleteOrganization(r)
  BY <1>9 DEF DeleteOrganization
<1>10. CASE \E u \in Users : SignUp(r, u)
  BY <1>10 DEF SignUp
<1>11. CASE Enroll(r)
  <2>1. loc[r].caller \in Users /\ "member" \in Names /\ pc[r] \in InFlight
    BY <1>h, <1>11, PositionsAre DEF Enroll, Handler, At, Names, DefaultRoles
  <2> QED
    BY <1>11, <2>1, <1>m DEF Enroll, Written
<1> QED
  BY <1>1, <1>2, <1>3, <1>4, <1>5, <1>6, <1>7, <1>8, <1>9, <1>10, <1>11 DEF Writes

\* The only steps that take an organisation away take its rows with it.
LEMMA OrganizationsStay ==
    ASSUME TypeInv, NEW r \in Requests, Writes(r)
    PROVE  \/ \A o \in Orgs : organizations[o] = "live" => organizations'[o] = "live"
           \/ DeleteOrganization(r)
<1>1. organizations \in [Orgs -> {"unused", "live", "deleted"}]
  BY DEF TypeInv, TablesOK
<1> QED
  BY <1>1 DEF Writes, InsertMembership, WriteMembership, DeleteOwnMembership, InsertRole,
     WriteRole, DeleteRole, InsertOrganization, InsertOwner, SignUp, Enroll

\* The foreign keys hold after every step.
LEMMA RowsStay ==
    ASSUME TypeInv, TypeInv', RowsHaveOrganization, Next
    PROVE  RowsHaveOrganization'
<1>t. /\ memberships \subseteq Membership /\ memberships' \subseteq Membership
      /\ customRoles \subseteq CustomRole /\ customRoles' \subseteq CustomRole
      /\ organizations \in [Orgs -> {"unused", "live", "deleted"}]
  BY DEF TypeInv, TablesOK
<1>o. /\ \A m \in Membership : m.org \in Orgs
      /\ \A p \in CustomRole : p.org \in Orgs
  BY DEF Membership, CustomRole
<1>1. CASE UNCHANGED tables
  BY <1>1 DEF tables, RowsHaveOrganization
<1>2. ASSUME NEW r \in Requests, Writes(r)
      PROVE  RowsHaveOrganization'
  <2>1. CASE DeleteOrganization(r)
    <3>1. \A o \in Orgs : o # loc[r].org => organizations'[o] = organizations[o]
      BY <1>t, <2>1 DEF DeleteOrganization
    <3>2. \A m \in memberships' : m \in memberships /\ m.org # loc[r].org
      BY <2>1 DEF DeleteOrganization
    <3>3. \A p \in customRoles' : p \in customRoles /\ p.org # loc[r].org
      BY <2>1 DEF DeleteOrganization
    <3> QED
      BY <1>t, <1>o, <3>1, <3>2, <3>3 DEF RowsHaveOrganization
  <2>2. CASE \A o \in Orgs : organizations[o] = "live" => organizations'[o] = "live"
    <3>1. \A m \in memberships' : organizations'[m.org] = "live"
      <4>1. CASE memberships' \subseteq memberships
        BY <1>t, <1>o, <2>2, <4>1 DEF RowsHaveOrganization
      <4>2. CASE AddsMembership(r)
        BY <1>t, <1>o, <2>2, <4>2 DEF AddsMembership, RowsHaveOrganization
      <4>3. CASE ChangesMembership(r)
        <5>1. \A m \in memberships' : \E n \in memberships : m.org = n.org
          BY <4>3, <1>t DEF ChangesMembership, Membership
        <5> QED
          BY <1>t, <1>o, <2>2, <5>1 DEF RowsHaveOrganization
      <4> QED
        BY <1>2, <4>1, <4>2, <4>3, WriteIs
    <3>2. \A p \in customRoles' : organizations'[p.org] = "live"
      <4>1. CASE customRoles' \subseteq customRoles
        BY <1>t, <1>o, <2>2, <4>1 DEF RowsHaveOrganization
      <4>2. CASE AddsRole(r)
        BY <1>t, <1>o, <2>2, <4>2 DEF AddsRole, RowsHaveOrganization
      <4>3. CASE ChangesRole(r)
        <5>1. \A p \in customRoles' : \E q \in customRoles : p.org = q.org
          BY <4>3, <1>t DEF ChangesRole, Rewritten, CustomRole
        <5> QED
          BY <1>t, <1>o, <2>2, <5>1 DEF RowsHaveOrganization
      <4> QED
        BY <1>2, <4>1, <4>2, <4>3, WriteIs
    <3> QED
      BY <3>1, <3>2 DEF RowsHaveOrganization
  <2> QED
    BY <1>2, <2>1, <2>2, OrganizationsStay
<1> QED
  BY <1>1, <1>2, StepIs, ReadsRead DEF Next, Crash

\* No membership and no role ever belongs to an organisation that is not there,
\* in whatever order deletions of organisations and inserts of rows interleave:
\* the inserts meet the foreign key and the deletion cascades.
THEOREM RowsAlwaysHaveOrganization == Spec => []RowsHaveOrganization
<1>1. Init => RowsHaveOrganization
  BY InitAssumption DEF Init, RowsHaveOrganization
<1>2. TypeInv /\ TypeInv' /\ RowsHaveOrganization /\ [Next]_vars => RowsHaveOrganization'
  <2>1. ASSUME UNCHANGED vars, RowsHaveOrganization
        PROVE  RowsHaveOrganization'
    BY <2>1 DEF vars, RowsHaveOrganization
  <2> QED
    BY <2>1, RowsStay
<1> QED
  BY <1>1, <1>2, TypeInvInit, TypeInvStep, PTL DEF Spec
-----------------------------------------------------------------------------
(* Ids, and the rows that handlers write by id *)

\* The ids that a row can have: an id is drawn by the request that inserts it.
Spent == SeedIds \cup {s \in Requests : pc[s] = "over"}

IdsInv ==
    /\ \A m, n \in memberships : m.id = n.id => m = n
    /\ \A p, q \in customRoles : p.id = q.id => p = q
    /\ \A m \in memberships : m.id \in Spent
    /\ \A p \in customRoles : p.id \in Spent

\* What a handler knows of the row it is about to write, if it is still there.
TargetInv(r) ==
    /\ pc[r] \in {"writeMembership", "countOwners", "deleteOwnMembership"} =>
         /\ loc[r].target \in Spent
         /\ \A m \in memberships : m.id = loc[r].target => m.org = loc[r].org
    /\ pc[r] \in {"countOwners", "deleteOwnMembership"} =>
         \A m \in memberships : m.id = loc[r].target => m.user = loc[r].caller
    /\ pc[r] \in {"writeRole", "checkMembers", "deleteRole"} =>
         /\ loc[r].target \in Spent
         /\ \A p \in customRoles : p.id = loc[r].target => p.org = loc[r].org

IdInv == IdsInv /\ \A r \in Requests : TargetInv(r)

\* Every step but Crash moves one request, and what is over stays over.
LEMMA OneMoves ==
    ASSUME TypeInv, NEW r \in Requests, Reads(r) \/ Writes(r)
    PROVE  Moves(r)
<1>1. Gate(r) \/ Members(r) \/ Roles(r) \/ Organizations(r)
  BY DEF Reads, Writes, Members, Roles, Organizations
<1> QED
  BY <1>1, GateMoves, WorkMoves DEF TypeInv

\* A step of one request leaves the others where they are.
LEMMA OthersStay ==
    ASSUME TypeInv, NEW r \in Requests, Moves(r)
    PROVE  /\ \A s \in Requests : s # r => pc'[s] = pc[s] /\ loc'[s] = loc[s]
           /\ pc[r] # "over"
           /\ Spent \subseteq Spent'
           /\ r \notin Spent
  BY DistinctAssumption DEF TypeInv, HandlersOK, Moves, Spent

\* Ids stay unique and spent.
LEMMA IdsStay ==
    ASSUME TypeInv, IdsInv, Next
    PROVE  IdsInv'
<1>t. memberships \subseteq Membership /\ customRoles \subseteq CustomRole
  BY DEF TypeInv, TablesOK
<1>c. CASE Crash
  <2>1. Spent \subseteq Spent'
    BY <1>c, PositionsAre DEF Crash, Spent, TypeInv, HandlersOK, Handler
  <2> QED
    BY <1>c, <2>1 DEF Crash, tables, IdsInv
<1>1. ASSUME NEW r \in Requests, Moves(r), UNCHANGED tables
      PROVE  IdsInv'
  BY <1>1, OthersStay DEF tables, IdsInv
<1>2. ASSUME NEW r \in Requests, Moves(r), Writes(r)
      PROVE  IdsInv'
  <2>s. Spent \subseteq Spent' /\ r \notin Spent
    BY <1>2, OthersStay
  <2>o. pc'[r] = "over" => r \in Spent'
    BY DEF Spent
  <2>m. /\ \A m, n \in memberships' : m.id = n.id => m = n
        /\ \A m \in memberships' : m.id \in Spent'
    <3>1. CASE memberships' \subseteq memberships
      BY <2>s, <3>1 DEF IdsInv
    <3>2. CASE AddsMembership(r)
      BY <2>s, <2>o, <3>2 DEF IdsInv, AddsMembership
    <3>3. CASE ChangesMembership(r)
      <4> DEFINE f(m) == IF m.id = loc[r].target THEN [m EXCEPT !.role = loc[r].name] ELSE m
      <4>1. \A m \in memberships : f(m).id = m.id
        BY <1>t DEF Membership
      <4>2. memberships' = {f(m) : m \in memberships}
        BY <3>3 DEF ChangesMembership
      <4> HIDE DEF f
      <4> QED
        BY <2>s, <4>1, <4>2 DEF IdsInv
    <3> QED
      BY <1>2, <3>1, <3>2, <3>3, WriteIs
  <2>p. /\ \A p, q \in customRoles' : p.id = q.id => p = q
        /\ \A p \in customRoles' : p.id \in Spent'
    <3>1. CASE customRoles' \subseteq customRoles
      BY <2>s, <3>1 DEF IdsInv
    <3>2. CASE AddsRole(r)
      BY <2>s, <2>o, <3>2 DEF IdsInv, AddsRole
    <3>3. CASE ChangesRole(r)
      <4> DEFINE f(p) == IF p.id = loc[r].target THEN Rewritten(r, p) ELSE p
      <4>1. \A p \in customRoles : f(p).id = p.id
        BY <1>t DEF CustomRole, Rewritten
      <4>2. customRoles' = {f(p) : p \in customRoles}
        BY <3>3 DEF ChangesRole
      <4> HIDE DEF f
      <4> QED
        BY <2>s, <4>1, <4>2 DEF IdsInv
    <3> QED
      BY <1>2, <3>1, <3>2, <3>3, WriteIs
  <2> QED
    BY <2>m, <2>p DEF IdsInv
<1> QED
  BY <1>c, <1>1, <1>2, OneMoves, StepIs, ReadsRead DEF Next

\* A row with an id that was spent was there, in the same organisation and of the
\* same user.
LEMMA OldRows ==
    ASSUME TypeInv, NEW r \in Requests, Moves(r), Reads(r) \/ Writes(r)
    PROVE  /\ \A m \in memberships' : m.id \in Spent =>
                \E n \in memberships : n.id = m.id /\ n.org = m.org /\ n.user = m.user
           /\ \A p \in customRoles' : p.id \in Spent =>
                \E q \in customRoles : q.id = p.id /\ q.org = p.org
<1>t. memberships \subseteq Membership /\ customRoles \subseteq CustomRole
  BY DEF TypeInv, TablesOK
<1>s. r \notin Spent
  BY OthersStay
<1>1. CASE UNCHANGED tables
  BY <1>1 DEF tables
<1>2. CASE Writes(r)
  <2>1. ASSUME ChangesMembership(r)
        PROVE  \A m \in memberships' :
                 \E n \in memberships : n.id = m.id /\ n.org = m.org /\ n.user = m.user
    <3> DEFINE f(m) == IF m.id = loc[r].target THEN [m EXCEPT !.role = loc[r].name] ELSE m
    <3>1. \A m \in memberships : f(m).id = m.id /\ f(m).org = m.org /\ f(m).user = m.user
      BY <1>t DEF Membership
    <3>2. memberships' = {f(m) : m \in memberships}
      BY <2>1 DEF ChangesMembership
    <3> HIDE DEF f
    <3> QED
      BY <3>1, <3>2
  <2>2. ASSUME ChangesRole(r)
        PROVE  \A p \in customRoles' : \E q \in customRoles : q.id = p.id /\ q.org = p.org
    <3> DEFINE f(p) == IF p.id = loc[r].target THEN Rewritten(r, p) ELSE p
    <3>1. \A p \in customRoles : f(p).id = p.id /\ f(p).org = p.org
      BY <1>t DEF CustomRole, Rewritten
    <3>2. customRoles' = {f(p) : p \in customRoles}
      BY <2>2 DEF ChangesRole
    <3> HIDE DEF f
    <3> QED
      BY <3>1, <3>2
  <2> QED
    BY <1>2, <1>s, <2>1, <2>2, WriteIs DEF AddsMembership, AddsRole
<1> QED
  BY <1>1, <1>2, ReadsRead

\* Where the gate, and a write, leave a request.
LEMMA GateGoesTo ==
    ASSUME TypeInv, NEW s \in Requests, Gate(s)
    PROVE  pc'[s] \in {"over", "resolvePermissions", "checkProject", "insertOrganization"}
             \cup {FirstStatement[op] : op \in Gated \cup {"leaveOrganization"}}
<1>d. pc \in [Requests -> InFlight \cup {"new", "over"}] /\ Handler(pc[s], loc[s])
  BY DEF TypeInv, HandlersOK
<1>1. CASE \E call \in Calls : AuthenticateUser(s, call) \/ AuthenticateKey(s, call)
  <2>1. PICK call \in Calls : AuthenticateUser(s, call) \/ AuthenticateKey(s, call)
    BY <1>1
  <2>2. call.op \in Gated \cup {"leaveOrganization"}
    BY CallFits DEF TypeInv
  <2> QED
    BY <1>d, <2>1, <2>2 DEF AuthenticateUser, AuthenticateKey, Continue, End
<1>2. CASE \E c \in Callers, o \in Orgs : RequestOrganization(s, c, o)
  BY <1>d, <1>2 DEF RequestOrganization, Continue, End
<1>3. CASE CheckProject(s) \/ ResolvePermissions(s)
  <2>1. pc[s] \in {"checkProject", "resolvePermissions"}
    BY <1>3 DEF CheckProject, ResolvePermissions
  <2>2. loc[s].op \in Gated
    BY <1>d, <2>1 DEF Handler, At
  <2> QED
    BY <1>d, <1>3, <2>2 DEF CheckProject, ResolvePermissions, Goes, Refuse, Continue, End
<1> QED
  BY <1>1, <1>2, <1>3 DEF Gate

\* A write ends its request, or is followed by the creator's membership or the enrolment.
LEMMA WriteGoesTo ==
    ASSUME TypeInv, NEW s \in Requests, Writes(s)
    PROVE  pc'[s] \in {"over", "insertOwner", "enroll"}
<1>1. End(s) \/ (InsertOrganization(s) /\ Continue(s, "insertOwner", loc[s]))
        \/ \E u \in Users : SignUp(s, u)
  BY DEF Writes, InsertMembership, WriteMembership, DeleteOwnMembership, InsertRole,
     WriteRole, DeleteRole, InsertOrganization, InsertOwner, DeleteOrganization, Enroll,
     Written, Refuse, Goes
<1> QED
  BY <1>1 DEF SignUp, End, Continue, TypeInv, HandlersOK

\* A handler's target stays in the path's organisation until it is written.
LEMMA TargetsStay ==
    ASSUME TypeInv, TypeInv', IdInv, Next, NEW s \in Requests
    PROVE  TargetInv(s)'
<1>h. Handler(pc[s], loc[s])
  BY DEF TypeInv, HandlersOK
<1>t. memberships \subseteq Membership /\ customRoles \subseteq CustomRole
  BY DEF TypeInv, TablesOK
<1>c. CASE Crash
  <2>1. pc'[s] \in {"new", "over"}
    BY <1>c, <1>h, PositionsAre, NoneIsNoRecord DEF Crash, Handler
  <2> QED
    BY <2>1 DEF TargetInv
<1>1. ASSUME NEW r \in Requests, Moves(r), Reads(r) \/ Writes(r), r # s
      PROVE  TargetInv(s)'
  <2>1. pc'[s] = pc[s] /\ loc'[s] = loc[s] /\ Spent \subseteq Spent'
    BY <1>1, OthersStay
  <2>2. TargetInv(s)
    BY DEF IdInv
  <2> QED
    BY <1>1, <2>1, <2>2, OldRows DEF TargetInv
<1>2. ASSUME Moves(s), Reads(s) \/ Writes(s)
      PROVE  TargetInv(s)'
  <2>o. Spent \subseteq Spent'
    BY <1>2, OthersStay
  <2>n. ASSUME pc'[s] \notin {"writeMembership", "countOwners", "deleteOwnMembership",
                              "writeRole", "checkMembers", "deleteRole"}
        PROVE  TargetInv(s)'
    BY <2>n DEF TargetInv
  <2>e. ASSUME End(s)
        PROVE  TargetInv(s)'
    <3>1. pc'[s] = "over"
      BY <2>e DEF End, Continue, TypeInv, HandlersOK
    <3> QED
      BY <2>n, <3>1
  <2>d. /\ pc \in [Requests -> InFlight \cup {"new", "over"}]
        /\ loc \in [Requests -> Locals \cup {None}]
    BY DEF TypeInv, HandlersOK
  <2>1. CASE FindMembership(s)
    <3>1. CASE Continue(s, "writeMembership", loc[s])
      <4>1. pc'[s] = "writeMembership" /\ loc'[s] = loc[s] /\ UNCHANGED memberships
        BY <2>d, <2>1, <3>1 DEF FindMembership, Continue, tables
      <4>2. PICK m \in memberships : m.id = loc[s].target /\ m.org = loc[s].org
        BY <2>1, <3>1, <4>1, <2>d DEF FindMembership, Refuse, End, Continue
      <4> QED
        BY <4>1, <4>2, <2>o DEF TargetInv, IdInv, IdsInv
    <3> QED
      BY <2>1, <2>e, <3>1 DEF FindMembership, Refuse
  <2>2. CASE FindOwnMembership(s)
    <3>1. ASSUME NEW m \in MembershipsOf(loc[s].caller, loc[s].org),
                 NEW p \in {"countOwners", "deleteOwnMembership"},
                 Continue(s, p, [loc[s] EXCEPT !.target = m.id])
          PROVE  TargetInv(s)'
      <4>0. loc[s] \in Locals
        BY <1>h, <2>2, PositionsAre DEF FindOwnMembership, Handler
      <4>1. /\ pc'[s] = p /\ UNCHANGED memberships
            /\ loc'[s].target = m.id /\ loc'[s].org = loc[s].org
            /\ loc'[s].caller = loc[s].caller
        BY <2>d, <2>2, <3>1, <4>0 DEF FindOwnMembership, Continue, tables, Locals
      <4>2. m \in memberships /\ m.org = loc[s].org /\ m.user = loc[s].caller
        BY DEF MembershipsOf
      <4> QED
        BY <4>1, <4>2, <2>o DEF TargetInv, IdInv, IdsInv
    <3> QED
      BY <2>2, <2>e, <3>1 DEF FindOwnMembership, Refuse
  <2>3. CASE CountOwners(s)
    <3>1. CASE Continue(s, "deleteOwnMembership", loc[s])
      <4>1. pc'[s] = "deleteOwnMembership" /\ loc'[s] = loc[s] /\ UNCHANGED memberships
        BY <2>d, <2>3, <3>1 DEF CountOwners, Continue, tables
      <4> QED
        BY <2>3, <4>1, <2>o DEF TargetInv, IdInv, CountOwners
    <3> QED
      BY <2>3, <2>e, <3>1 DEF CountOwners, Refuse, Goes
  <2>4. CASE FindRole(s)
    <3>1. ASSUME NEW q \in customRoles, q.id = loc[s].target, q.org = loc[s].org,
                 NEW p \in {"writeRole", "checkMembers"},
                 Continue(s, p, [loc[s] EXCEPT !.role = q.name])
          PROVE  TargetInv(s)'
      <4>0. loc[s] \in Locals
        BY <1>h, <2>4, PositionsAre DEF FindRole, Handler
      <4>1. /\ pc'[s] = p /\ UNCHANGED customRoles
            /\ loc'[s].target = loc[s].target /\ loc'[s].org = loc[s].org
        BY <2>d, <2>4, <3>1, <4>0 DEF FindRole, Continue, tables, Locals
      <4> QED
        BY <3>1, <4>1, <2>o DEF TargetInv, IdInv, IdsInv
    <3> QED
      BY <2>4, <2>e, <3>1 DEF FindRole, Refuse
  <2>5. CASE CheckMembers(s)
    <3>1. CASE Continue(s, "deleteRole", loc[s])
      <4>1. pc'[s] = "deleteRole" /\ loc'[s] = loc[s] /\ UNCHANGED customRoles
        BY <2>d, <2>5, <3>1 DEF CheckMembers, Continue, tables
      <4> QED
        BY <2>5, <4>1, <2>o DEF TargetInv, IdInv, CheckMembers
    <3> QED
      BY <2>5, <2>e, <3>1 DEF CheckMembers, Refuse, Goes
  <2>6. CASE Gate(s)
    <3>1. pc'[s] \in {"over", "resolvePermissions", "checkProject", "insertOrganization"}
            \cup {FirstStatement[op] : op \in Gated \cup {"leaveOrganization"}}
      BY <2>6, GateGoesTo
    <3> QED
      BY <3>1, <2>n, FirstStatementIs DEF Gated
  <2>7. CASE Writes(s)
    <3>1. pc'[s] \in {"over", "insertOwner", "enroll"}
      BY <2>7, WriteGoesTo
    <3> QED
      BY <3>1, <2>n
  <2> QED
    BY <1>2, <2>1, <2>2, <2>3, <2>4, <2>5, <2>6, <2>7 DEF Reads
<1> QED
  BY <1>c, <1>1, <1>2, OneMoves, StepIs DEF Next

Inv == TypeInv /\ IdInv

\* The inductive invariant holds at the start ...
LEMMA InvInit ==
    Init => Inv
<1> SUFFICES ASSUME Init
             PROVE  IdInv
  BY TypeInvInit DEF Inv
<1>1. IdsInv
  BY InitAssumption DEF Init, IdsInv, Spent
<1>2. \A r \in Requests : TargetInv(r)
  BY DEF Init, TargetInv
<1> QED
  BY <1>1, <1>2 DEF IdInv

\* ... is kept by every step ...
LEMMA InvStep ==
    Inv /\ [Next]_vars => Inv'
<1> SUFFICES ASSUME Inv, [Next]_vars
             PROVE  Inv'
  OBVIOUS
<1>1. TypeInv'
  BY TypeInvStep DEF Inv
<1>2. CASE Next
  <2>1. IdsInv'
    BY <1>2, IdsStay DEF Inv, IdInv
  <2>2. \A s \in Requests : TargetInv(s)'
    BY <1>1, <1>2, TargetsStay DEF Inv
  <2> QED
    BY <1>1, <2>1, <2>2 DEF Inv, IdInv
<1>3. CASE UNCHANGED vars
  BY <1>1, <1>3 DEF vars, Inv, IdInv, IdsInv, TargetInv, Spent
<1> QED
  BY <1>2, <1>3

\* ... and holds always.
LEMMA InvHolds == Spec => []Inv
  BY InvInit, InvStep, PTL DEF Spec
-----------------------------------------------------------------------------
\* The rows that a write takes away are the organisation's own.
LEMMA RemovedRows ==
    ASSUME Inv, NEW r \in Requests, Writes(r)
    PROVE  /\ memberships' \subseteq memberships =>
                \A m \in memberships \ memberships' : loc[r] # None /\ m.org = loc[r].org
           /\ customRoles' \subseteq customRoles =>
                \A p \in customRoles \ customRoles' : loc[r] # None /\ p.org = loc[r].org
<1>t. TargetInv(r) /\ (pc[r] \in InFlight => loc[r] # None)
  BY InFlightHasVariables DEF Inv, IdInv, TypeInv
<1>a. memberships \subseteq Membership /\ customRoles \subseteq CustomRole
  BY DEF Inv, TypeInv, TablesOK
<1>1. CASE InsertMembership(r) \/ InsertOwner(r) \/ Enroll(r)
  BY <1>1 DEF InsertMembership, InsertOwner, Enroll
<1>2. CASE WriteMembership(r)
  <2>0. loc[r] # None
    BY <1>t, <1>2, PositionsAre DEF WriteMembership
  <2>1. CASE memberships' =
               {IF m.id = loc[r].target THEN [m EXCEPT !.role = loc[r].name] ELSE m :
                  m \in memberships}
    <3>1. \A m \in memberships \ memberships' : m.id = loc[r].target
      BY <2>1
    <3> QED
      BY <1>t, <1>2, <2>0, <3>1 DEF WriteMembership, TargetInv
  <2>2. CASE memberships' = {m \in memberships : m.id # loc[r].target}
    BY <1>t, <1>2, <2>0, <2>2 DEF WriteMembership, TargetInv
  <2> QED
    BY <1>2, <2>1, <2>2 DEF WriteMembership
<1>3. CASE DeleteOwnMembership(r)
  BY <1>t, <1>3, PositionsAre DEF DeleteOwnMembership, TargetInv
<1>4. CASE InsertRole(r)
  BY <1>4 DEF InsertRole
<1>5. CASE WriteRole(r)
  <2>1. \A p \in customRoles \ customRoles' : p.id = loc[r].target
    BY <1>5 DEF WriteRole
  <2> QED
    BY <1>t, <1>5, <2>1, PositionsAre DEF WriteRole, TargetInv
<1>6. CASE DeleteRole(r)
  BY <1>t, <1>6, PositionsAre DEF DeleteRole, TargetInv
<1>7. CASE InsertOrganization(r) \/ \E u \in Users : SignUp(r, u)
  BY <1>7 DEF InsertOrganization, SignUp
<1>8. CASE DeleteOrganization(r)
  BY <1>t, <1>8, PositionsAre DEF DeleteOrganization
<1> QED
  BY <1>1, <1>2, <1>3, <1>4, <1>5, <1>6, <1>7, <1>8 DEF Writes

\* A step of a request leaves the rows of other organisations alone.
LEMMA RowsElsewhereStay ==
    ASSUME Inv, NEW r \in Requests, Reads(r) \/ Writes(r), NEW o \in Orgs,
           loc[r] = None \/ loc[r].org # o
    PROVE  /\ {m \in memberships' : m.org = o} = {m \in memberships : m.org = o}
           /\ {p \in customRoles' : p.org = o} = {p \in customRoles : p.org = o}
<1>t. TargetInv(r) /\ (pc[r] \in InFlight => loc[r] # None)
  BY InFlightHasVariables DEF Inv, IdInv, TypeInv
<1>a. memberships \subseteq Membership /\ customRoles \subseteq CustomRole
  BY DEF Inv, TypeInv, TablesOK
<1>1. CASE Reads(r)
  BY <1>1, ReadsRead DEF tables
<1>2. CASE Writes(r)
  <2>1. {m \in memberships' : m.org = o} = {m \in memberships : m.org = o}
    <3>1. CASE memberships' \subseteq memberships
      BY <1>2, <3>1, RemovedRows
    <3>2. CASE AddsMembership(r)
      BY <1>t, <3>2 DEF AddsMembership
    <3>3. CASE ChangesMembership(r)
      <4> DEFINE f(m) == IF m.id = loc[r].target THEN [m EXCEPT !.role = loc[r].name] ELSE m
      <4>1. \A m \in memberships : f(m).org = m.org /\ (m.org = o => f(m) = m)
        BY <1>t, <1>a, <3>3, PositionsAre DEF ChangesMembership, TargetInv, Membership
      <4>2. memberships' = {f(m) : m \in memberships}
        BY <3>3 DEF ChangesMembership
      <4> HIDE DEF f
      <4> QED
        BY <4>1, <4>2
    <3> QED
      BY <1>2, <3>1, <3>2, <3>3, WriteIs DEF Inv
  <2>2. {p \in customRoles' : p.org = o} = {p \in customRoles : p.org = o}
    <3>1. CASE customRoles' \subseteq customRoles
      BY <1>2, <3>1, RemovedRows
    <3>2. CASE AddsRole(r)
      BY <1>t, <3>2 DEF AddsRole
    <3>3. CASE ChangesRole(r)
      <4> DEFINE f(p) == IF p.id = loc[r].target THEN Rewritten(r, p) ELSE p
      <4>1. \A p \in customRoles : f(p).org = p.org /\ (p.org = o => f(p) = p)
        BY <1>t, <1>a, <3>3, PositionsAre DEF ChangesRole, TargetInv, CustomRole, Rewritten
      <4>2. customRoles' = {f(p) : p \in customRoles}
        BY <3>3 DEF ChangesRole
      <4> HIDE DEF f
      <4> QED
        BY <4>1, <4>2
    <3> QED
      BY <1>2, <3>1, <3>2, <3>3, WriteIs DEF Inv
  <2> QED
    BY <2>1, <2>2
<1> QED
  BY <1>1, <1>2

\* No request ever touches the members or the roles of another organisation than
\* the one in its path, and no leave removes anybody else: the services write by
\* id alone, and the row they read stays the path's organisation's until then.
THEOREM WritesAlwaysStay == Spec => WritesStayInOrganization
<1> DEFINE Stay == \A r \in Requests : pc'[r] # pc[r] =>
         /\ \A o \in Orgs : loc[r] = None \/ loc[r].org # o => RowsOf(o)' = RowsOf(o)
         /\ pc[r] = "deleteOwnMembership" =>
              \A m \in memberships \ memberships' : m.user = loc[r].caller
<1>1. ASSUME Inv, Next
      PROVE  Stay
  <2>1. ASSUME UNCHANGED tables
        PROVE  Stay
    BY <2>1 DEF tables, RowsOf
  <2>2. ASSUME NEW r \in Requests, Writes(r)
        PROVE  Stay
    <3> SUFFICES ASSUME NEW s \in Requests, pc'[s] # pc[s]
                 PROVE  /\ \A o \in Orgs : loc[s] = None \/ loc[s].org # o => RowsOf(o)' = RowsOf(o)
                        /\ pc[s] = "deleteOwnMembership" =>
                             \A m \in memberships \ memberships' : m.user = loc[s].caller
      OBVIOUS
    <3>1. s = r
      BY <1>1, <2>2, OneMoves, OthersStay DEF Inv
    <3>2. ASSUME NEW o \in Orgs, loc[s] = None \/ loc[s].org # o
          PROVE  RowsOf(o)' = RowsOf(o)
      BY <1>1, <2>2, <3>1, <3>2, RowsElsewhereStay DEF RowsOf
    <3>3. ASSUME pc[s] = "deleteOwnMembership"
          PROVE  \A m \in memberships \ memberships' : m.user = loc[s].caller
      <4>1. TargetInv(r)
        BY <1>1 DEF Inv, IdInv
      <4>2. DeleteOwnMembership(r)
        BY <2>2, <3>1, <3>3
        DEF Writes, InsertMembership, WriteMembership, InsertRole, WriteRole, DeleteRole,
            InsertOrganization, InsertOwner, DeleteOrganization, SignUp, Enroll
      <4> QED
        BY <3>1, <3>3, <4>1, <4>2 DEF DeleteOwnMembership, TargetInv
    <3> QED
      BY <3>2, <3>3
  <2> QED
    BY <1>1, <2>1, <2>2, StepIs, ReadsRead DEF Next, Crash
<1>2. Inv /\ [Next]_vars => [Stay]_vars
  BY <1>1
<1> QED
  BY <1>2, InvHolds, PTL DEF Spec, WritesStayInOrganization
-----------------------------------------------------------------------------
(* Authority *)

\* What the holders of a role may do.
Power(o, name) == UNION Resolved(o, name)

\* Nobody may change organisation o, conjunct by conjunct.
NoAuthority(o) ==
    /\ \A m \in memberships : m.org = o => Power(o, m.role) = {}
    /\ \A r \in Requests :
         pc[r] = "resolvePermissions" /\ loc[r].org = o => Power(o, loc[r].role) = {}
    /\ \A r \in Requests :
         loc[r] # None /\ loc[r].org = o /\ pc[r] \in Statements => loc[r].op = "leaveOrganization"
    /\ \A k \in Keys : KeyScopes[k] # {} => k \notin TenantRoot /\ KeyProject[k] # ProjectOf[o]

\* NoAuthority is the negation of Authority.
LEMMA NoAuthorityIs ==
    ASSUME NEW o \in Orgs
    PROVE  NoAuthority(o) <=> ~Authority(o)
  BY DEF NoAuthority, Authority, LetIn, Power

\* A default role can do what ROLE_PERMISSIONS says.
LEMMA DefaultPower ==
    ASSUME NEW o \in Orgs, NEW name \in DefaultRoles
    PROVE  Power(o, name) = DefaultPermissions[name]
  BY DEF Power, Resolved

\* The permissions of a role are a part of its power.
LEMMA PowerHas ==
    ASSUME NEW o \in Orgs, NEW name, NEW perms \in Resolved(o, name), NEW p \in perms
    PROVE  Power(o, name) # {}
  BY DEF Power

\* A step after which the roles of o are the same, its members have roles they
\* had or the empty one, and nobody new is let in gives nobody authority.
LEMMA NobodyGains ==
    ASSUME NEW o \in Orgs, NoAuthority(o),
           {p \in customRoles' : p.org = o} = {p \in customRoles : p.org = o},
           \A m \in memberships' : m.org = o =>
             \/ m.role = "member"
             \/ \E n \in memberships : n.org = o /\ n.role = m.role,
           \A s \in Requests : pc'[s] = "resolvePermissions" /\ loc'[s].org = o =>
             \/ pc[s] = "resolvePermissions" /\ loc'[s] = loc[s]
             \/ \E n \in memberships : n.org = o /\ n.role = loc'[s].role,
           \A s \in Requests : loc'[s] # None /\ loc'[s].org = o /\ pc'[s] \in Statements
             => loc'[s].op = "leaveOrganization"
    PROVE  NoAuthority(o)'
<1>1. \A name : RolesNamed(o, name)' = RolesNamed(o, name)
  BY DEF RolesNamed
<1>2. ASSUME NEW name
      PROVE  Resolved(o, name)' = Resolved(o, name)
  <2>1. RolesNamed(o, name)' = RolesNamed(o, name)
    BY <1>1
  <2>2. {p.perms : p \in RolesNamed(o, name)}' = {p.perms : p \in RolesNamed(o, name)}
    BY <2>1
  <2> QED
    BY <2>1, <2>2, Zenon DEF Resolved
<1>3. \A name : Power(o, name)' = Power(o, name)
  BY <1>2 DEF Power
<1>4. Power(o, "member") = {}
  BY DefaultPower, DefaultPermissionsAre DEF DefaultRoles
<1> QED
  BY <1>3, <1>4 DEF NoAuthority

\* Who passes the gate had authority.
LEMMA GateNeedsAuthority ==
    ASSUME Inv, NEW r \in Requests, Gate(r), NEW o \in Orgs, NoAuthority(o),
           organizations[o] = "live", loc'[r] # None, loc'[r].org = o
    PROVE  /\ pc'[r] \in Statements => loc'[r].op = "leaveOrganization"
           /\ pc'[r] = "resolvePermissions" =>
                \E n \in memberships : n.org = o /\ n.role = loc'[r].role
<1>d. /\ pc \in [Requests -> InFlight \cup {"new", "over"}]
      /\ loc \in [Requests -> Locals \cup {None}]
      /\ Handler(pc[r], loc[r])
  BY DEF Inv, TypeInv, HandlersOK
<1>c. \A p, l : Continue(r, p, l) => pc'[r] = p /\ loc'[r] = l
  BY <1>d DEF Continue
<1>e. ~End(r)
  BY <1>c DEF End
<1>1. ASSUME NEW call \in Calls, AuthenticateUser(r, call), call.op # "leaveOrganization"
      PROVE  /\ pc'[r] \notin Statements
             /\ \E n \in memberships : n.org = o /\ n.role = loc'[r].role
  <2>0. call \in Locals
    BY CallFits DEF Inv, TypeInv
  <2>1. PICK m \in MembershipsOf(call.caller, call.org) :
          \/ /\ m.role \in DefaultRoles
             /\ Needed(call.op) \in DefaultPermissions[m.role]
             /\ Continue(r, FirstStatement[call.op], call)
          \/ /\ m.role \notin DefaultRoles
             /\ Continue(r, "resolvePermissions", [call EXCEPT !.role = m.role])
    BY <1>1, <1>e DEF AuthenticateUser
  <2>2. m \in memberships /\ m.org = call.org
    BY DEF MembershipsOf
  <2>3. loc'[r].org = call.org
    BY <1>c, <2>0, <2>1 DEF Locals
  <2>4. Power(o, m.role) = {}
    BY <2>2, <2>3 DEF NoAuthority
  <2>5. m.role \notin DefaultRoles
    BY <2>1, <2>4, DefaultPower
  <2>6. pc'[r] = "resolvePermissions" /\ loc'[r].role = m.role
    BY <1>c, <2>0, <2>1, <2>5 DEF Locals
  <2> QED
    BY <2>2, <2>3, <2>6, PositionsAre
<1>2. ASSUME NEW call \in Calls, AuthenticateKey(r, call)
      PROVE  pc'[r] = "checkProject"
  <2>1. /\ call.caller \in Keys
        /\ Needed(call.op) \in KeyScopes[call.caller]
        /\ Continue(r, IF call.caller \in TenantRoot THEN FirstStatement[call.op]
                       ELSE "checkProject", call)
    BY <1>2, <1>e DEF AuthenticateKey
  <2>2. call.caller \notin TenantRoot
    BY <2>1 DEF NoAuthority
  <2> QED
    BY <1>c, <2>1, <2>2
<1>3. ASSUME NEW c \in Callers, NEW n \in Orgs, RequestOrganization(r, c, n)
      PROVE  FALSE
  <2>1. organizations[n] = "unused" /\ loc'[r].org = n
    BY <1>3, <1>c, <1>e DEF RequestOrganization
  <2> QED
    BY <2>1
<1>4. CASE CheckProject(r)
  <2>1. /\ ProjectOf[loc[r].org] = KeyProject[loc[r].caller]
        /\ loc'[r] = loc[r] /\ pc[r] = "checkProject"
    BY <1>4, <1>c, <1>e DEF CheckProject, Goes, Refuse
  <2>2. loc[r].caller \in Keys /\ Needed(loc[r].op) \in KeyScopes[loc[r].caller]
    BY <1>d, <2>1 DEF Handler, At
  <2> QED
    BY <2>1, <2>2 DEF NoAuthority
<1>5. CASE ResolvePermissions(r)
  <2>1. PICK perms \in Resolved(loc[r].org, loc[r].role) :
          Needed(loc[r].op) \in perms /\ loc'[r] = loc[r] /\ pc[r] = "resolvePermissions"
    BY <1>5, <1>c, <1>e DEF ResolvePermissions, Goes, Refuse
  <2> QED
    BY <2>1, PowerHas DEF NoAuthority
<1>6. ASSUME NEW call \in Calls, AuthenticateUser(r, call), call.op = "leaveOrganization"
      PROVE  pc'[r] = "findOwnMembership" /\ loc'[r].op = "leaveOrganization"
  BY <1>6, <1>c, <1>e, FirstStatementIs DEF AuthenticateUser
<1> QED
  BY <1>1, <1>2, <1>3, <1>4, <1>5, <1>6, PositionsAre DEF Gate

\* A request of another organisation stays one of another organisation.
LEMMA OrganizationOfRequestStays ==
    ASSUME Inv, NEW r \in Requests, Reads(r) \/ Writes(r), loc[r] # None, loc'[r] # None
    PROVE  loc'[r].org = loc[r].org /\ loc'[r].op = loc[r].op
<1>d. /\ pc \in [Requests -> InFlight \cup {"new", "over"}]
      /\ loc \in [Requests -> Locals \cup {None}]
      /\ Handler(pc[r], loc[r])
  BY DEF Inv, TypeInv, HandlersOK
<1>c. \A p, l : Continue(r, p, l) => loc'[r] = l
  BY <1>d DEF Continue
<1>e. ~End(r)
  BY <1>c DEF End
<1>l. loc[r] \in Locals /\ pc[r] # "new"
  BY <1>d, PositionsAre DEF Handler
<1>1. CASE Gate(r)
  BY <1>1, <1>c, <1>e, <1>l
  DEF Gate, AuthenticateUser, AuthenticateKey, RequestOrganization, CheckProject,
      ResolvePermissions, Goes, Refuse
<1>2. CASE FindMembership(r) \/ CountOwners(r) \/ CheckMembers(r)
  BY <1>2, <1>c, <1>e DEF FindMembership, CountOwners, CheckMembers, Goes, Refuse
<1>3. CASE FindOwnMembership(r)
  BY <1>3, <1>c, <1>e, <1>l DEF FindOwnMembership, Refuse, Locals
<1>4. CASE FindRole(r)
  BY <1>4, <1>c, <1>e, <1>l DEF FindRole, Refuse, Locals
<1>5. CASE Writes(r)
  BY <1>5, <1>c, <1>e, <1>l
  DEF Writes, InsertMembership, WriteMembership, DeleteOwnMembership, InsertRole, WriteRole,
      DeleteRole, InsertOrganization, InsertOwner, DeleteOrganization, SignUp, Enroll,
      Written, Refuse, Goes
<1> QED
  BY <1>1, <1>2, <1>3, <1>4, <1>5 DEF Reads

\* No step gives anybody authority over an organisation nobody has authority over.
LEMMA AuthorityStep ==
    ASSUME Inv, Next, NEW o \in Orgs, organizations[o] = "live", NoAuthority(o)
    PROVE  NoAuthority(o)'
<1>1. CASE Crash
  <2>1. UNCHANGED tables /\ \A s \in Requests : loc'[s] = None /\ pc'[s] # "resolvePermissions"
    <3>1. \A s \in Requests : Handler(pc[s], loc[s])
      BY DEF Inv, TypeInv, HandlersOK
    <3> QED
      BY <1>1, <3>1, NoneIsNoRecord, PositionsAre DEF Crash, Handler
  <2> QED
    BY <2>1, NobodyGains DEF tables
<1>2. ASSUME NEW r \in Requests, Reads(r) \/ Writes(r)
      PROVE  NoAuthority(o)'
  <2>m. /\ \A s \in Requests : s # r => pc'[s] = pc[s] /\ loc'[s] = loc[s]
        /\ Handler(pc[r], loc[r])
        /\ \A s \in Requests : pc[s] = "resolvePermissions" => loc[s] # None
    BY <1>2, OneMoves, OthersStay, InFlightHasVariables, PositionsAre
    DEF Inv, TypeInv, HandlersOK
  <2>n. HandlersOK'
    BY HandlersStay DEF Inv, TypeInv
  <2>p. pc'[r] = "resolvePermissions" => loc'[r] # None
    BY <2>n, PositionsAre, NoneIsNoRecord DEF HandlersOK, Handler
  <2>c. /\ pc \in [Requests -> InFlight \cup {"new", "over"}]
        /\ loc \in [Requests -> Locals \cup {None}]
    BY DEF Inv, TypeInv, HandlersOK
  <2>1. CASE Gate(r)
    <3>1. UNCHANGED <<memberships, customRoles>>
      BY <2>1, GateReads DEF tables
    <3>2. loc'[r] # None /\ loc'[r].org = o =>
            /\ pc'[r] \in Statements => loc'[r].op = "leaveOrganization"
            /\ pc'[r] = "resolvePermissions" =>
                 \E n \in memberships : n.org = o /\ n.role = loc'[r].role
      BY <2>1, GateNeedsAuthority
    <3>3. \A s \in Requests : pc'[s] = "resolvePermissions" /\ loc'[s].org = o =>
             \/ pc[s] = "resolvePermissions" /\ loc'[s] = loc[s]
             \/ \E n \in memberships : n.org = o /\ n.role = loc'[s].role
      BY <2>m, <2>p, <3>2
    <3>4. \A s \in Requests : loc'[s] # None /\ loc'[s].org = o /\ pc'[s] \in Statements
             => loc'[s].op = "leaveOrganization"
      BY <2>m, <3>2 DEF NoAuthority
    <3> QED
      BY <3>1, <3>3, <3>4, NobodyGains
  <2>2. CASE ~Gate(r) /\ pc[r] # "new" /\ loc[r].org # o
    <3>1. loc[r] # None /\ loc'[r] # None => loc'[r].org # o
      BY <1>2, <2>2, OrganizationOfRequestStays
    <3>2. loc[r] # None
      BY <1>2, <2>2, <2>m, OneMoves, OthersStay, NoneIsNoRecord DEF Inv, Handler
    <3>3. /\ {m \in memberships' : m.org = o} = {m \in memberships : m.org = o}
          /\ {p \in customRoles' : p.org = o} = {p \in customRoles : p.org = o}
      BY <1>2, <2>2, RowsElsewhereStay
    <3>4. \A s \in Requests : pc'[s] = "resolvePermissions" /\ loc'[s].org = o =>
             pc[s] = "resolvePermissions" /\ loc'[s] = loc[s]
      BY <2>m, <2>p, <3>1, <3>2
    <3>5. \A s \in Requests : loc'[s] # None /\ loc'[s].org = o /\ pc'[s] \in Statements
             => loc'[s].op = "leaveOrganization"
      BY <2>m, <3>1, <3>2 DEF NoAuthority
    <3>6. \A m \in memberships' : m.org = o => m \in memberships
      BY <3>3
    <3> QED
      BY <3>3, <3>4, <3>5, <3>6, NobodyGains
  <2>3. CASE ~Gate(r) /\ pc[r] = "new"
    <3>1. \E u \in Users : SignUp(r, u)
      BY <1>2, <2>3
      DEF Reads, Writes, FindMembership, FindOwnMembership, CountOwners, FindRole, CheckMembers,
          InsertMembership, WriteMembership, DeleteOwnMembership, InsertRole, WriteRole,
          DeleteRole, InsertOrganization, InsertOwner, DeleteOrganization, Enroll
    <3>2. UNCHANGED <<memberships, customRoles>> /\ pc'[r] \in {"over", "enroll"}
      BY <2>c, <3>1 DEF SignUp, End, Continue
    <3>3. pc'[r] \notin Statements \cup {"resolvePermissions"}
      <4>1. /\ "enroll" \notin Statements /\ "over" \notin Statements
        BY PositionsAre
      <4> QED
        BY <3>2, <4>1
    <3>4. \A s \in Requests : pc'[s] = "resolvePermissions" /\ loc'[s].org = o =>
             pc[s] = "resolvePermissions" /\ loc'[s] = loc[s]
      BY <2>m, <3>3
    <3>5. \A s \in Requests : loc'[s] # None /\ loc'[s].org = o /\ pc'[s] \in Statements
             => loc'[s].op = "leaveOrganization"
      BY <2>m, <3>3 DEF NoAuthority
    <3> QED
      BY <3>2, <3>4, <3>5, NobodyGains
  <2>4. CASE ~Gate(r) /\ pc[r] # "new" /\ loc[r].org = o
    <3>1. loc[r] # None /\ pc[r] \in InFlight
      BY <1>2, <2>4, <2>m, OneMoves, OthersStay, NoneIsNoRecord DEF Inv, Handler
    <3>2. pc[r] \in Statements => loc[r].op = "leaveOrganization"
      BY <2>4, <3>1 DEF NoAuthority
    <3>3. pc[r] \in {"findOwnMembership", "countOwners", "deleteOwnMembership",
                     "checkProject", "resolvePermissions", "enroll"}
      BY <3>1, <3>2, <2>m, PositionsAre, NoneIsNoRecord DEF Handler, At
    <3>4. FindOwnMembership(r) \/ CountOwners(r) \/ DeleteOwnMembership(r) \/ Enroll(r)
      BY <1>2, <2>4, <3>3
      DEF Reads, Writes, FindMembership, FindRole, CheckMembers, InsertMembership,
          WriteMembership, InsertRole, WriteRole, DeleteRole, InsertOrganization, InsertOwner,
          DeleteOrganization, SignUp
    <3>5. /\ UNCHANGED customRoles
          /\ \A m \in memberships' : m \in memberships \/ m.role = "member"
      BY <3>4 DEF FindOwnMembership, CountOwners, DeleteOwnMembership, Enroll, tables
    <3>6. pc'[r] \in {"countOwners", "deleteOwnMembership", "over"}
      BY <2>c, <3>4 DEF FindOwnMembership, CountOwners, DeleteOwnMembership, Enroll, Continue,
         End, Refuse, Written, Goes
    <3>7. loc'[r] # None /\ pc'[r] \in Statements => loc'[r].op = "leaveOrganization"
      BY <1>2, <3>1, <3>2, <3>3, <3>6, <2>n, PositionsAre, NoneIsNoRecord
      DEF HandlersOK, Handler, At
    <3>8. \A s \in Requests : pc'[s] = "resolvePermissions" /\ loc'[s].org = o =>
             pc[s] = "resolvePermissions" /\ loc'[s] = loc[s]
      BY <2>m, <3>6
    <3>9. \A s \in Requests : loc'[s] # None /\ loc'[s].org = o /\ pc'[s] \in Statements
             => loc'[s].op = "leaveOrganization"
      BY <2>m, <3>7 DEF NoAuthority
    <3> QED
      BY <3>5, <3>8, <3>9, NobodyGains
  <2> QED
    BY <2>1, <2>2, <2>3, <2>4
<1> QED
  BY <1>1, <1>2, StepIs DEF Next

\* When nobody may change an organisation, nobody ever may: no request, of any
\* user or key, to this or to another organisation, no sign-up and no role of the
\* same name elsewhere gives anybody authority, in whatever order their
\* statements interleave.
THEOREM AuthorityAlwaysComesFromAuthority == Spec => AuthorityComesFromAuthority
<1> DEFINE Kept == \A o \in Orgs :
         organizations[o] = "live" /\ ~Authority(o) => ~Authority(o)'
<1>1. ASSUME Inv, Next
      PROVE  Kept
  <2> SUFFICES ASSUME NEW o \in Orgs, organizations[o] = "live", ~Authority(o)
               PROVE  ~Authority(o)'
    OBVIOUS
  <2>1. NoAuthority(o)'
    BY <1>1, NoAuthorityIs, AuthorityStep
  <2> QED
    BY <2>1 DEF NoAuthority, Authority, LetIn, Power
<1>2. Inv /\ [Next]_vars => [Kept]_vars
  BY <1>1
<1> QED
  BY <1>2, InvHolds, PTL DEF Spec, AuthorityComesFromAuthority
-----------------------------------------------------------------------------
(* Handlers that nobody wrote behind the back of *)

\* What a handler in the observer still knows: an owner besides the caller, if
\* there is an owner at all; and the name of the role, which nobody carries.
CalmInv(r) ==
    r \in calm =>
      /\ pc[r] = "deleteOwnMembership" =>
           \/ OwnersOf(loc[r].org) = {}
           \/ \E m \in OwnersOf(loc[r].org) : m.id # loc[r].target
      /\ pc[r] \in {"checkMembers", "deleteRole"} =>
           \A p \in customRoles : p.org = loc[r].org /\ p.id = loc[r].target
                                    => p.name = loc[r].role
      /\ pc[r] = "deleteRole" =>
           \A m \in memberships : m.org = loc[r].org => m.role # loc[r].role

\* A write in an organisation takes everybody else there out of the observer.
LEMMA CalmMeansUnwritten ==
    ASSUME NEW s \in Requests, NEW r \in calm', Reads(s) \/ Writes(s), s # r,
           loc[s] # None, loc[s].org = loc[r].org
    PROVE  UNCHANGED <<memberships, customRoles>>
<1>1. ~Written(s, loc[s].org)
  BY DEF Written
<1>2. CASE Reads(s)
  BY <1>2, ReadsRead DEF tables
<1>3. CASE Writes(s)
  BY <1>1, <1>3
  DEF Writes, InsertMembership, WriteMembership, DeleteOwnMembership, InsertRole, WriteRole,
      DeleteRole, InsertOrganization, InsertOwner, DeleteOrganization, SignUp, Enroll
<1> QED
  BY <1>2, <1>3

\* An owner who is not the last one is not the only one.
LEMMA AnotherOwner ==
    ASSUME Inv, NEW o \in Orgs, Cardinality(OwnersOf(o)) > 1, NEW target
    PROVE  \E m \in OwnersOf(o) : m.id # target
<1> DEFINE S == OwnersOf(o)
<1>1. S \in SUBSET memberships /\ IsFiniteSet(memberships)
  BY DEF OwnersOf, Inv, TypeInv, TablesOK
<1>2. IsFiniteSet(S) /\ Cardinality(S) \in Nat
  BY <1>1, FS_Subset, FS_CardinalityType
<1>3. S # {}
  BY <1>2, FS_EmptySet
<1>4. PICK x \in S : TRUE
  BY <1>3
<1>5. IsFiniteSet(S \ {x}) /\ Cardinality(S \ {x}) = Cardinality(S) - 1
  BY <1>2, <1>4, FS_RemoveElement
<1>6. S \ {x} # {}
  BY <1>2, <1>5, FS_EmptySet
<1>7. PICK y \in S : y # x
  BY <1>6
<1>8. x.id # y.id
  BY <1>1, <1>4, <1>7 DEF Inv, IdInv, IdsInv
<1> QED
  BY <1>4, <1>7, <1>8

\* What an undisturbed handler knows stays true.
LEMMA CalmInvStep ==
    ASSUME Inv, Inv', Next, NEW r \in Requests, CalmInv(r)
    PROVE  CalmInv(r)'
<1>d. /\ pc \in [Requests -> InFlight \cup {"new", "over"}]
      /\ loc \in [Requests -> Locals \cup {None}]
      /\ Handler(pc[r], loc[r])
  BY DEF Inv, TypeInv, HandlersOK
<1>1. CASE Crash
  BY <1>1 DEF Crash, CalmInv
<1>2. ASSUME NEW s \in Requests, Reads(s) \/ Writes(s), s # r
      PROVE  CalmInv(r)'
  <2> SUFFICES ASSUME r \in calm'
               PROVE  CalmInv(r)'
    BY DEF CalmInv
  <2>1. pc'[r] = pc[r] /\ loc'[r] = loc[r]
    BY <1>2, OneMoves, OthersStay DEF Inv
  <2>2. pc[r] \in InFlight /\ loc[r] # None /\ loc[r].org \in Orgs
    <3>1. loc'[r] # None
      BY DEF Inv, TypeInv, CalmOK
    <3> QED
      BY <1>d, <2>1, <3>1 DEF Handler, Locals
  <2>3. r \in calm
    <3>1. calm' \subseteq calm \cup {s}
      BY <1>2
      DEF Reads, Gate, AuthenticateUser, AuthenticateKey, RequestOrganization, CheckProject,
          ResolvePermissions, FindMembership, FindOwnMembership, CountOwners, FindRole,
          CheckMembers, Writes, InsertMembership, WriteMembership, DeleteOwnMembership,
          InsertRole, WriteRole, DeleteRole, InsertOrganization, InsertOwner,
          DeleteOrganization, SignUp, Enroll, Goes, Refuse, Written
    <3> QED
      BY <1>2, <3>1
  <2>4. /\ {m \in memberships' : m.org = loc[r].org} = {m \in memberships : m.org = loc[r].org}
        /\ {p \in customRoles' : p.org = loc[r].org} = {p \in customRoles : p.org = loc[r].org}
    <3>1. CASE loc[s] # None /\ loc[s].org = loc[r].org
      BY <1>2, <3>1, CalmMeansUnwritten
    <3>2. CASE loc[s] = None \/ loc[s].org # loc[r].org
      BY <1>2, <2>2, <3>2, RowsElsewhereStay
    <3> QED
      BY <3>1, <3>2
  <2>5. OwnersOf(loc[r].org)' = OwnersOf(loc[r].org)
    BY <2>1, <2>4 DEF OwnersOf
  <2> QED
    BY <2>1, <2>3, <2>4, <2>5 DEF CalmInv
<1>3. ASSUME Reads(r) \/ Writes(r)
      PROVE  CalmInv(r)'
  <2>c. \A p, l : Continue(r, p, l) => pc'[r] = p /\ loc'[r] = l
    BY <1>d DEF Continue
  <2>n. ASSUME pc'[r] \notin {"deleteOwnMembership", "checkMembers", "deleteRole"}
        PROVE  CalmInv(r)'
    BY <2>n DEF CalmInv
  <2>e. ASSUME End(r)
        PROVE  CalmInv(r)'
    BY <2>c, <2>e, <2>n DEF End
  <2>1. CASE Gate(r)
    <3>1. pc'[r] \in {"over", "resolvePermissions", "checkProject", "insertOrganization"}
            \cup {FirstStatement[op] : op \in Gated \cup {"leaveOrganization"}}
      BY <2>1, GateGoesTo DEF Inv
    <3> QED
      BY <3>1, <2>n, FirstStatementIs DEF Gated
  <2>2. CASE FindMembership(r)
    BY <2>2, <2>c, <2>e, <2>n DEF FindMembership, Refuse
  <2>3. CASE FindOwnMembership(r)
    <3>1. ASSUME NEW m \in MembershipsOf(loc[r].caller, loc[r].org),
                 Continue(r, IF m.role = "owner" THEN "countOwners" ELSE "deleteOwnMembership",
                          [loc[r] EXCEPT !.target = m.id]),
                 m.role # "owner"
          PROVE  CalmInv(r)'
      <4>0. loc[r] \in Locals
        BY <1>d, <2>3, PositionsAre DEF FindOwnMembership, Handler
      <4>1. /\ pc'[r] = "deleteOwnMembership" /\ UNCHANGED memberships
            /\ loc'[r].target = m.id /\ loc'[r].org = loc[r].org
        BY <2>c, <2>3, <3>1, <4>0 DEF FindOwnMembership, tables, Locals
      <4>2. \A n \in OwnersOf(loc[r].org) : n.id # m.id
        BY <3>1 DEF OwnersOf, MembershipsOf, Inv, IdInv, IdsInv
      <4>3. OwnersOf(loc[r].org)' = OwnersOf(loc[r].org)
        BY <4>1 DEF OwnersOf
      <4> QED
        BY <4>1, <4>2, <4>3 DEF CalmInv
    <3>2. ASSUME NEW m \in MembershipsOf(loc[r].caller, loc[r].org),
                 Continue(r, IF m.role = "owner" THEN "countOwners" ELSE "deleteOwnMembership",
                          [loc[r] EXCEPT !.target = m.id]),
                 m.role = "owner"
          PROVE  CalmInv(r)'
      BY <2>c, <2>n, <3>2
    <3> QED
      BY <2>3, <2>e, <3>1, <3>2 DEF FindOwnMembership, Refuse
  <2>4. CASE CountOwners(r)
    <3>1. CASE Goes(r, "deleteOwnMembership", loc[r]) /\ Cardinality(OwnersOf(loc[r].org)) > 1
      <4>1. loc'[r] = loc[r] /\ pc'[r] = "deleteOwnMembership" /\ UNCHANGED memberships
        BY <2>c, <2>4, <3>1 DEF CountOwners, Goes, tables
      <4>2. loc[r].org \in Orgs
        BY <1>d, <2>4, PositionsAre DEF CountOwners, Handler, Locals
      <4>3. \E m \in OwnersOf(loc[r].org) : m.id # loc[r].target
        BY <3>1, <4>2, AnotherOwner
      <4>4. OwnersOf(loc[r].org)' = OwnersOf(loc[r].org)
        BY <4>1 DEF OwnersOf
      <4> QED
        BY <4>1, <4>3, <4>4 DEF CalmInv
    <3> QED
      BY <2>4, <2>e, <3>1 DEF CountOwners, Refuse
  <2>5. CASE FindRole(r)
    <3>1. ASSUME NEW q \in customRoles, q.id = loc[r].target, q.org = loc[r].org,
                 NEW p \in {"writeRole", "checkMembers"},
                 Continue(r, p, [loc[r] EXCEPT !.role = q.name])
          PROVE  CalmInv(r)'
      <4>0. loc[r] \in Locals
        BY <1>d, <2>5, PositionsAre DEF FindRole, Handler
      <4>1. /\ pc'[r] = p /\ UNCHANGED customRoles
            /\ loc'[r].target = q.id /\ loc'[r].org = loc[r].org /\ loc'[r].role = q.name
        BY <2>c, <2>5, <3>1, <4>0 DEF FindRole, tables, Locals
      <4> QED
        BY <4>1 DEF CalmInv, Inv, IdInv, IdsInv
    <3> QED
      BY <2>5, <2>e, <3>1 DEF FindRole, Refuse
  <2>6. CASE CheckMembers(r)
    <3>1. CASE /\ Goes(r, "deleteRole", loc[r])
               /\ \A m \in memberships : m.org = loc[r].org => m.role # loc[r].role
      <4>1. /\ loc'[r] = loc[r] /\ pc'[r] = "deleteRole" /\ pc[r] = "checkMembers"
            /\ UNCHANGED <<memberships, customRoles, calm>>
        BY <2>c, <2>6, <3>1 DEF CheckMembers, Goes, tables
      <4> QED
        BY <3>1, <4>1 DEF CalmInv
    <3> QED
      BY <2>6, <2>e, <3>1 DEF CheckMembers, Refuse
  <2>7. CASE Writes(r)
    <3>1. pc'[r] \in {"over", "insertOwner", "enroll"}
      BY <2>7, WriteGoesTo DEF Inv
    <3> QED
      BY <3>1, <2>n
  <2> QED
    BY <1>3, <2>1, <2>2, <2>3, <2>4, <2>5, <2>6, <2>7 DEF Reads
<1> QED
  BY <1>1, <1>2, <1>3, StepIs DEF Next

QuietInv == Inv /\ \A r \in Requests : CalmInv(r)

\* It is true always.
LEMMA CalmInvHolds == Spec => []QuietInv
<1>1. Init => QuietInv
  BY InvInit DEF Init, QuietInv, CalmInv
<1>2. QuietInv /\ [Next]_vars => QuietInv'
  <2> SUFFICES ASSUME QuietInv, [Next]_vars
               PROVE  QuietInv'
    OBVIOUS
  <2>1. Inv'
    BY InvStep DEF QuietInv
  <2>2. CASE Next
    BY <2>1, <2>2, CalmInvStep DEF QuietInv
  <2>3. CASE UNCHANGED vars
    BY <2>1, <2>3 DEF vars, QuietInv, CalmInv, OwnersOf
  <2> QED
    BY <2>2, <2>3
<1> QED
  BY <1>1, <1>2, PTL DEF Spec

\* Which step ends a handler at a statement of its own.
LEMMA WhoEnds ==
    ASSUME Inv, Next, NEW r \in Requests, pc'[r] # pc[r], ~Crash,
           pc[r] \in {"deleteOwnMembership", "deleteRole"}
    PROVE  DeleteOwnMembership(r) \/ DeleteRole(r)
<1>1. PICK s \in Requests : Reads(s) \/ Writes(s)
  BY StepIs DEF Next
<1>2. s = r
  BY <1>1, OneMoves, OthersStay DEF Inv
<1> QED
  BY <1>1, <1>2
  DEF Reads, Gate, AuthenticateUser, AuthenticateKey, RequestOrganization, CheckProject,
      ResolvePermissions, FindMembership, FindOwnMembership, CountOwners, FindRole,
      CheckMembers, Writes, InsertMembership, WriteMembership, InsertRole, WriteRole,
      InsertOrganization, InsertOwner, DeleteOrganization, SignUp, Enroll

\* A leave that nobody raced in its organisation never takes the last owner.
THEOREM CalmLeaveAlwaysKeepsOwner == Spec => CalmLeaveKeepsOwner
<1> DEFINE Kept == \A r \in Requests, o \in Orgs :
         Leaves(r, o) /\ r \in calm /\ OwnersOf(o) # {} => OwnersOf(o)' # {}
<1>1. ASSUME QuietInv, Next
      PROVE  Kept
  <2> SUFFICES ASSUME NEW r \in Requests, NEW o \in Orgs, Leaves(r, o), r \in calm,
                      OwnersOf(o) # {}
               PROVE  OwnersOf(o)' # {}
    OBVIOUS
  <2>1. CASE Crash
    BY <2>1 DEF Crash, tables, OwnersOf
  <2>2. CASE ~Crash
    <3>1. DeleteOwnMembership(r)
      BY <1>1, <2>2, WhoEnds DEF Leaves, QuietInv, DeleteRole
    <3>2. PICK m \in OwnersOf(o) : m.id # loc[r].target
      BY <1>1 DEF QuietInv, CalmInv, Leaves
    <3> QED
      BY <3>1, <3>2 DEF DeleteOwnMembership, OwnersOf
  <2> QED
    BY <2>1, <2>2
<1>2. QuietInv /\ [Next]_vars => [Kept]_vars
  BY <1>1
<1> QED
  BY <1>2, CalmInvHolds, PTL DEF Spec, CalmLeaveKeepsOwner

\* A deletion of a role that nobody raced in its organisation leaves no member
\* with a name that means nothing.
THEOREM CalmDeleteAlwaysStrandsNobody == Spec => CalmDeleteStrandsNobody
<1> DEFINE Kept == \A r \in Requests, o \in Orgs :
         pc[r] = "deleteRole" /\ pc'[r] = "over" /\ loc[r].org = o /\ r \in calm =>
           Stranded(o)' \subseteq Stranded(o)
<1>1. ASSUME QuietInv, Next
      PROVE  Kept
  <2> SUFFICES ASSUME NEW r \in Requests, NEW o \in Orgs, pc[r] = "deleteRole",
                      pc'[r] = "over", loc[r].org = o, r \in calm
               PROVE  Stranded(o)' \subseteq Stranded(o)
    OBVIOUS
  <2>1. CASE Crash
    BY <2>1 DEF Crash, tables, Stranded, RolesNamed
  <2>2. CASE ~Crash
    <3>1. DeleteRole(r)
      BY <1>1, <2>2, WhoEnds DEF QuietInv, DeleteOwnMembership
    <3>2. /\ \A p \in customRoles : p.org = o /\ p.id = loc[r].target => p.name = loc[r].role
          /\ \A m \in memberships : m.org = o => m.role # loc[r].role
      BY <1>1 DEF QuietInv, CalmInv
    <3>3. UNCHANGED memberships /\ customRoles' = {p \in customRoles : p.id # loc[r].target}
      BY <3>1 DEF DeleteRole
    <3>4. ASSUME NEW m \in memberships, m.org = o, RolesNamed(o, m.role)' = {}
          PROVE  RolesNamed(o, m.role) = {}
      BY <3>2, <3>3, <3>4 DEF RolesNamed
    <3> QED
      BY <3>3, <3>4 DEF Stranded
  <2> QED
    BY <2>1, <2>2
<1>2. QuietInv /\ [Next]_vars => [Kept]_vars
  BY <1>1
<1> QED
  BY <1>2, CalmInvHolds, PTL DEF Spec, CalmDeleteStrandsNobody
=============================================================================
