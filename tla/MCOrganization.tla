--------------------------- MODULE MCOrganization ---------------------------
(* Small instances of Organization for TLC. *)
EXTENDS Organization, TLC

CONSTANTS u1, u2, u3, k1, o1, o2, o3, p1, p2, s1, s2, s3, s4, custom

MCProjectOf == o1 :> p1 @@ o2 :> p2 @@ o3 :> p2
MCProjectOwner == p1 :> u2 @@ p2 :> u1
MCKeyProject == k1 :> p1
MCKeyScopes == k1 :> {"members:write"}
MCPermSets == {{}, {"members:write"}}

\* An owner and a member with a custom role in o1, and in o2 nobody but a member
\* with a role of the same name, which is not a row there.
MCMemberships ==
    {[id |-> s1, org |-> o1, user |-> u1, role |-> "owner"],
     [id |-> s2, org |-> o1, user |-> u2, role |-> custom],
     [id |-> s4, org |-> o2, user |-> u2, role |-> custom]}
MCRoles == {[id |-> s3, org |-> o1, name |-> custom, perms |-> {"members:write"}]}

\* Two owners and nobody else.
MCOwners ==
    {[id |-> s1, org |-> o1, user |-> u1, role |-> "owner"],
     [id |-> s2, org |-> o1, user |-> u2, role |-> "owner"]}

Symmetry == Permutations(Requests)
=============================================================================
