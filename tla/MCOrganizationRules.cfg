SPECIFICATION Spec
CONSTANTS
    u1 = u1
    u2 = u2
    u3 = u3
    k1 = k1
    o1 = o1
    o2 = o2
    o3 = o3
    p1 = p1
    p2 = p2
    s1 = s1
    s2 = s2
    s3 = s3
    s4 = s4
    custom = custom
    None = None
    Users = {u1, u2, u3}
    Keys = {k1}
    Orgs = {o1, o2, o3}
    Projects = {p1, p2}
    Requests = {r1, r2}
    SeedIds = {s1, s2, s3, s4}
    CustomNames = {custom}
    PermSets <- MCPermSets
    ProjectOf <- MCProjectOf
    ProjectOwner <- MCProjectOwner
    KeyProject <- MCKeyProject
    KeyScopes <- MCKeyScopes
    TenantRoot = {}
    InitUsers = {u1, u2}
    InitOrgs = {o1, o2}
    InitMemberships <- MCMemberships
    InitRoles <- MCRoles
INVARIANTS RowsHaveOrganization
PROPERTIES WritesStayInOrganization AuthorityComesFromAuthority CalmLeaveKeepsOwner CalmDeleteStrandsNobody
SYMMETRY Symmetry
CHECK_DEADLOCK FALSE
