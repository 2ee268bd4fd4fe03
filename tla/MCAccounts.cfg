SPECIFICATION Spec
CONSTANTS
  None = None
  Ann = Ann
  ann = ann
  domain = domain
  Requests = {r1, r2}
  Emails = {Ann, ann}
  Typed = {Ann}
  Phones = {n1}
  Lower <- LowerCase
  DomainOf <- DomainPart
  Domains = {domain}
  Organizations = {org}
  RestrictionPool <- Blocks
  UserIds = {u1, u2}
  ContactIds = {c1, c2}
  SignupIds = {s1}
  LinkIds = {t1}
  OAuthIds = {o1}
  SessionIds = {x1}
  Subjects = {p1}
  MaxThings = 5
CONSTRAINT Bound
SYMMETRY Symmetry
INVARIANTS
  SignupOnce
  SessionsFollowProof
  PrimaryIsOwn
PROPERTIES
  BlockedStaysOut
  SettledLinksStaySettled
  ImplementsDirectory
CHECK_DEADLOCK FALSE
