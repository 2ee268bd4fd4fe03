SPECIFICATION Spec
CONSTANTS
  Ann = Ann
  Bob = Bob
  Cid = Cid
  A = A
  B = B
  p1 = p1
  p2 = p2
  p3 = p3
  k1 = k1
  k2 = k2
  c1 = c1
  c2 = c2
  r1 = r1
  r2 = r2
  None = None
  Gone = Gone
  Requests = {r1, r2}
  Projects = {p1, p2, p3}
  Tenants = {A, B}
  Users = {Ann, Bob, Cid}
  Home <- MCHome
  Owner <- MCOwner
  Account <- MCAccount
  KeyIds = {k1}
  ClientIds = {c1}
  Asked <- MCAsked
  MaxRotations = 1
  MaxArrivals = 4
SYMMETRY Symmetry

  
PROPERTIES
  RetiredKeysStayOut
  WritesStayInProject
CHECK_DEADLOCK FALSE
