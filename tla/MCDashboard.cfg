SPECIFICATION Spec
CONSTANTS
  Ann = Ann
  Bob = Bob
  t1 = t1
  None = None
  Users = {Ann, Bob}
  Tabs = {t1}
  Elsewhere = {"signIn", "nextCreate"}
  MaxWrites = 2
  MaxLoads = 2
  MaxVisits = 1
  MaxWork = 3
SYMMETRY Symmetry
INVARIANTS
  CacheIsOfOneSession
  
CHECK_DEADLOCK FALSE
