SPECIFICATION FairSpec
CONSTANTS
  Ann = Ann
  Bob = Bob
  o1 = o1
  o2 = o2
  member = member
  t1 = t1
  None = None
  Users = {Ann, Bob}
  Orgs = {o1, o2}
  Roles = {member}
  Tabs = {t1}
  Start <- SmallStart
  RuntimeConfig = TRUE
  MaxTokens = 2
  MaxLoads = 2
  MaxChanges = 1
  MaxBusy = 1
INVARIANTS
  RolesWereHeld
  OrgCookieIsOfThisSession
  RequestsUseFetchedConfig
PROPERTIES
  PagesLoad
CHECK_DEADLOCK FALSE
