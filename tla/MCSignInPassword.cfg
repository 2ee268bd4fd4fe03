SPECIFICATION Spec
CONSTANTS
  None = None
  u1 = u1
  s1 = s1
  s2 = s2
  b1 = b1
  b2 = b2
  Users = {u1, u2}
  Passwordless = {}
  Requests = {r1, r2, r3, r4}
  SigninIds = {i1, i2}
  Secrets = {}
  BackupCodes = {}
  Batches <- NoBatch
  MaxAttempts = 2
  EnrolledSecret <- PlainSecret
  EnrolledCodes <- PlainCodes
SYMMETRY UserSymmetry
INVARIANTS
  OneSessionPerSignin
  
  NoLostFailure
PROPERTIES
  OnlyUnlockClearsLock
  NoSessionForLockedUser
  ImplementsAccountLock
