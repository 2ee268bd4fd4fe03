SPECIFICATION Spec
CONSTANTS
  None = None
  u1 = u1
  s1 = s1
  s2 = s2
  b1 = b1
  b2 = b2
  Users = {u1}
  Passwordless = {}
  Requests = {r1, r2, r3, r4}
  SigninIds = {i1, i2}
  Secrets = {s1}
  BackupCodes = {b1, b2}
  Batches <- OneBatch
  MaxAttempts = 2
  EnrolledSecret <- MfaSecret
  EnrolledCodes <- MfaCodes
SYMMETRY Symmetry
INVARIANTS
  LockMeansExhausted
  
PROPERTIES
  CounterFallsOnlyAfterAllFactors
