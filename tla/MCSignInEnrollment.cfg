SPECIFICATION FairSpec
CONSTANTS
  None = None
  u1 = u1
  s1 = s1
  s2 = s2
  b1 = b1
  b2 = b2
  Users = {u1}
  Passwordless = {}
  Requests = {r1, r2, r3}
  SigninIds = {i1, i2}
  Secrets = {s1, s2}
  BackupCodes = {b1, b2}
  Batches <- TwoBatches
  MaxAttempts = 2
  EnrolledSecret <- MfaSecret
  EnrolledCodes <- MfaCode
INVARIANTS
  SecondFactorWhenEnabled
PROPERTIES
  RequestsAnswered
