SPECIFICATION Spec
CONSTANTS
  None = None
  u1 = u1
  s1 = s1
  s2 = s2
  b1 = b1
  b2 = b2
  Users = {u1}
  Passwordless = {}
  Requests = {r1, r2, r3, r4}
  SigninIds = {i1}
  Secrets = {s1, s2}
  BackupCodes = {b1, b2}
  Batches <- TwoBatches
  MaxAttempts = 2
  EnrolledSecret <- PlainSecret
  EnrolledCodes <- PlainCodes
SYMMETRY RequestSymmetry
PROPERTIES
  EnabledOnlyByValidCode
