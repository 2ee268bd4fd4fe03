SPECIFICATION AuditSpec
CONSTANTS
  Events = {e1, e2}
  Workers = {w1, w2, w3}
  BatchSize = 2
  StreamBound = 4
  Faults = {"redis", "database", "crash"}
INVARIANTS
  AuditedOnce
  
CHECK_DEADLOCK FALSE
