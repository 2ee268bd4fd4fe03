SPECIFICATION Spec
CONSTANTS
  e2 = e2
  ep2 = ep2
  t1 = t1
  p1 = p1
  Events = {e1, e2}
  Types = {t1}
  Subscriptions <- AllTypes
  Projects = {p1}
  EventType <- OneType
  EventProject <- OneProject
  Endpoints = {ep1}
  EndpointProject <- Buckets
  Workers = {w1, w2}
  BatchSize = 2
  StreamBound = 3
  Faults = {"database", "crash", "resend"}
SYMMETRY Symmetry
INVARIANTS
  BatchesAreExclusive
  AckedMeansRecorded
  RecordedOnce
PROPERTIES
  PostsInStreamOrder
  ImplementsDeliveryLog
CHECK_DEADLOCK FALSE
