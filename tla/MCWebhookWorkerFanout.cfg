SPECIFICATION FairSpec
CONSTANTS
  e2 = e2
  ep2 = ep2
  t1 = t1
  p1 = p1
  Events = {e1, e2}
  Types = {t1}
  Subscriptions <- SomeTypes
  Projects = {p1}
  EventType <- OneType
  EventProject <- SomeProjects
  Endpoints = {ep1, ep2}
  EndpointProject <- Buckets
  Workers = {w1}
  BatchSize = 2
  StreamBound = 2
  Faults = {"database"}
INVARIANTS
  DeliveriesHaveEndpoint
PROPERTIES
  EveryMessageIsRead
CHECK_DEADLOCK FALSE
