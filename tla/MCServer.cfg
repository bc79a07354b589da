SPECIFICATION Spec
CONSTANTS
  Requests = {r1, r2}
  PoolSize = 1
INVARIANTS
  CleanExitKeepsTheTrail
  PoolOutlivesRequests
  AuditIsTrue
PROPERTIES
  ShutdownEnds
  RequestsAreServed
CHECK_DEADLOCK FALSE
