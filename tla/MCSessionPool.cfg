SPECIFICATION Spec
CONSTANTS
  Sessions = {s1, s2}
  MaxSessions = 1
  MaxHibernated = 1
  ForkParents = {s1}
  FailingOps <- AllOperations
  MaxFailures = 2
  MaxClock = 3
  MaxCrashes = 0
INVARIANTS
  TypeOK
  QuarantineOwned
  CacheAgrees
