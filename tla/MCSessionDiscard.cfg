SPECIFICATION Spec
CONSTANTS
  Sessions = {s1}
  MaxSessions = 1
  MaxHibernated = 0
  ForkParents = {}
  FailingOps <- OnlySync
  MaxFailures = 2
  MaxClock = 4
  MaxCrashes = 0
INVARIANTS
  FailedCleanupNotAutoloaded
