SPECIFICATION Spec
CONSTANTS
  Sessions = {s1}
  MaxSessions = 1
  MaxHibernated = 1
  ForkParents = {s1}
  FailingOps <- AllOperations
  MaxFailures = 2
  MaxClock = 4
  MaxCrashes = 0
INVARIANTS
  LeaseHasOwner
