SPECIFICATION FairSpec
CONSTANTS
  Sessions = {s1, s2}
  MaxSessions = 1
  MaxHibernated = 0
  ForkParents = {}
  FailingOps <- AllOperations
  MaxFailures = 1
  MaxClock = 3
  MaxCrashes = 1
INVARIANTS
  SlotKeepsRoom
PROPERTIES
  CallsEnd
