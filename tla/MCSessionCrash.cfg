SPECIFICATION Spec
CONSTANTS
  Sessions = {s1}
  MaxSessions = 1
  MaxHibernated = 1
  ForkParents = {}
  FailingOps <- AllOperations
  MaxFailures = 3
  MaxClock = 4
  MaxCrashes = 2
INVARIANTS
  StartNeverRefused
  KeptSurvives
  DiscardedStaysGone
