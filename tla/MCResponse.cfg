SPECIFICATION Spec
CONSTANTS
  Kinds = {"plain", "nonstream", "stream"}
  MaxTokens = 1
  MaxBytes = 3
  MaxFrames = 2
INVARIANTS
  TypeOK
  PendingExact
  WireWellFormed
  KeptOnlyIfAnswered
PROPERTIES
  ImplementsPromise
CHECK_DEADLOCK FALSE
