SPECIFICATION Spec
CONSTANTS
  RequestId = {r1, r2, r3}
  RequestSpec <- Shapes
  NoDeadline = NoDeadline
  MaxActiveRequests = 3
  MaxQueuedRequests = 2
  MaxBatchRequests = 2
  MaxReservedKvBytes = 12
  KvBytesPerToken = 1
  KvPageTokens = 3
  MaxPromptTokens = 2
  MaxOutputTokens = 2
  ServiceQuantumTokens = 1
  PrefillChunkTokens = 1
  UrgentWindowNs = 1
  MaxPrefixCreditTokens = 1
  MaxAdmissions = 3
  MaxTime = 1
SYMMETRY IdSymmetry
INVARIANTS
  TypeOK
  RunningCoherent
  TokensConserved
  CancellationHonoured
  KvAccounting
  OutcomesBalance
  LimitsRespected
PROPERTIES
  TerminalIsFinal
