SPECIFICATION FairServiceSpec
CONSTANTS
  RequestId = {r1, r2}
  RequestSpec <- Shapes
  NoDeadline = NoDeadline
  MaxActiveRequests = 2
  MaxQueuedRequests = 2
  MaxBatchRequests = 2
  MaxReservedKvBytes = 8
  KvBytesPerToken = 1
  KvPageTokens = 2
  MaxPromptTokens = 2
  MaxOutputTokens = 2
  ServiceQuantumTokens = 2
  PrefillChunkTokens = 1
  UrgentWindowNs = 1
  MaxPrefixCreditTokens = 1
  MaxAdmissions = 3
  MaxTime = 1
  QuantumOutput <- ExecutorOutputs
  NoPrefill = NoPrefill
INVARIANTS
  ServiceTypeOK
  ExecutorMatchesScheduler
  OutputsMatchEmitted
PROPERTIES
  Spec
  EveryRequestEnds
