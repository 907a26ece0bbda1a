SPECIFICATION Spec
CONSTANTS
  Session = {s1, s2}
  Token = {1, 2}
  Prompts <- MCPrompts
  Sampled = {2}
  Drafts <- MCDrafts
  Buckets = {2, 3}
  Growth = 2
  MaxRevision = 3
  Profiles <- MCProfiles
SYMMETRY Sessions
INVARIANTS
  CachesWellFormed
  ReadsOwnText
  GraphIsCurrent
  FailedPrepareChangesNothing
