SPECIFICATION FairOutboxSpec
CONSTANTS
  Messages = {m1, m2}
  Verifications = {m2}
  GenerationOf <- MCGenerationOf
  MaxSession = 2
  Workers = {w1, w2}
  BatchLimit = 2
  MaxClaims = 2
  ReadFaults = TRUE
CHECK_DEADLOCK FALSE
INVARIANTS
  EvidenceIsTrue
PROPERTIES
  OutboxSettles
