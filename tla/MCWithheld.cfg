SPECIFICATION FairOutboxSpec
CONSTANTS
  Messages = {m1}
  Verifications = {m1}
  GenerationOf <- MCGenerationOf
  MaxSession = 2
  Workers = {w1, w2}
  BatchLimit = 2
  MaxClaims = 3
  ReadFaults = FALSE
CHECK_DEADLOCK FALSE
PROPERTIES
  CurrentIsPublished
