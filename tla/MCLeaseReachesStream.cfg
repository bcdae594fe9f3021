SPECIFICATION FairFocusSpec
CONSTANTS
  Messages = {m1}
  Verifications = {}
  GenerationOf <- MCGenerationOf
  MaxSession = 2
  Workers = {w1}
  BatchLimit = 1
  MaxClaims = 2
  ReadFaults = FALSE
  Gateways = {g1, g2}
  MaxStored = 2
CHECK_DEADLOCK FALSE
PROPERTIES
  LeaseReachesStream
