SPECIFICATION FocusSpec
SYMMETRY PathSymmetry
CONSTANTS
  Messages = {m1, m2}
  Verifications = {m2}
  GenerationOf <- MCGenerationOf
  MaxSession = 3
  Workers = {w1, w2}
  BatchLimit = 1
  MaxClaims = 2
  ReadFaults = FALSE
  Gateways = {g1, g2}
  MaxStored = 2
CHECK_DEADLOCK FALSE
INVARIANTS
  LeaseIsSomewhere
  CurrentStreamIsRegistered
  RoutedToItsSession
PROPERTIES
  LeaseRevalidated
