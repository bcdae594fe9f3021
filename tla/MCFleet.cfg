SPECIFICATION FleetSpec
SYMMETRY FleetSymmetry
CONSTANTS
  Hosts = {h1}
  SessionAttempts = {a1, a2}
  NoAttempt = NoAttempt
  Decisions = {"APPROVED", "QUARANTINED", "DECOMMISSIONED"}
  BindingStates = {"ACTIVE", "REVOKED"}
  PreflightStates = {"PASSED", "UNKNOWN"}
  ComplianceStates = {"COMPLIANT"}
  GateGenerations = {1}
  MaxDecision = 2
  MaxBinding = 2
  MaxSession = 2
  MaxInventory = 2
  MaxArmed = 2
  Connections = {c1, c2, c3}
  MaxGeneration = 3
  Groups = {g1, g2}
  GroupHosts = {h1}
  Levels = {0, 1}
  Assertions = {s1}
  MaxGroupWrites = 7
  Plans = {m1, m2}
  FleetHosts = {h1, h2}
  WaveMaximum = 1
  UpgradeTargets = {x1, x2}
  LastWave = 2
  WaveOf <- MCWaveOf
  HostOf <- MCHostOf
  NoHost = NoHost
  Threshold = 0
  MaxMaintenanceWrites = 7
  MaxUpgradeWrites = 5
  MaxNewWrites = 3
  m1 = m1
  m2 = m2
  h1 = h1
  h2 = h2
  x1 = x1
  x2 = x2
CHECK_DEADLOCK FALSE
INVARIANTS
  FleetTypeOK
  AuthorizedBasisCurrent
  ArmedBasisCurrent
  ReplayedGrantIsCurrent
  LedgerTracksRegistry
  CardinalityHolds
  DisruptionExclusive
  PassedWavesHold
PROPERTIES
  AuthorityNeverReturns
  PublishedFromCurrentEvidence
  PausedUntilResumed
