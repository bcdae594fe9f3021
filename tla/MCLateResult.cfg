SPECIFICATION PartSpec
CONSTANTS
  TheHost = h1
  TheCommand = c1
  FirstAttempt = a1
  Hosts <- MCHosts
  HostOf <- MCHostOf
  SessionAttempts = {a1, a2}
  NoAttempt = NoAttempt
  BindingStates = {"ACTIVE"}
  PreflightStates = {"PASSED"}
  ComplianceStates = {"COMPLIANT"}
  GateGenerations = {1}
  MaxBinding = 1
  MaxSession = 2
  MaxInventory = 1
  Parts = {"retry"}
  Decisions = {"APPROVED"}
  MaxDecision = 1
  MaxArmed = 2
  Commands = {c1}
  ReadOnlyCommands = {c1}
  ReportedOutcomes = {"SUCCEEDED", "FAILED", "UNKNOWN"}
  Observations = {"MATCHED", "NOT_APPLIED", "CONFLICTING"}
  MaxAttempts = 2
INVARIANTS
  LostAttemptIsAnswerable
