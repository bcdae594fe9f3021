SPECIFICATION WorkloadSpec
CONSTANTS
  Parts = {"create", "lifecycle", "evacuate", "attached", "slots", "suspect", "recover", "rebuild", "budget"}
  VMs = {v1, v2, v3}
  VMHosts = {h1, h2}
  PortsOf <- MCPortsOf
  Attempts = {1, 2}
  Movable = {v1, v2}
  MaxConcurrent = 1
  VolumesOf <- MCVolumesOf
  ReadsDetached = TRUE
  Epochs = {e1, e2}
  Kinds = {"EXECUTION"}
  WithData = {v2}
  MaxActive = 1
  v1 = v1
  v2 = v2
  v3 = v3
  p1 = p1
  p2 = p2
  h1 = h1
  h2 = h2
  e1 = e1
  e2 = e2
  MaxCreateWrites = 8
  MaxLifecycleWrites = 11
  MaxEvacuationWrites = 8
  MaxAttachedWrites = 9
  MaxSuspectWrites = 9
  MaxRecoverWrites = 14
  MaxRebuildWrites = 14
  MaxOutstanding = 1
CHECK_DEADLOCK FALSE
INVARIANTS
  WorkloadsTypeOK
  SlotsBounded
  DeletedIsGone
  BudgetBounded
PROPERTIES
  VerifiedChildStays
  MovesWithItsClaim
  ConvergedAsObserved
  ConfirmedOnAllEvidence
  RecoversFromFencedSource
