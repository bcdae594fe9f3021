SPECIFICATION ResourceSpec
SYMMETRY ResourceSymmetry
CONSTANTS
  Parts = {"pool", "scope", "publish", "release", "port", "network", "realized"}
  Pools = {pool1}
  PlacementHosts = {h1}
  Requests = {req1, req2}
  Shapes <- MCShapes
  Capacities <- MCCapacities
  BackendBytes = {2}
  VolumeBytes <- MCVolumeBytes
  Policies = {q1}
  Bindings = {b1}
  Rebinds = {x1, x2}
  Releases = {rel1, rel2}
  Schemas = {sch1, sch2}
  Workers = {w1, w2}
  NoRelease = NoRelease
  NoSchema = NoSchema
  Supports <- MCSupports
  OVNPorts = {p1}
  Chassis = {h1, h2}
  NoChassis = NoChassis
  RunsOn <- MCRunsOn
  Networks = {n1}
  Subnets = {s1}
  LogicalPorts = {p1, p2}
  NetworkWorkers = {k1, k2}
  Segments = {g1}
  Addresses = {a1}
  MACs = {mac1}
  None = None
  NetworkOf <- MCNetworkOf
  SubnetOf <- MCSubnetOf
  req1 = req1
  req2 = req2
  vol1 = vol1
  vol2 = vol2
  rel1 = rel1
  rel2 = rel2
  sch1 = sch1
  sch2 = sch2
  q1 = q1
  h1 = h1
  h2 = h2
  n1 = n1
  s1 = s1
  p1 = p1
  p2 = p2
  MaxPoolWrites = 8
  MaxScopeWrites = 11
  MaxPublishWrites = 5
  MaxReleaseWrites = 10
  MaxPortWrites = 11
  MaxNetworkWrites = 4
  MaxRealizedWrites = 7
CHECK_DEADLOCK FALSE
INVARIANTS
  ResourcesTypeOK
  RebindsAreSerial
  BoundWorkersUnderstandSchema
  ParentsOutliveChildren
PROPERTIES
  AdmittedWithinCapacity
  PolicyShownIsBound
  RetiredHistoryIsFixed
  EndsOnItsOwnPlan
