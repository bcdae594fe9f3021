SPECIFICATION FairSessionSpec
CONSTANTS
  Connections = {c1, c2}
  MaxGeneration = 2
CHECK_DEADLOCK FALSE
PROPERTIES
  AgentReconnects
