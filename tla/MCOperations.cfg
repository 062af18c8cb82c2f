CONSTANTS
  Required = 2
  SplitNodes = 2
  MaxSignals = 2
  Robots <- MCRobots
  Versions = {"v1", "v2", "v3"}
  Nodes <- MCNodes
  NodesOf <- MCNodesOf
  Keep = 1
  Histories <- MCHistories
  Modes <- MCModes
  MaxOps = 2
  Declared <- MCDeclared
  MaxTimeouts = 1
  MaxFailures = 1
  MaxOthers = 1
  MaxMethods = 2
SPECIFICATION OperationsSpec
INVARIANTS
  
  
  BadReleaseContained
  ClaimsAreTrue
PROPERTIES
  
  RetryBringsUp
CHECK_DEADLOCK FALSE
