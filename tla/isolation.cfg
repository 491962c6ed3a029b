SPECIFICATION ReplacedSpec
CONSTANTS
  NumNodes = 1
  MaxExec = 2
  NumPools = 3
  Image = {img}
  Artifact = {art}
  Env = {1, 2}
  RRModulus = 1
  None = None
  Req = {r1}
  UserPool <- NoPools
  EnvConfig <- PackageConfigs
  PoolConfig <- NoConfigs
  Capacity <- EqualCapacity
  img = img
  art = art
  img2 = img2
INVARIANTS
  IsolatedEnvironments
  ActivePoolExists
  ReportsAreExpected
PROPERTIES
  OrphansFromStaleUpdates
  LossesFromStaleChecks
CHECK_DEADLOCK FALSE
