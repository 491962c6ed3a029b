SPECIFICATION RacingSpec
CONSTANTS
  NumNodes = 1
  MaxExec = 2
  NumPools = 2
  Image = {img}
  Artifact = {}
  Env = {1}
  RRModulus = 1
  None = None
  Req = {}
  UserPool <- NoPools
  EnvConfig <- StoreConfigs
  PoolConfig <- NoConfigs
  Capacity <- EqualCapacity
  Slot = {s1, s2}
  Limits <- StoreLimits
  MaxRestarts = 1
  img = img
  art = art
SYMMETRY Slots
INVARIANTS
  SizesExact
PROPERTIES
  ResultsWithinLimit
  RevivedByStaleSave
  StrandedByUnsavedMove
  ImplementsLife
