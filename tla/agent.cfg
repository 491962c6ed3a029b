SPECIFICATION RunningSpec
CONSTANTS
  NumNodes = 1
  MaxExec = 2
  MaxStrays = 2
  NumPools = 2
  Image = {img}
  Artifact = {art}
  Env = {1}
  RRModulus = 1
  None = None
  Req = {}
  UserPool <- NoPools
  EnvConfig <- AgentConfigs
  PoolConfig <- NoConfigs
  Capacity <- EqualCapacity
  img = img
  art = art
  img2 = img2
PROPERTIES
  DriftExplained
  AgentComesBack
  RetiredVmsGo
