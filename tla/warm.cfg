SPECIFICATION SteadySpec
CONSTANTS
  NumNodes = 2
  MaxExec = 2
  NumPools = 1
  Image = {img}
  Artifact = {}
  Env = {1}
  RRModulus = 2
  None = None
  Req = {}
  UserPool <- NoPools
  EnvConfig <- WarmConfigs
  PoolConfig <- NoConfigs
  Capacity <- EqualCapacity
  img = img
  art = art
  img2 = img2
PROPERTIES
  WarmSettles
  QueueDrains
