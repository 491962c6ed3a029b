SPECIFICATION CrashSpec
CONSTANTS
  NumNodes = 1
  MaxExec = 1
  NumPools = 1
  Image = {img}
  Artifact = {}
  Env = {1}
  RRModulus = 1
  None = None
  Req = {}
  UserPool <- NoPools
  EnvConfig <- ServeConfigs
  PoolConfig <- NoConfigs
  Capacity <- EqualCapacity
  img = img
  art = art
  img2 = img2
PROPERTIES
  StartedFinishes
