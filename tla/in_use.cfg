SPECIFICATION InUseSpec
CONSTANTS
  NumNodes = 2
  MaxExec = 2
  NumPools = 2
  Image = {img, img2}
  Artifact = {}
  Env = {1}
  RRModulus = 2
  None = None
  Req = {r1}
  UserPool <- NoPools
  EnvConfig <- ServeConfigs
  PoolConfig <- NoConfigs
  Capacity <- EqualCapacity
  img = img
  art = art
  img2 = img2
INVARIANTS
  TypeOK
  QueuedIsBlocked
  UsedIsReserved
PROPERTIES
  ScaleOutLimit
  NoOvertaking
