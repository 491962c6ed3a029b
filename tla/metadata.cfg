SPECIFICATION StoreSpec
CONSTANTS
  NumNodes = 1
  MaxExec = 1
  NumPools = 3
  Image = {img}
  Artifact = {art}
  Env = {1}
  RRModulus = 1
  None = None
  Req = {r1}
  UserPool <- FirstPool
  EnvConfig <- AdminConfigs
  PoolConfig <- UserConfigs
  Capacity <- EqualCapacity
  Slot = {s1}
  Limits <- TightLimit
  MaxRestarts = 1
  img = img
  art = art
INVARIANTS
  MetadataIsCurrent
