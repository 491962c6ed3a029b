SPECIFICATION DistSpec
CONSTANTS
  Env = {e1, e2}
  e1 = e1
  e2 = e2
  Req = {r1, r2}
  r1 = r1
  r2 = r2
  Target <- Targets
  MaxBuilds = 2
  MaxRecords = 3
  None = None
INVARIANTS
  StaleSnapshotsExplained
  StartsKeepTheirFiles
PROPERTIES
  BrokenExplained
  ExitsExplained
  ReportsAreTrue
  GetsReady
