SPECIFICATION LeasesSpec
CONSTANTS
  Vm = {v1, v2}
  LastSubnet = 2
  FirstPort = 1
  LastPort = 2
  MaxFreeRules = 1
  FixedPort = {2}
  Proto = {tcp, udp}
  PoolPorts <- Lists
  Others <- OtherPrograms
  None = None
  tcp = tcp
  udp = udp
INVARIANTS
  Exclusive
PROPERTIES
  MisroutesExplained
  LeaksExplained
