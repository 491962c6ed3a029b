SPECIFICATION EnrollSpec
CONSTANTS
  Machine = {host, other}
  Host = host
  host = host
  other = other
  NumTokens = 1
  NumIds = 2
  NumCreds = 3
  MaxFaults = 2
  None = None
INVARIANTS
  SingleUse
  OwnIdentity
  CredentialsLast
PROPERTIES
  ZombiesExplained
  JoinedComesUp
CHECK_DEADLOCK FALSE
