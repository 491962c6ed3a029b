SPECIFICATION GuestSpec
CONSTANTS
  Function = {f, g}
  Dir = {d, d2}
  Job <- Jobs
  None = None
  f = f
  g = g
  d = d
  d2 = d2
INVARIANTS
  RerunsBounded
PROPERTIES
  FalseBeliefsExplained
  GuestAnswers
