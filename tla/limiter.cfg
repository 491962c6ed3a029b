SPECIFICATION LiveSpec
CONSTANTS
  Task = {1, 2, 3, 4}
  Main = 1
  Requested = {0, 2, 3}
INVARIANTS
  NoLostWakeup
PROPERTIES
  StartsAreGranted
