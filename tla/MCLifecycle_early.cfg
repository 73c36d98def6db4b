SPECIFICATION Spec
CONSTANTS
  Other = Other
  MaxIds = 2
  MaxStarts = 2
  MaxStops = 1
  MaxForeign = 1
CHECK_DEADLOCK FALSE
INVARIANTS
  StartedIsReady
