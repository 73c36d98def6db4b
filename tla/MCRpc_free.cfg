SPECIFICATION Spec
CONSTANTS
  c = c
  d = d
  s = s
  None = None
  Proc = {s}
  Callers = {s}
  Route <- OwnRoute
  Topic = {"t"}
  Payload = {"json", "undefined"}
  Transported = {s}
  Reliable = FALSE
  Discipline = {}
  MaxCalls = 2
  MaxRuns = 1
  MaxPushes = 1
  MaxExits = 1
INVARIANTS
  TypeOK
  MapHoldsOpenCalls
PROPERTIES
  ImplementsRemoteCall
