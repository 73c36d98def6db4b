SPECIFICATION FairSpec
CONSTANTS
  c = c
  d = d
  s = s
  None = None
  Proc = {c, d, s}
  Callers = {c}
  Route <- Clients
  Topic = {"t"}
  Payload = {"json"}
  Transported = {c, d, s}
  Reliable = TRUE
  Discipline = {"prepared", "awaits", "answers"}
  MaxCalls = 1
  MaxRuns = 1
  MaxPushes = 1
  MaxExits = 0
PROPERTIES
  CallReturns
