SPECIFICATION FairSpec
CONSTANTS
  c = c
  d = d
  s = s
  None = None
  Proc = {c, s}
  Callers = {c}
  Route <- Pair
  Topic = {"t"}
  Payload = {"json"}
  Transported = {c, s}
  Reliable = TRUE
  Discipline = {"prepared", "awaits", "answers"}
  MaxCalls = 1
  MaxRuns = 2
  MaxPushes = 2
  MaxExits = 0
INVARIANTS
  OnePhaseAnswers
  NoStrandedCall
PROPERTIES
  CallReturns
  ImplementsRemoteCall
