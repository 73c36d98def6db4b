SPECIFICATION Spec
CONSTANTS
  client = client
  s1 = s1
  s2 = s2
  topic = topic
  small = small
  large = large
  None = None
  Node = {client, s1, s2}
  Topic = {topic}
  Payload = {small}
  Oversize = {}
  Routes <- TwoServers
  Subscriptions <- ServersSubscribe
  MaxId = 1
  MaxHandled = 1
  MaxExits = 1
  MaxStops = 0
  Duplicates = TRUE
SYMMETRY ServersAlike
INVARIANTS
  TypeOK
  Genuine
  SingleReceiver
  NoLostWakeup
  ResendWhileUnacked
PROPERTIES
  ImplementsAnycast
