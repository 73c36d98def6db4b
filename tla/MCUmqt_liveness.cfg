SPECIFICATION FairSpec
CONSTANTS
  client = client
  s1 = s1
  s2 = s2
  topic = topic
  small = small
  large = large
  None = None
  Node = {client, s1}
  Topic = {topic}
  Payload = {small}
  Oversize = {}
  Routes <- OneServer
  Subscriptions <- OneSubscribes
  MaxId = 1
  MaxHandled = 2
  MaxExits = 1
  MaxStops = 1
  Duplicates = FALSE
INVARIANTS
  UnreliableAtMostOnce
  ResendCanEnd
  MapsDrained
PROPERTIES
  SendReturns
  AckedIsHandled
  ResendEnds
