SPECIFICATION Spec
CONSTANTS
  client = client
  s1 = s1
  s2 = s2
  topic = topic
  small = small
  large = large
  None = None
  Node = {client, s1}
  Topic = {topic}
  Payload = {small, large}
  Oversize = {large}
  Routes <- OneServer
  Subscriptions <- OneSubscribes
  MaxId = 2
  MaxHandled = 1
  MaxExits = 0
  MaxStops = 0
  Duplicates = FALSE
INVARIANTS
  ReceivedInOrder
  OversizeUnheard
