SPECIFICATION FairSpec
CONSTANTS
  a = a
  b = b
  c = c
  d = d
  None = None
  Message = {a}
  Sends = {a}
  Pushes = {}
  Reply <- NoReply
  Handled = {a}
  MetaLength = 2
  JsonLength <- Lengths
  BinaryLength <- Binaries
  BodyColons <- Colon
  MaxMeta = 2
  Capacity = 5
  ReadSizes = {3}
  ThreadLimit = 2
PROPERTIES
  LoopEnds
