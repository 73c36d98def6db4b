SPECIFICATION Spec
CONSTANTS
  a = a
  b = b
  c = c
  d = d
  None = None
  Message = {b}
  Sends = {b}
  Pushes = {}
  Reply <- NoReply
  Handled = {b}
  MetaLength = 2
  JsonLength <- Lengths
  BinaryLength <- Binaries
  BodyColons <- Colon
  MaxMeta = 2
  Capacity = 20
  ReadSizes = {4}
  ThreadLimit = 2
INVARIANTS
  FramesWhole
