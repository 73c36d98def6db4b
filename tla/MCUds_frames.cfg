SPECIFICATION FairSpec
CONSTANTS
  a = a
  b = b
  c = c
  d = d
  None = None
  Message = {a, b, c, d}
  Sends = {a, c}
  Pushes = {a, b}
  Reply <- Echo
  Handled = {a, d}
  MetaLength = 2
  JsonLength <- Lengths
  BinaryLength <- Binaries
  BodyColons <- Colon
  MaxMeta = 2
  Capacity = 11
  ReadSizes = {4, 20}
  ThreadLimit = 2
INVARIANTS
  TypeOK
  StreamIntact
  NoStrandedFrame
  RefusesOnlyBinary
PROPERTIES
  LoopsOnlyOnPart
  EveryFrameDispatched
  EveryPushServed
  ImplementsChannels
