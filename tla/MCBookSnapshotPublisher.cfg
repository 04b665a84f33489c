CONSTANTS
  symA = symA
  symB = symB
  r1 = r1
  x1 = x1
  Symbols <- MCSymbols
  Readers <- MCReaders
  Stalled <- MCStalled
  EveryMessages = 1
  TimedFrames = 1
  SocketFrames = 1
  MaxMessages = 2
SPECIFICATION Spec
CHECK_DEADLOCK FALSE
INVARIANTS
  TypeOK
  FramesAreConsistent
PROPERTIES
  NoFrameSkipped
  FeedNeverStalls
  EveryMessageArrives
  StopReturns
