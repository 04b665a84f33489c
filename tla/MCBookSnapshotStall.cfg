CONSTANTS
  symA = symA
  symB = symB
  r1 = r1
  x1 = x1
  Symbols <- MCOneSymbol
  Readers <- MCReaders
  Stalled <- MCStalled
  EveryMessages = 1
  TimedFrames = 0
  SocketFrames = 1
  MaxMessages = 2
SPECIFICATION Spec
CHECK_DEADLOCK FALSE
PROPERTY PublisherNeverStalls
