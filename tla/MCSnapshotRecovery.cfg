CONSTANTS
  locA = locA
  locB = locB
  r1 = r1
  x1 = x1
  Locates    <- MCLocates
  Requesters <- MCRequesters
  Strangers  <- MCStrangers
  Backlog = 1
  MaxCalls <- MCMaxCalls
  MaxSeq = 1
  MaxStarts = 2
SPECIFICATION Spec
CHECK_DEADLOCK FALSE
INVARIANTS
  TypeOK
  NoConnectionLeaks
PROPERTIES
  AnswersAreCurrent
  CallsReturn
  StopReturns
