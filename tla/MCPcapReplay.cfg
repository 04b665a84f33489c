CONSTANTS
  ByteBase = 12
  QtyMod = 20736
  SyntheticBase = 1000000
  Depth = 2
  Sent <- MCSent
  Options <- MCOptions
  TimeSteps <- MCTimeSteps
  MaxRecords = 4
  MaxOddities = 1
  Second = 4
  TimeMod = 1000
SPECIFICATION Spec
CHECK_DEADLOCK FALSE
INVARIANTS
  TypeOK
  FramesRoundTrip
  WhatIsAppliedWasSent
  OffsetSkipsWindow
  PacingFollowsCapture
  GapRangesAreExact
  StallPassesOverNothing
