CONSTANTS
  HeadSize = 3
  BodyLengths <- MCBodyLengths
  ShortMark = 11
  MaxSent = 14
  MaxRuns = 2
SPECIFICATION FairSpec
INVARIANTS RunWhenComplete
PROPERTIES CompleteIsRun
CHECK_DEADLOCK FALSE
