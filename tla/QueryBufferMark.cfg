CONSTANTS
  HeadSize = 3
  BodyLengths <- MCBodyLengths
  ShortMark = 11
  MaxSent = 20
  MaxRuns = 2
SPECIFICATION Spec
INVARIANTS OneRequestPerConnection
CHECK_DEADLOCK FALSE
