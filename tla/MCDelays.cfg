\* Four frames in a test during which the clock may wrap twice.
SPECIFICATION Spec
CONSTANTS
  Clock = 5
  Second = 3
  Octal <- MCOctal
  Gap = 2
  PadStart = 1
  PadEnd = 1
  MaxFrames = 4
  Span = 6
INVARIANTS TypeOK RightOrNegative NeverTooFast OccupancyTrue BusiestWindow RunTimeRight
CHECK_DEADLOCK FALSE
