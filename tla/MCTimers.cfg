CONSTANTS
  TimerIds = {0}
  BaseDiv <- MCBaseDiv
  ByteSize = 8
  Counts = 4
  Cycles = {2, 3, 5}
  Divs = {0, 1, 2, 3}
SPECIFICATION TimersSpec
INVARIANTS CountsTime
CHECK_DEADLOCK TRUE
