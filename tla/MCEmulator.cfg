CONSTANTS
  Fields = 3
  BufSize = 2
  MaxFrames = 2
  MaxQueue = 3
SPECIFICATION Spec
INVARIANTS NeverTorn FileOfOneState ActionsInOrder
PROPERTIES ExitEnds
CHECK_DEADLOCK TRUE
