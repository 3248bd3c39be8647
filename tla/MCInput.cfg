CONSTANTS
  Ports <- MCPorts
  Attached <- MCAttached
  Words = {idle, pressed}
  NoButtons = idle
  Bits = 2
  None = None
  Hole = Hole
SPECIFICATION FairSpec
INVARIANTS ReadsAreRecorded RecordedUnlessHeld ReplayIgnoresUser
PROPERTIES AutoReadIsFresh RecordingGoesOn
CHECK_DEADLOCK TRUE
