CONSTANTS
  LastChannel = 1
  WordSize = 8
  UnitCycles = 8
  Settings <- MCSettings
  None = None
SPECIFICATION FairSpec
INVARIANTS ChannelsInTurn Complete
PROPERTIES BytesInPlace TransferEnds
CHECK_DEADLOCK TRUE
