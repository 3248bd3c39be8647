CONSTANTS
  Channels <- MCChannels
  LastVisible = 5
  RepeatBit = 4
  Memory <- MCMemory
  UnitSize <- MCUnitSize
  Tables <- MCTables
  Programmed <- MCProgrammed
  Params <- MCParams
  AddrBytes <- MCAddrBytes
  SizeBytes <- MCSizeBytes
  Banks <- MCBanks
  None = None
SPECIFICATION Spec
INVARIANTS RegistersInTable
PROPERTIES FollowsTable
CHECK_DEADLOCK TRUE
