CONSTANTS
  ByteSize = 8
  HighBytes <- MCHighBytes
  Stacks <- MCStacks
  Targets <- MCTargets
  Banks <- MCBanks
  FlagSets <- MCFlagSets
  Handlers <- MCHandlers
  MaxFrames = 2
SPECIFICATION Spec
INVARIANTS StackInPage
PROPERTIES ReturnsRestore NarrowIndexKept
CHECK_DEADLOCK TRUE
