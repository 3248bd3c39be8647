CONSTANTS
  Radix = 4
  Steps <- MCSteps
  LowTable = 8
  HighTable = 2
  Fine = 2
  WramPages = 2
  Dots = 5
  Lines = 3
  Values = {1, 3}
  Groups = {"vram", "oam", "cgram", "wram", "twice", "counters"}
  Modes <- MCModes
  MaxSets = 3
  MaxMoves = 4
\* MaxSets and MaxMoves end a behaviour, which is why TLC is told not to look for deadlocks.
SPECIFICATION Spec
INVARIANTS StreamsLand LoadsInOrder WrittenTwiceWhole CountersReadWhole
CHECK_DEADLOCK FALSE
