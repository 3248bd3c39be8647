CONSTANTS
  Sprite = 3
  RangeMax = 2
  TimeMax = 3
  TileSize = 2
  Width = 3
  Sizes <- MCSizes
  Dots = 4
  Lines = 5
  Height = 3
  Setups <- MCSetups
  MaxChanges = 3
SPECIFICATION RenderSpec
INVARIANTS BackgroundOfThisLine SpritesInPriority
PROPERTIES LineIsRenderedOnce FrontmostShown
CHECK_DEADLOCK TRUE
