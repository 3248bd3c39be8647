CONSTANTS
  LastDot = 4
  LastLine = 2
  LastVisible = 1
  HdmaInitDot = 1
  AutoReadDot = 1
  RefreshDot = 2
  RenderDot = 3
  HdmaDot = 4
  DotCycles = 2
  ApuDivider = 2
  MinCycles = 1
  RefreshCycles = 1
  HdmaCycles = 1
  InterruptCycles = 0
  RegisterCost = 3
  CpuCosts <- MCCpuCosts
  ApuCosts <- MCApuCosts
  Nmitimens <- MCNmitimens
  VTimes <- MCVTimes
  HTimes <- MCHTimes
  ResetTime = 9
  DebtMax = 36
SPECIFICATION RunSpec
INVARIANTS EventsMatchPosition NmiFlagInVBlank NmiHandlerAtVBlank InStep
PROPERTIES FrameCompletes NmiEndsWait
CHECK_DEADLOCK FALSE
