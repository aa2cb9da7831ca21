SPECIFICATION Spec
CONSTANTS
  PhaseCount = 2
  SettleTicks = 1
  SlowDebounce = 2
  OvMs = 2
  UvMs = 2
  StallMs = 1
  RearmTicks = 1
  RearmMax = 1
  BusLevels <- MCNormalBus
  SlowPhases <- MCNone
  FastPhases <- MCPhases12
  FrameFlags <- MCAlwaysFresh
  EncFlags <- MCNoBurst
  IsrTrips <- MCNone
  Injectable <- MCNone
  PolicyEdits <- MCNone
  Commands <- MCClearComm
INVARIANTS
  WdogBudget
PROPERTIES
  WdogHitServiced
