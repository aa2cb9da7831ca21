SPECIFICATION Spec
CONSTANTS
  PhaseCount = 1
  SettleTicks = 1
  SlowDebounce = 2
  OvMs = 2
  UvMs = 2
  StallMs = 1
  RearmTicks = 1
  RearmMax = 1
  BusLevels <- MCOverBus
  SlowPhases <- MCNone
  FastPhases <- MCNone
  FrameFlags <- MCAlwaysFresh
  EncFlags <- MCNoBurst
  IsrTrips <- MCOcTrip
  Injectable <- MCNone
  PolicyEdits <- MCNone
  Commands <- MCNone
PROPERTIES
  LatchHeldUntilCleared
