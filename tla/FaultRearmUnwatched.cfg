SPECIFICATION Spec
CONSTANTS
  PhaseCount = 1
  SettleTicks = 0
  SlowDebounce = 2
  OvMs = 2
  UvMs = 2
  StallMs = 1
  RearmTicks = 1
  RearmMax = 1
  BusLevels <- MCNormalBus
  SlowPhases <- MCNone
  FastPhases <- MCPhase1
  FrameFlags <- MCAlwaysFresh
  EncFlags <- MCNoBurst
  IsrTrips <- MCNone
  Injectable <- MCNone
  PolicyEdits <- MCNone
  Commands <- MCNone
INVARIANTS
  NoPhaseUnwatched
