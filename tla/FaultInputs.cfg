SPECIFICATION Spec
CONSTRAINT OneKindOfInput
CONSTANTS
  PhaseCount = 1
  SettleTicks = 1
  SlowDebounce = 2
  OvMs = 1
  UvMs = 1
  StallMs = 1
  RearmTicks = 1
  RearmMax = 1
  BusLevels <- MCAllBus
  SlowPhases <- MCPhase1
  FastPhases <- MCNone
  FrameFlags <- MCMayStall
  EncFlags <- MCBurst
  IsrTrips <- MCOcTrip
  Injectable <- MCInjectOv
  PolicyEdits <- MCEditOv
  Commands <- MCClearActions
INVARIANTS
  TypeOK
  ActiveTracksCondition
  TripGatesAtRest
  StopRequestBacked
PROPERTIES
  TaskLatchHeld
  TripLatchReachesGate
  FaultEntryJustified
  StopRequestTaken
