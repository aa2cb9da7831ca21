SPECIFICATION Spec
CONSTANTS
  CoastTicks = 1
  ForceTicks = 2
  SpeedWaitTicks = 3
  Operations <- MCAllOps
  FaultClasses <- MCBoth
INVARIANTS
  TypeOK
  StopOwnsState
  EmergencyHolds
  FaultBridgeDown
  DisabledPathSafe
PROPERTIES
  StopRequestServed
  StopEnds
  FaultShutsBridge
  EmergencyReported
