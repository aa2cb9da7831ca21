SPECIFICATION Spec
CONSTANTS
  CoastTicks = 2
  ForceTicks = 4
  SpeedWaitTicks = 6
  Operations <- MCEstopOps
  FaultClasses <- MCNoFaults
INVARIANTS
  EnableWaitsDark
