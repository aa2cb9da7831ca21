--------------------------- MODULE MCFaultManager ---------------------------
(* Constants of the fault manager's runs.                                  *)
EXTENDS FaultManager

MCAllBus == {"normal", "under", "over", "trip"}
MCNormalBus == {"normal"}
MCOverBus == {"normal", "over"}
MCNone == {}
MCPhase1 == {1}
MCPhases12 == {1, 2}
MCAlwaysFresh == {TRUE}
MCMayStall == {TRUE, FALSE}
MCNoBurst == {FALSE}
MCBurst == {TRUE, FALSE}
MCOcTrip == {"OC_TRIP"}
MCInjectOv == {VbusOv}
MCEditOv == {<<VbusOv, STOP>>}
MCClear == {"clear"}
MCClearComm == {"clear", "comm"}
MCClearActions == {"clear", "actions"}
=============================================================================
