----------------------------- MODULE MCFocBridge -----------------------------
(* Constants of the bridge's runs.                                         *)
EXTENDS FocBridge

MCAllOps == {"off", "disable", "calib", "vtest", "power", "actions", "motion", "fault",
             "estop", "overrun", "overcurrent", "wdog"}
MCEstopOps == {"estop", "power"}
MCNoFaults == {}
MCBoth == {"STOP", "TRIP"}
=============================================================================
