--------------------------- MODULE FocBridgeProofs ---------------------------
(***************************************************************************)
(* Theorems about the bridge, for every stop timing, every environment and *)
(* every class of fault.                                                   *)
(***************************************************************************)
EXTENDS FocBridge, TLAPS

(* Outputs that cannot switch whatever the gate supply does.               *)
OutputsHeld == forced_low \/ ~pwm_running

(***************************************************************************)
(* What is inductive.  The gate supply may come on and go off (`driver      *)
(* power on'), so every bridge property is strengthened to the outputs.    *)
(***************************************************************************)
EnableFromOff == pc \in EnableLabels => s_state = "OFF"
EmergencyInv == s_emergency_active /\ pc \notin EnableLabels => OutputsHeld
FaultInv == s_state = "FAULT" => OutputsHeld
EnabledInv ==
    ~s_enabled /\ pc \notin EnableLabels \ {"enReset", "enPublish"} => OutputsHeld
FullInv == pc \in {"fullGate", "offGate"} => OutputsHeld
DisabledInv == s_isr_disabled => s_emergency_active
BridgeInv ==
    EnableFromOff /\ EmergencyInv /\ FaultInv /\ EnabledInv /\ FullInv /\ DisabledInv

(* A stop is over when disable publishes OFF, and a stop that has not been  *)
(* decided is short of the longest wait.                                   *)
StopInv ==
    /\ StopOwnsState
    /\ pc = "disCritical" => ~s_stop_pending
    /\ s_stop_pending /\ pc # "disable" => s_stop_ticks < SpeedWaitTicks

(* How the end of the interrupt leaves the bridge and its latch.           *)
BridgeKept == UNCHANGED <<s_emergency_active, bridgeVars>>
EmergencyKept == s_emergency_active /\ s_emergency_active' /\ UNCHANGED bridgeVars
EmergencyTaken == s_emergency_active' /\ OutputsHeld'

(* An interrupt that ends with an emergency holds the outputs unless an     *)
(* emergency already did, and one that does not leaves the bridge alone.   *)
LEMMA IsrEndEffect ==
    ASSUME NEW emergency, NEW inhibit, NEW over, IsrEnd(emergency, inhibit, over)
    PROVE  /\ s_isr_disabled' => s_emergency_active'
           /\ BridgeKept \/ EmergencyKept \/ EmergencyTaken
BY DEF IsrEnd, IsrEmergency, EmergencyStop, OutputsHeld, bridgeVars,
   BridgeKept, EmergencyKept, EmergencyTaken

LEMMA BridgeIsr == BridgeInv /\ Isr => BridgeInv'
<1> SUFFICES ASSUME BridgeInv, Isr PROVE BridgeInv'
    OBVIOUS
<1>1. \E emergency, inhibit, over : IsrEnd(emergency, inhibit, over)
    BY DEF Isr, IsrGated, IsrIdle, IsrLoop
<1>2. UNCHANGED <<s_state, taskVars>>
    BY DEF Isr, IsrGated, IsrIdle, IsrLoop
<1>3. /\ s_isr_disabled' => s_emergency_active'
      /\ BridgeKept \/ EmergencyKept \/ EmergencyTaken
    BY <1>1, IsrEndEffect
<1> QED
    BY <1>2, <1>3 DEF BridgeInv, EnableFromOff, EmergencyInv, FaultInv, EnabledInv, FullInv,
       DisabledInv, OutputsHeld, bridgeVars, taskVars, BridgeKept, EmergencyKept, EmergencyTaken

LEMMA BridgeDisable == TypeOK /\ BridgeInv /\ Disable => BridgeInv'
<1> SUFFICES ASSUME TypeOK, BridgeInv, Disable PROVE BridgeInv'
    OBVIOUS
<1> USE DEF BridgeInv, EnableFromOff, EmergencyInv, FaultInv, EnabledInv, FullInv, DisabledInv,
            OutputsHeld, EnableLabels, Goto, isrVars, bridgeVars
<1>1. CASE DisableBegin
    BY <1>1 DEF DisableBegin
<1>2. CASE DisableCritical
    BY <1>2 DEF DisableCritical
<1>3. CASE SoftGateOff \/ SoftStopOutputs
    BY <1>3 DEF SoftGateOff, SoftStopOutputs
<1>4. CASE \/ FullStopOutputs("fullStop", "fullGate")
           \/ FullGateOff("fullGate", "disReset")
    BY <1>4 DEF FullStopOutputs, FullGateOff
<1>5. CASE DisableReset
    BY <1>5 DEF DisableReset, TypeOK, TypeState
<1> QED
    BY <1>1, <1>2, <1>3, <1>4, <1>5 DEF Disable

LEMMA BridgeEnable == BridgeInv /\ Enable => BridgeInv'
<1> SUFFICES ASSUME BridgeInv, Enable PROVE BridgeInv'
    OBVIOUS
<1> USE DEF BridgeInv, EnableFromOff, EmergencyInv, FaultInv, EnabledInv, FullInv, DisabledInv,
            OutputsHeld, EnableLabels, Goto, isrVars, bridgeVars
<1>1. CASE EnableBegin
    BY <1>1 DEF EnableBegin, EnableAllowed
<1>2. CASE EnableRelease
    BY <1>2 DEF EnableRelease
<1>3. CASE EnableGate
    BY <1>3 DEF EnableGate, GatePowerRequest
<1>4. CASE GatePowerSettled("enWait", "enStart")
    BY <1>4 DEF GatePowerSettled
<1>5. CASE EnableStart
    BY <1>5 DEF EnableStart
<1>6. CASE EnableReset
    BY <1>6 DEF EnableReset
<1>7. CASE EnablePublish
    BY <1>7 DEF EnablePublish
<1> QED
    BY <1>1, <1>2, <1>3, <1>4, <1>5, <1>6, <1>7 DEF Enable

(* A controlled stop, however it is asked for, leaves the bridge alone and  *)
(* goes on to where it was told to, or to disable.                         *)
LEMMA StopGoesOn ==
    ASSUME NEW next, NEW other, StopStep(next) \/ RequestStop(next, other)
    PROVE  pc' \in {next, other, "disable"}
BY DEF StopStep, RequestStop

LEMMA BridgeRun == BridgeInv /\ Run => BridgeInv'
<1> SUFFICES ASSUME BridgeInv, Run PROVE BridgeInv'
    OBVIOUS
<1> USE DEF BridgeInv, EnableFromOff, EmergencyInv, FaultInv, EnabledInv, FullInv, DisabledInv,
            OutputsHeld, EnableLabels, Goto, isrVars, bridgeVars
<1>1. CASE FaultTick
    BY <1>1 DEF FaultTick
<1>2. CASE RunStop
    <2>1. pc' \in {"body", "disable"}
        BY <1>2, StopGoesOn DEF RunStop
    <2> QED
        BY <1>2, <2>1 DEF RunStop
<1>3. CASE RunBody
    BY <1>3 DEF RunBody, EmergencyStop
<1>4. CASE RunPromote
    BY <1>4 DEF RunPromote, Normal
<1>5. CASE TakeStopRequest
    <2>1. pc' \in {"cmd", "disable"}
        BY <1>5, StopGoesOn DEF TakeStopRequest
    <2> QED
        BY <1>5, <2>1 DEF TakeStopRequest
<1> QED
    BY <1>1, <1>2, <1>3, <1>4, <1>5 DEF Run

LEMMA BridgeWait ==
    /\ BridgeInv
    /\ \/ WaitStep \/ WaitPump
       \/ FullStopOutputs("offStop", "offGate") \/ FullGateOff("offGate", "cmd")
       \/ GatePowerSettled("powerWait", "cmd") \/ NextPeriod
    => BridgeInv'
<1> SUFFICES ASSUME BridgeInv,
                    \/ WaitStep \/ WaitPump
                    \/ FullStopOutputs("offStop", "offGate") \/ FullGateOff("offGate", "cmd")
                    \/ GatePowerSettled("powerWait", "cmd") \/ NextPeriod
             PROVE  BridgeInv'
    OBVIOUS
<1> USE DEF BridgeInv, EnableFromOff, EmergencyInv, FaultInv, EnabledInv, FullInv, DisabledInv,
            OutputsHeld, EnableLabels, Goto, isrVars, bridgeVars
<1>1. CASE WaitStep
    <2>1. pc' \in {"waitPump", "disable", "offStop"}
        BY <1>1, StopGoesOn DEF WaitStep
    <2> QED
        BY <1>1, <2>1 DEF WaitStep
<1>2. CASE WaitPump
    BY <1>2 DEF WaitPump
<1>3. CASE FullStopOutputs("offStop", "offGate") \/ FullGateOff("offGate", "cmd")
    BY <1>3 DEF FullStopOutputs, FullGateOff
<1>4. CASE GatePowerSettled("powerWait", "cmd") \/ NextPeriod
    BY <1>4 DEF GatePowerSettled, NextPeriod
<1> QED
    BY <1>1, <1>2, <1>3, <1>4

LEMMA BridgeCommand == BridgeInv /\ Command => BridgeInv'
<1> SUFFICES ASSUME BridgeInv, Command PROVE BridgeInv'
    OBVIOUS
<1> USE DEF BridgeInv, EnableFromOff, EmergencyInv, FaultInv, EnabledInv, FullInv, DisabledInv,
            OutputsHeld, EnableLabels, Goto, isrVars, bridgeVars
<1>1. CASE StopCommand \/ OffCommand
    <2>1. pc' \in {"cmd", "wait", "disable"}
        BY <1>1, StopGoesOn DEF StopCommand, OffCommand
    <2> QED
        BY <1>1, <2>1 DEF StopCommand, OffCommand
<1>2. CASE DisableCommand
    BY <1>2 DEF DisableCommand
<1>3. CASE CalibBegin \/ CalibEnd
    BY <1>3 DEF CalibBegin, CalibEnd
<1>4. CASE VtestStart \/ VtestStop
    BY <1>4 DEF VtestStart, VtestStop
<1>5. CASE PowerOn \/ PowerOff
    BY <1>5 DEF PowerOn, PowerOff, GatePowerRequest
<1>6. CASE FaultClearCommand \/ ActionsCommand
    BY <1>6 DEF FaultClearCommand, ActionsCommand
<1> QED
    BY <1>1, <1>2, <1>3, <1>4, <1>5, <1>6 DEF Command

LEMMA BridgeStep == TypeOK /\ BridgeInv /\ [Next]_vars => BridgeInv'
<1> SUFFICES ASSUME TypeOK, BridgeInv, [Next]_vars PROVE BridgeInv'
    OBVIOUS
<1>1. CASE MotionSubmit \/ WdogTrip \/ DebuggerEstop \/ UNCHANGED vars
    BY <1>1 DEF MotionSubmit, WdogTrip, DebuggerEstop, vars, BridgeInv, EnableFromOff,
       EmergencyInv, FaultInv, EnabledInv, FullInv, DisabledInv, OutputsHeld, isrVars,
       bridgeVars, taskVars
<1> QED
    BY <1>1, BridgeIsr, BridgeDisable, BridgeEnable, BridgeRun, BridgeWait, BridgeCommand
       DEF Next, Continue, Enable

(***************************************************************************)
(* Types, and who owns a stop.                                             *)
(***************************************************************************)
LEMMA BridgeInit == Init => BridgeInv
BY DEF Init, BridgeInv, EnableFromOff, EmergencyInv, FaultInv, EnabledInv, FullInv, DisabledInv,
   OutputsHeld, EnableLabels

LEMMA TypeInit == Init => TypeOK
<1> SUFFICES ASSUME Init PROVE TypeOK
    OBVIOUS
<1>1. TypeState
    <2>1. s_stop_ticks \in 0..SpeedWaitTicks
        BY StopAssumption DEF Init
    <2>2. pc \in Labels /\ ret \in {"cmd", "body", "wait", "waitPump"} /\ s_state \in States
        BY DEF Init, Labels, States
    <2> QED
        BY <2>1, <2>2 DEF Init, TypeState
<1>2. TypeFlags /\ TypeBridge /\ TypeFault
    BY DEF Init, TypeFlags, TypeBridge, TypeFault
<1> QED
    BY <1>1, <1>2 DEF TypeOK

(* The latches and flags of the interrupt.                                 *)
LEMMA TypeFlagsIsrEnd ==
    ASSUME TypeOK, NEW emergency, NEW inhibit \in BOOLEAN, NEW over,
           IsrEnd(emergency, inhibit, over)
    PROVE  /\ s_isr_inhibited' \in BOOLEAN /\ s_emergency_active' \in BOOLEAN
           /\ s_isr_disabled' \in BOOLEAN /\ g_foc_fault_request' \in BOOLEAN
           /\ estop_request' \in BOOLEAN
           /\ TypeBridge'
BY DEF IsrEnd, IsrEmergency, EmergencyStop, Overrun, TypeOK, TypeFlags, TypeBridge, bridgeVars

LEMMA TypeIsr == TypeOK /\ Isr => TypeFlags' /\ TypeBridge'
<1> SUFFICES ASSUME TypeOK, Isr PROVE TypeFlags' /\ TypeBridge'
    OBVIOUS
<1>1. \E emergency : \E inhibit \in BOOLEAN : \E over : IsrEnd(emergency, inhibit, over)
    BY DEF Isr, IsrGated, IsrIdle, IsrLoop
<1>2. s_tripped' \in BOOLEAN /\ s_vtest_active' \in BOOLEAN
    BY DEF Isr, IsrGated, IsrIdle, IsrLoop, TypeOK, TypeFlags, loopVars
<1> QED
    BY <1>1, <1>2, TypeFlagsIsrEnd DEF TypeFlags

(* The fault manager's interface keeps its types.                          *)
LEMMA TypeFaultTick == TypeFault /\ FaultTickEffect => TypeFault'
<1> SUFFICES ASSUME TypeFault, FaultTickEffect PROVE TypeFault'
    OBVIOUS
<1> QED
    BY OperationsAssumption DEF FaultTickEffect, TypeFault, TripCalled

LEMMA TypeFaultOthers ==
    ASSUME TypeFault,
           RaiseTrip \/ FaultClear \/ UNCHANGED faultVars \/ SetActionsEnable(~actions_en)
    PROVE  TypeFault'
BY DEF TypeFault, RaiseTrip, FaultClear, SetActionsEnable, TripCalled, faultVars

LEMMA TypeTake == TypeFault /\ TakeStopRequest => TypeFault'
BY DEF TypeFault, TakeStopRequest, NoteStopRejected, TripCalled

LEMMA TypeFaultStep == TypeFault /\ [Next]_vars => TypeFault'
<1> SUFFICES ASSUME TypeFault, [Next]_vars PROVE TypeFault'
    OBVIOUS
<1>1. CASE FaultTick \/ WaitPump
    BY <1>1, TypeFaultTick DEF FaultTick, WaitPump
<1>2. CASE TakeStopRequest
    BY <1>2, TypeTake
<1>3. CASE Isr \/ WdogTrip \/ FaultClearCommand \/ ActionsCommand \/ UNCHANGED vars
    BY <1>3, TypeFaultOthers DEF Isr, IsrGated, IsrIdle, IsrLoop, WdogTrip, FaultClearCommand,
       ActionsCommand, vars
<1>4. CASE \/ MotionSubmit \/ DebuggerEstop \/ NextPeriod \/ EnableBegin
           \/ RunStop \/ RunBody \/ RunPromote \/ Disable
    BY <1>4 DEF MotionSubmit, DebuggerEstop, NextPeriod, EnableBegin, RunStop, RunBody,
       RunPromote, Disable, DisableBegin, DisableCritical, SoftGateOff, SoftStopOutputs,
       FullStopOutputs, FullGateOff, DisableReset, TypeFault, faultVars
<1>5. CASE \/ EnableRelease \/ EnableGate \/ EnableStart \/ EnableReset \/ EnablePublish
           \/ GatePowerSettled("enWait", "enStart") \/ GatePowerSettled("powerWait", "cmd")
           \/ WaitStep \/ FullStopOutputs("offStop", "offGate") \/ FullGateOff("offGate", "cmd")
    BY <1>5 DEF EnableRelease, EnableGate, EnableStart, EnableReset, EnablePublish,
       GatePowerSettled, GatePowerRequest, WaitStep, FullStopOutputs, FullGateOff,
       TypeFault, faultVars
<1>6. CASE \/ StopCommand \/ OffCommand \/ DisableCommand \/ CalibBegin \/ CalibEnd
           \/ VtestStart \/ VtestStop \/ PowerOn \/ PowerOff
    BY <1>6 DEF StopCommand, OffCommand, DisableCommand, CalibBegin, CalibEnd,
       VtestStart, VtestStop, PowerOn, PowerOff, GatePowerRequest, TypeFault, faultVars
<1> QED
    BY <1>1, <1>2, <1>3, <1>4, <1>5, <1>6 DEF Next, Continue, Run, Command

LEMMA TypeFlagsStep ==
    TypeOK /\ [Next]_vars => TypeFlags' /\ TypeBridge'
<1> SUFFICES ASSUME TypeOK, [Next]_vars PROVE TypeFlags' /\ TypeBridge'
    OBVIOUS
<1> USE DEF isrVars, loopVars, bridgeVars
<1>0. TypeFlags /\ TypeBridge
    BY DEF TypeOK
<1>1. CASE UNCHANGED <<isrVars, loopVars, bridgeVars>>
    BY <1>1 DEF TypeOK, TypeFlags, TypeBridge
<1>2. CASE RunBody
    BY <1>2, <1>1 DEF RunBody, EmergencyStop, TypeOK, TypeFlags, TypeBridge
<1>3. CASE DebuggerEstop
    BY <1>3 DEF DebuggerEstop, TypeOK, TypeFlags, TypeBridge
<1>4. CASE DisableCritical
    BY <1>0, <1>4 DEF DisableCritical, TypeFlags, TypeBridge
<1>5. CASE \/ SoftGateOff \/ SoftStopOutputs
           \/ FullStopOutputs("fullStop", "fullGate") \/ FullGateOff("fullGate", "disReset")
           \/ FullStopOutputs("offStop", "offGate") \/ FullGateOff("offGate", "cmd")
    <2>1. TypeFlags'
        BY <1>0, <1>5 DEF SoftGateOff, SoftStopOutputs, FullStopOutputs, FullGateOff, TypeFlags
    <2>2. TypeBridge'
        BY <1>0, <1>5 DEF SoftGateOff, SoftStopOutputs, FullStopOutputs, FullGateOff, TypeBridge
    <2> QED
        BY <2>1, <2>2
<1>6. CASE \/ EnableRelease \/ EnableGate \/ EnableStart \/ PowerOn \/ PowerOff
           \/ GatePowerSettled("enWait", "enStart") \/ GatePowerSettled("powerWait", "cmd")
    <2>1. TypeFlags'
        BY <1>0, <1>6 DEF EnableRelease, EnableGate, EnableStart, PowerOn, PowerOff,
           GatePowerSettled, GatePowerRequest, TypeFlags
    <2>2. TypeBridge'
        BY <1>0, <1>6 DEF EnableRelease, EnableGate, EnableStart, PowerOn, PowerOff,
           GatePowerSettled, GatePowerRequest, TypeBridge
    <2> QED
        BY <2>1, <2>2
<1>7. CASE \/ DisableReset \/ EnableReset \/ EnablePublish
           \/ CalibBegin \/ CalibEnd \/ VtestStart \/ VtestStop
    <2>1. TypeFlags'
        BY <1>0, <1>7 DEF DisableReset, EnableReset, EnablePublish, CalibBegin, CalibEnd,
           VtestStart, VtestStop, TypeFlags
    <2>2. TypeBridge'
        BY <1>0, <1>7 DEF DisableReset, EnableReset, EnablePublish, CalibBegin, CalibEnd,
           VtestStart, VtestStop, TypeBridge
    <2> QED
        BY <2>1, <2>2
<1>8. CASE \/ FaultTick \/ RunStop \/ RunPromote \/ TakeStopRequest \/ WaitStep \/ WaitPump
           \/ MotionSubmit \/ WdogTrip \/ NextPeriod \/ EnableBegin \/ DisableBegin \/ UNCHANGED vars
    BY <1>1, <1>8 DEF FaultTick, RunStop, RunPromote, TakeStopRequest, WaitStep, WaitPump,
       MotionSubmit, WdogTrip, NextPeriod, EnableBegin, DisableBegin, vars
<1>9. CASE StopCommand \/ OffCommand \/ DisableCommand \/ FaultClearCommand \/ ActionsCommand
    BY <1>1, <1>9 DEF StopCommand, OffCommand, DisableCommand, FaultClearCommand, ActionsCommand
<1> QED
    BY <1>2, <1>3, <1>4, <1>5, <1>6, <1>7, <1>8, <1>9, TypeIsr
       DEF Next, Continue, Run, Disable, Command

(* A stop that is not yet decided is short of the longest wait: with a low  *)
(* current it is decided by then, with a high one before.                  *)
LEMMA StopDecided ==
    ASSUME NEW ticks \in Nat, NEW currentLow \in BOOLEAN, NEW speedLow \in BOOLEAN,
           ~StopDone(ticks, currentLow, speedLow)
    PROVE  ticks < SpeedWaitTicks
BY StopAssumption DEF StopDone

(* One tick of a stop.                                                     *)
LEMMA StopStepEffect ==
    ASSUME TypeOK, StopInv, s_stop_pending, pc # "disable", NEW next, StopStep(next)
    PROVE  /\ s_stop_ticks' \in 0..SpeedWaitTicks /\ s_stop_pending' \in BOOLEAN
           /\ \/ pc' = next /\ ret' = ret /\ (s_stop_pending' => s_stop_ticks' < SpeedWaitTicks)
              \/ pc' = "disable" /\ ret' = next
           /\ s_stop_pending' => s_state \in Normal
<1>1. s_stop_ticks < SpeedWaitTicks /\ s_stop_ticks \in 0..SpeedWaitTicks
    BY DEF StopInv, TypeOK, TypeState
<1>2. CASE s_state \notin Normal
    BY <1>1, <1>2 DEF StopStep
<1>3. CASE s_state \in Normal
    <2>1. s_stop_ticks' = s_stop_ticks + 1 /\ s_stop_pending' = s_stop_pending
        BY <1>3 DEF StopStep
    <2>2. s_stop_ticks' \in 0..SpeedWaitTicks /\ s_stop_ticks' \in Nat
        BY <1>1, <2>1, StopAssumption
    <2>3. \/ pc' = "disable" /\ ret' = next
          \/ pc' = next /\ ret' = ret
             /\ \E currentLow, speedLow \in BOOLEAN : ~StopDone(s_stop_ticks', currentLow, speedLow)
        BY <1>3 DEF StopStep
    <2>4. s_stop_pending' \in BOOLEAN
        BY <2>1 DEF TypeOK, TypeState
    <2> QED
        BY <1>3, <2>2, <2>3, <2>4, StopDecided
<1> QED
    BY <1>2, <1>3

(* Asking for a stop.                                                      *)
LEMMA RequestStopEffect ==
    ASSUME TypeOK, StopInv, pc # "disable", NEW done, NEW refused, RequestStop(done, refused)
    PROVE  /\ s_stop_ticks' \in 0..SpeedWaitTicks /\ s_stop_pending' \in BOOLEAN
           /\ \/ pc' \in {done, refused} /\ ret' = ret
              \/ pc' = "disable" /\ ret' = done
           /\ s_stop_pending' => s_stop_ticks' < SpeedWaitTicks
           /\ s_stop_pending' => s_stop_pending \/ s_state \in Normal
<1>1. CASE UNCHANGED stopVars
    BY <1>1 DEF RequestStop, StopInv, TypeOK, TypeState, stopVars
<1>2. CASE StopStartable /\ StopStart
    <2>1. s_stop_ticks' = 0 /\ s_stop_pending' = TRUE /\ 0 < SpeedWaitTicks /\ 0 \in 0..SpeedWaitTicks
        BY <1>2, StopAssumption DEF StopStart
    <2> QED
        BY <1>2, <2>1 DEF RequestStop, StopStartable, stopVars
<1> QED
    BY <1>1, <1>2 DEF RequestStop

(* What a step does to the state machine and to the task's place, apart     *)
(* from the steps that start, advance or publish the end of a stop.        *)
StopVarsInv == TypeState /\ StopInv

LEMMA StopSteps ==
    ASSUME TypeOK, StopInv,
           RunStop \/ TakeStopRequest \/ StopCommand \/ OffCommand \/ WaitStep
    PROVE  StopVarsInv'
<1>1. UNCHANGED <<s_state, was_fault>>
    BY DEF RunStop, TakeStopRequest, StopCommand, OffCommand, WaitStep
<1>2. CASE \/ pc = "stop" /\ s_stop_pending /\ StopStep("body")
           \/ pc = "wait" /\ s_stop_pending /\ StopStep("waitPump")
    <2>1. PICK next \in {"body", "waitPump"} : StopStep(next) /\ s_stop_pending /\ pc # "disable"
        BY <1>2
    <2>2. /\ s_stop_ticks' \in 0..SpeedWaitTicks /\ s_stop_pending' \in BOOLEAN
          /\ \/ pc' = next /\ ret' = ret /\ (s_stop_pending' => s_stop_ticks' < SpeedWaitTicks)
             \/ pc' = "disable" /\ ret' = next
          /\ s_stop_pending' => s_state \in Normal
        BY <2>1, StopStepEffect
    <2>3. TypeState'
        BY <1>1, <2>2 DEF TypeOK, TypeState, Labels, DisableLabels
    <2> QED
        BY <1>1, <2>2, <2>3 DEF StopVarsInv, StopInv, StopOwnsState
<1>3. CASE \/ pc = "take" /\ RequestStop("cmd", "cmd")
           \/ pc = "cmd" /\ RequestStop("cmd", "cmd")
           \/ pc = "cmd" /\ RequestStop("wait", "cmd")
    <2>1. PICK next \in {"cmd", "wait"} : RequestStop(next, "cmd") /\ pc # "disable"
        BY <1>3
    <2>2. /\ s_stop_ticks' \in 0..SpeedWaitTicks /\ s_stop_pending' \in BOOLEAN
          /\ \/ pc' \in {next, "cmd"} /\ ret' = ret
             \/ pc' = "disable" /\ ret' = next
          /\ s_stop_pending' => s_stop_ticks' < SpeedWaitTicks
          /\ s_stop_pending' => s_stop_pending \/ s_state \in Normal
        BY <2>1, RequestStopEffect
    <2>3. TypeState'
        BY <1>1, <2>2 DEF TypeOK, TypeState, Labels, DisableLabels
    <2> QED
        BY <1>1, <2>2, <2>3 DEF StopVarsInv, StopInv, StopOwnsState
<1>4. CASE UNCHANGED <<stopVars, ret>> /\ pc # "disable" /\ pc' \in {"body", "cmd", "offStop"}
    <2>1. TypeState'
        BY <1>1, <1>4 DEF TypeOK, TypeState, Labels, stopVars
    <2> QED
        BY <1>1, <1>4, <2>1 DEF StopVarsInv, StopInv, StopOwnsState, stopVars
<1> QED
    BY <1>2, <1>3, <1>4 DEF RunStop, TakeStopRequest, StopCommand, OffCommand, WaitStep

(* The steps that leave a stop and its ticks alone.                        *)
LEMMA StopVarsKept ==
    ASSUME TypeOK, StopInv, UNCHANGED stopVars, pc # "disable" \/ UNCHANGED pc,
           TypeState', pc' # "disCritical",
           s_state' = s_state \/ s_state' \in Normal \cup {"FAULT"} \/ ~s_stop_pending
    PROVE  StopVarsInv'
BY DEF StopVarsInv, StopInv, StopOwnsState, stopVars

LEMMA StopVarsStep == TypeOK /\ StopInv /\ EnableFromOff /\ [Next]_vars => StopVarsInv'
<1> SUFFICES ASSUME TypeOK, StopInv, EnableFromOff, [Next]_vars PROVE StopVarsInv'
    OBVIOUS
<1>0. TypeState
    BY DEF TypeOK
<1> USE DEF Goto, stopVars, taskVars
<1>1. CASE RunStop \/ TakeStopRequest \/ StopCommand \/ OffCommand \/ WaitStep
    BY <1>1, StopSteps
<1>2. CASE DisableBegin
    BY <1>0, <1>2 DEF DisableBegin, StopVarsInv, StopInv, StopOwnsState, TypeState, Labels,
       DisableLabels
<1>3. CASE DisableCritical
    <2>1. ~s_stop_pending /\ ~s_stop_pending'
        BY <1>3 DEF DisableCritical, StopInv
    <2>2. TypeState'
        BY <1>0, <1>3 DEF DisableCritical, TypeState, Labels, DisableLabels, States
    <2> QED
        BY <2>1, <2>2 DEF StopVarsInv, StopInv, StopOwnsState
<1>4. CASE DisableReset
    <2>1. ret \in {"cmd", "body", "wait", "waitPump"} /\ pc' = ret
        BY <1>0, <1>4 DEF DisableReset, TypeState
    <2>2. TypeState'
        BY <1>0, <1>4, <2>1 DEF DisableReset, TypeState, Labels
    <2> QED
        BY <1>4, <2>1, <2>2, StopVarsKept DEF DisableReset
<1>5. CASE WaitPump
    <2>1. /\ pc = "waitPump" /\ pc' \in {"wait", "disable"}
          /\ ret' \in {ret, "wait"} /\ UNCHANGED <<s_state, stopVars, was_fault>>
        BY <1>5 DEF WaitPump
    <2>2. TypeState'
        BY <1>0, <2>1 DEF TypeState, Labels, DisableLabels
    <2> QED
        BY <2>1, <2>2, StopVarsKept
<1>6. CASE Isr \/ WdogTrip \/ DebuggerEstop \/ UNCHANGED vars
    <2>1. UNCHANGED <<s_state, stopVars, taskVars>>
        BY <1>6 DEF Isr, IsrGated, IsrIdle, IsrLoop, WdogTrip, DebuggerEstop, vars
    <2>2. TypeState'
        BY <1>0, <2>1 DEF TypeState
    <2> QED
        BY <2>1, <2>2 DEF TypeOK, StopVarsInv, StopInv, StopOwnsState
<1>7. CASE MotionSubmit
    BY <1>0, <1>7 DEF MotionSubmit, StopVarsInv, StopInv, StopOwnsState, TypeState, Normal, States
<1>8. CASE FaultTick \/ NextPeriod \/ RunBody \/ RunPromote
    <2>1. TypeState'
        BY <1>0, <1>8 DEF FaultTick, NextPeriod, RunBody, RunPromote, TypeState, Normal, States, Labels
    <2>2. /\ UNCHANGED stopVars /\ pc # "disable" /\ pc' # "disCritical"
          /\ s_state' = s_state \/ s_state' \in Normal \cup {"FAULT"}
        BY <1>8 DEF FaultTick, NextPeriod, RunBody, RunPromote
    <2> QED
        BY <2>1, <2>2, StopVarsKept
<1>9. CASE \/ SoftGateOff \/ SoftStopOutputs
           \/ FullStopOutputs("fullStop", "fullGate") \/ FullGateOff("fullGate", "disReset")
           \/ FullStopOutputs("offStop", "offGate") \/ FullGateOff("offGate", "cmd")
           \/ GatePowerSettled("enWait", "enStart") \/ GatePowerSettled("powerWait", "cmd")
    <2>1. TypeState'
        BY <1>0, <1>9 DEF SoftGateOff, SoftStopOutputs, FullStopOutputs, FullGateOff,
           GatePowerSettled, TypeState, Labels, DisableLabels, EnableLabels
    <2>2. UNCHANGED <<stopVars, s_state>> /\ pc # "disable" /\ pc' # "disCritical"
        BY <1>9 DEF SoftGateOff, SoftStopOutputs, FullStopOutputs, FullGateOff, GatePowerSettled
    <2> QED
        BY <2>1, <2>2, StopVarsKept
<1>10. CASE \/ EnableBegin \/ EnableRelease \/ EnableGate \/ EnableStart \/ EnableReset
            \/ EnablePublish \/ PowerOn \/ PowerOff
    <2>1. TypeState'
        BY <1>0, <1>10 DEF EnableBegin, EnableRelease, EnableGate, EnableStart, EnableReset,
           EnablePublish, PowerOn, PowerOff, GatePowerRequest, TypeState, States, Labels, EnableLabels
    <2>2. /\ UNCHANGED stopVars /\ pc # "disable" /\ pc' # "disCritical"
          /\ s_state' = s_state \/ s_state' \in Normal
        BY <1>10 DEF EnableBegin, EnableRelease, EnableGate, EnableStart, EnableReset,
           EnablePublish, PowerOn, PowerOff, GatePowerRequest, Normal
    <2> QED
        BY <2>1, <2>2, StopVarsKept
<1>11. CASE \/ CalibBegin \/ CalibEnd \/ VtestStart \/ VtestStop
            \/ FaultClearCommand \/ ActionsCommand
    <2>1. TypeState'
        BY <1>0, <1>11 DEF CalibBegin, CalibEnd, VtestStart, VtestStop, FaultClearCommand,
           ActionsCommand, TypeState, States
    <2>2. /\ UNCHANGED stopVars /\ pc # "disable" /\ pc' # "disCritical"
          /\ s_state' = s_state \/ s_state' \in Normal \/ ~s_stop_pending
        BY <1>11 DEF CalibBegin, CalibEnd, VtestStart, VtestStop, FaultClearCommand,
           ActionsCommand, Normal
    <2> QED
        BY <2>1, <2>2, StopVarsKept
<1>12. CASE DisableCommand
    BY <1>0, <1>12 DEF DisableCommand, StopVarsInv, StopInv, StopOwnsState, TypeState, Labels,
       DisableLabels
<1> QED
    BY <1>1, <1>2, <1>3, <1>4, <1>5, <1>6, <1>7, <1>8, <1>9, <1>10, <1>11, <1>12
       DEF Next, Continue, Run, Disable, Command

(***************************************************************************)
(* The theorems.                                                           *)
(***************************************************************************)
IInv == TypeOK /\ StopInv /\ BridgeInv

LEMMA IInvInvariant == Spec => []IInv
<1>1. Init => IInv
    <2> SUFFICES ASSUME Init PROVE StopInv
        BY TypeInit, BridgeInit DEF IInv
    <2> QED
        BY DEF Init, StopInv, StopOwnsState
<1>2. IInv /\ [Next]_vars => IInv'
    BY TypeFaultStep, TypeFlagsStep, StopVarsStep, BridgeStep
       DEF IInv, BridgeInv, TypeOK, StopVarsInv
<1> QED
    BY <1>1, <1>2, PTL DEF Spec

(* Every variable of the FOC state machine and of the bridge keeps its      *)
(* type, and a controlled stop never outlasts the longest wait.            *)
THEOREM TypeCorrect == Spec => []TypeOK
BY IInvInvariant, PTL DEF IInv

(* Once app_foc_isr_emergency has run, only app_foc_enable can make the     *)
(* bridge live again.                                                      *)
THEOREM EmergencyAlwaysHolds == Spec => []EmergencyHolds
<1>1. IInv => EmergencyHolds
    BY DEF IInv, BridgeInv, EmergencyInv, EmergencyHolds, OutputsHeld, BridgeLive
<1> QED
    BY <1>1, IInvInvariant, PTL

(* APP_FOC_STATE_FAULT always means a bridge that cannot drive.            *)
THEOREM FaultAlwaysBridgeDown == Spec => []FaultBridgeDown
<1>1. IInv => FaultBridgeDown
    BY DEF IInv, BridgeInv, FaultInv, FaultBridgeDown, OutputsHeld, BridgeLive
<1> QED
    BY <1>1, IInvInvariant, PTL

(* When confirmed overruns have switched app_foc_isr_step off, the bridge   *)
(* it no longer guards is down.                                            *)
THEOREM DisabledPathAlwaysSafe == Spec => []DisabledPathSafe
<1>1. IInv => DisabledPathSafe
    BY DEF IInv, BridgeInv, DisabledInv, EmergencyInv, DisabledPathSafe, OutputsHeld, BridgeLive
<1> QED
    BY <1>1, IInvInvariant, PTL

(* Outside app_foc_enable, app_3phase_inverter_is_enabled never denies a    *)
(* live bridge.                                                            *)
THEOREM LiveAlwaysReported == Spec => []LiveReported
<1>1. IInv => LiveReported
    BY DEF IInv, BridgeInv, EnabledInv, LiveReported, OutputsHeld, BridgeLive
<1> QED
    BY <1>1, IInvInvariant, PTL

(* A pending controlled stop is never found in OFF or CALIB.               *)
THEOREM StopAlwaysOwnsState == Spec => []StopOwnsState
BY IInvInvariant, PTL DEF IInv, StopInv

(***************************************************************************)
(* The hand-over of a stop request.                                        *)
(***************************************************************************)
Served ==
    \/ s_stop_pending' /\ s_state' \in Normal
    \/ stop_escalated' \/ pc' = "disable" \/ latched' = {}
    \/ s_state \in {"OFF", "FAULT"} /\ ~BridgeLive

(* Only the take and an operator's clear withdraw a request.                *)
LEMMA RequestWrites ==
    ASSUME TypeOK, [Next]_vars, stop_request, ~stop_request'
    PROVE  TakeStopRequest \/ FaultClear
<1>1. CASE (\E over \in Overruns : IsrGated(over)) \/ IsrIdle \/ IsrLoop
    BY <1>1 DEF IsrGated, IsrIdle, IsrLoop, RaiseTrip, faultVars
<1>2. CASE MotionSubmit \/ WdogTrip \/ DebuggerEstop \/ NextPeriod \/ EnableBegin
    BY <1>2 DEF MotionSubmit, WdogTrip, DebuggerEstop, NextPeriod, EnableBegin, RaiseTrip, faultVars
<1>3. CASE Run
    BY <1>3 DEF Run, FaultTick, FaultTickEffect, RunStop, RunBody, RunPromote, faultVars
<1>4. CASE Disable
    BY <1>4 DEF Disable, DisableBegin, DisableCritical, SoftGateOff, SoftStopOutputs,
       FullStopOutputs, FullGateOff, DisableReset, faultVars
<1>5. CASE Continue /\ ~Run /\ ~Disable
    BY <1>5 DEF Continue, EnableRelease, EnableGate, GatePowerRequest, GatePowerSettled,
       EnableStart, EnableReset, EnablePublish, WaitStep, WaitPump, FaultTickEffect,
       FullStopOutputs, FullGateOff, faultVars
<1>6. CASE Command
    BY <1>6 DEF Command, StopCommand, OffCommand, DisableCommand, CalibBegin, CalibEnd, VtestStart,
       VtestStop, PowerOn, PowerOff, GatePowerRequest, FaultClearCommand, ActionsCommand,
       SetActionsEnable, faultVars
<1>7. CASE UNCHANGED vars
    BY <1>7 DEF vars, faultVars
<1> QED
    BY <1>1, <1>2, <1>3, <1>4, <1>5, <1>6, <1>7 DEF Next, Isr

LEMMA TakeServes ==
    ASSUME TypeOK, BridgeInv, TakeStopRequest, stop_request
    PROVE  Served
<1>1. CASE FaultStopRefused
    BY <1>1 DEF TakeStopRequest, NoteStopRejected, Served
<1>2. CASE ~FaultStopRefused /\ ~FaultStopNeedless
  <2>1. s_state \in {"READY", "RUN", "FAULT"} /\ ~s_vtest_active /\ ~s_stop_pending
      BY <1>2 DEF FaultStopRefused, FaultStopNeedless, TypeOK, TypeState, States
  <2>2. RequestStop("cmd", "cmd") /\ s_state' = s_state
      BY <1>2 DEF TakeStopRequest
  <2> QED
      BY <2>1, <2>2 DEF RequestStop, StopStartable, StopStart, Normal, stopVars, Served
<1>3. CASE ~FaultStopRefused /\ s_state = "OFF"
  <2>1. OutputsHeld
      BY <1>3 DEF FaultStopRefused, TakeStopRequest, BridgeInv, EnabledInv, EnableLabels
  <2> QED
      BY <1>3, <2>1 DEF OutputsHeld, BridgeLive, Served
<1>4. CASE ~FaultStopRefused /\ s_stop_pending /\ s_state # "OFF"
  <2>1. s_state \in Normal \cup {"FAULT"}
      BY <1>4 DEF FaultStopRefused, TypeOK, TypeState, States, Normal
  <2>2. CASE s_state \in Normal
      BY <1>4, <2>2 DEF FaultStopNeedless, TakeStopRequest, stopVars, Served
  <2>3. CASE s_state = "FAULT"
      BY <2>3 DEF BridgeInv, FaultInv, OutputsHeld, BridgeLive, Served
  <2> QED
      BY <2>1, <2>2, <2>3
<1> QED
    BY <1>1, <1>2, <1>3, <1>4 DEF FaultStopNeedless

(* No controlled stop is lost between the fault manager and the FOC step:    *)
(* it runs, its refusal has become a TRIP, or the bridge is dead, also while *)
(* a calibration or the voltage test holds the bridge and when FAULT has    *)
(* overtaken a stop that is still pending (app_foc.c:951-968).              *)
THEOREM StopRequestAlwaysServed == Spec => StopRequestServed
<1>1. IInv /\ [Next]_vars => [stop_request /\ ~stop_request' => Served]_vars
  <2> SUFFICES ASSUME IInv, [Next]_vars, stop_request, ~stop_request' PROVE Served
      OBVIOUS
  <2>1. CASE TakeStopRequest
      BY <2>1, TakeServes DEF IInv
  <2>2. CASE FaultClear
      BY <2>2 DEF FaultClear, Served
  <2> QED
      BY <2>1, <2>2, RequestWrites DEF IInv
<1> QED
    BY <1>1, IInvInvariant, PTL DEF Spec, StopRequestServed, Served
=============================================================================
