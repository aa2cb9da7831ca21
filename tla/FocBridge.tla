------------------------------ MODULE FocBridge ------------------------------
(***************************************************************************)
(* The FOC state machine and the inverter bridge it switches:              *)
(* App/Control/Src/app_foc.c and App/Platform/Src/app_3phase_inverter.c.   *)
(*                                                                         *)
(* The io task runs the slow fault tick, app_foc_run_once and the commands *)
(* of its services once per period.  The 30 kHz interrupt app_foc_isr_step *)
(* and the 15 kHz motion interrupt preempt it anywhere outside a critical  *)
(* section, and a debugger may write the emergency-stop word at any time.  *)
(* A task operation is a sequence of steps, one per part that an interrupt *)
(* can separate; an interrupt handler or a critical section is one step.   *)
(*                                                                         *)
(* The fault manager, which module FaultManager models in full, is seen    *)
(* here through its interface: which classes of fault are latched, the     *)
(* FAULT state, the pending stop request and the note that a stop was      *)
(* refused.  Streak counters (encoder failures, over-budget interrupts)    *)
(* are abstracted to whether they are confirmed, the current references to *)
(* whether they are zero, the current source is left to the environment;    *)
(* the three phases are switched together.                                 *)
(***************************************************************************)
EXTENDS Integers

CONSTANTS
    CoastTicks,      \* ticks a stop ramps before it may switch off (120)
    ForceTicks,      \* ticks after which a stop ignores the current (220)
    SpeedWaitTicks,  \* APP_FOC_STOP_SPEED_WAIT_TICKS (2000)
    Operations,      \* what the environment may do, a subset of AllOperations
    FaultClasses     \* classes of fault the tick may raise: "STOP", "TRIP"

AllOperations == {"estop", "calib", "vtest", "power", "actions", "off", "disable",
                  "overrun", "fault", "overcurrent", "wdog", "motion"}

ASSUME StopAssumption ==
    /\ CoastTicks \in Nat \ {0} /\ ForceTicks \in Nat /\ SpeedWaitTicks \in Nat
    /\ CoastTicks < ForceTicks /\ ForceTicks < SpeedWaitTicks
ASSUME OperationsAssumption ==
    Operations \subseteq AllOperations /\ FaultClasses \subseteq {"STOP", "TRIP"}

VARIABLES
    \* app_foc.c
    s_state, s_stop_pending, s_stop_ticks, s_isr_inhibited, s_emergency_active,
    s_isr_disabled, g_foc_fault_request, estop_request,
    \* app_foc_current.c: the fast trip and the open-loop voltage test
    s_tripped, s_vtest_active,
    \* app_3phase_inverter.c, and what the hardware does: the pin of the 12 V
    \* gate supply, the PWM outputs, the software force-low of the phases
    s_enabled, s_gate_power_on, gate_12v, pwm_running, forced_low,
    \* app_fault.c, as seen from here
    actions_en, fault_state, latched, stop_request, stop_escalated,
    \* the io task
    pc, ret, was_fault

stopVars == <<s_stop_pending, s_stop_ticks>>
isrVars == <<s_isr_inhibited, s_emergency_active, s_isr_disabled,
             g_foc_fault_request, estop_request>>
loopVars == <<s_tripped, s_vtest_active>>
bridgeVars == <<s_enabled, s_gate_power_on, gate_12v, pwm_running, forced_low>>
faultVars == <<actions_en, fault_state, latched, stop_request, stop_escalated>>
taskVars == <<pc, ret, was_fault>>
vars == <<s_state, stopVars, isrVars, loopVars, bridgeVars, faultVars, taskVars>>

States == {"OFF", "READY", "RUN", "CALIB", "FAULT"}
Normal == {"READY", "RUN"}
Driving == {"READY", "RUN", "CALIB"}

(* The bridge can put energy into the motor.                               *)
BridgeLive == pwm_running /\ gate_12v /\ ~forced_low

DisableLabels == {"disable", "disCritical", "softGate", "softStop", "fullStop",
                  "fullGate", "disReset"}
EnableLabels == {"enRelease", "enGate", "enWait", "enStart", "enReset", "enPublish"}
Labels == {"tick", "stop", "body", "promote", "take", "cmd", "powerWait",
           "wait", "waitPump", "offStop", "offGate"} \cup DisableLabels \cup EnableLabels

(***************************************************************************)
(* The fault manager's interface.                                          *)
(***************************************************************************)
(* app_fault_get_action = TRIP, once `classes' are latched.                *)
TripCalled(classes, esc) == "TRIP" \in classes \/ ("STOP" \in classes /\ esc)

(* fault_raise of a code whose design policy is TRIP.                      *)
RaiseTrip ==
    /\ latched' = latched \cup {"TRIP"}
    /\ fault_state' = (fault_state \/ (actions_en /\ "TRIP" \notin latched))
    /\ UNCHANGED <<actions_en, stop_request, stop_escalated>>

(* app_fault_tick: `raised' are the classes whose condition is met, and     *)
(* `calm' that the bus is back in range, which withdraws the escalation.   *)
FaultTickEffect ==
    \E raised \in SUBSET FaultClasses, calm \in BOOLEAN :
        LET now == latched \cup raised
            esc == stop_escalated /\ ~calm
        IN  /\ calm => "STOP" \notin raised
            /\ latched' = now
            /\ stop_request' = (stop_request \/ ("STOP" \in raised /\ actions_en
                                    /\ ~TripCalled(latched \cup {"STOP"}, stop_escalated)))
            /\ stop_escalated' = esc
            /\ fault_state' = (actions_en /\ TripCalled(now, esc))
            /\ UNCHANGED actions_en

(* app_fault_clear when the conditions are gone.                           *)
FaultClear ==
    /\ latched' = {} /\ stop_request' = FALSE /\ stop_escalated' = FALSE
    /\ fault_state' = FALSE
    /\ UNCHANGED actions_en

(* app_fault_set_actions_enable.                                           *)
SetActionsEnable(on) ==
    /\ actions_en' = on
    /\ fault_state' = (on /\ TripCalled(latched, stop_escalated))
    /\ UNCHANGED <<latched, stop_request, stop_escalated>>

(* app_fault_note_stop_rejected.                                           *)
NoteStopRejected ==
    /\ stop_escalated' = TRUE
    /\ fault_state' = (actions_en /\ TripCalled(latched, TRUE))
    /\ UNCHANGED <<actions_en, latched>>

(* app_fault_get_blocking_latched: codes with a STOP or TRIP policy.       *)
Blocking == actions_en /\ latched # {}

(***************************************************************************)
(* The bridge.                                                             *)
(***************************************************************************)
(* Faulty: the force-low is left to a later call.                          *)
EmergencyStopGateKept ==
    /\ forced_low' = forced_low /\ gate_12v' = gate_12v
    /\ s_enabled' = FALSE /\ s_gate_power_on' = FALSE
    /\ UNCHANGED pwm_running

(* app_3phase_inverter_emergency_stop: zero vector, force low, 12 V off.   *)
EmergencyStop ==
    /\ forced_low' = TRUE /\ gate_12v' = FALSE
    /\ s_enabled' = FALSE /\ s_gate_power_on' = FALSE
    /\ UNCHANGED pwm_running

(* Boot leaves the bridge switching at zero vector for the self test, with *)
(* the FOC state OFF.                                                      *)
Init ==
    /\ s_state = "OFF" /\ s_stop_pending = FALSE /\ s_stop_ticks = 0
    /\ s_isr_inhibited = FALSE /\ s_emergency_active = FALSE
    /\ s_isr_disabled = FALSE /\ g_foc_fault_request = FALSE
    /\ estop_request = FALSE
    /\ s_tripped = FALSE /\ s_vtest_active = FALSE
    /\ s_enabled = TRUE /\ s_gate_power_on = TRUE /\ gate_12v = TRUE
    /\ pwm_running = TRUE /\ forced_low = FALSE
    /\ actions_en \in BOOLEAN
    /\ fault_state = FALSE /\ latched = {} /\ stop_request = FALSE
    /\ stop_escalated = FALSE
    /\ pc = "tick" /\ ret = "cmd" /\ was_fault = FALSE

Goto(from, to) == pc = from /\ pc' = to /\ UNCHANGED <<ret, was_fault>>

(***************************************************************************)
(* app_foc_isr_step and the other asynchronous events.                     *)
(***************************************************************************)
(* app_foc_isr_emergency, but for s_isr_inhibited.                         *)
IsrEmergency ==
    /\ g_foc_fault_request' = TRUE
    /\ s_emergency_active' = TRUE
    /\ IF s_emergency_active
         THEN UNCHANGED <<estop_request, bridgeVars>>
         ELSE estop_request' = TRUE /\ EmergencyStop

(* Faulty: the FAULT state is left to the task.                            *)
GateTripsLocal == s_isr_inhibited \/ estop_request

(* The conditions of the gate at the head of the interrupt.                *)
GateTrips == s_isr_inhibited \/ estop_request \/ fault_state

Overruns == IF "overrun" \in Operations THEN BOOLEAN ELSE {FALSE}

Overrun(over) == actions_en /\ over

(* Faulty: a disabled fast path keeps the bridge as it is.                 *)
IsrEndOverrunKept(emergency, inhibit, over) ==
    /\ s_isr_disabled' = Overrun(over)
    /\ IF emergency
         THEN /\ IsrEmergency
              /\ s_isr_inhibited' = (s_isr_inhibited \/ ~s_emergency_active \/ inhibit)
         ELSE UNCHANGED <<g_foc_fault_request, s_emergency_active, estop_request,
                          s_isr_inhibited, bridgeVars>>

(* The single exit checks the time budget: a confirmed overrun disables     *)
(* the fast path for good.                                                 *)
IsrEnd(emergency, inhibit, over) ==
    /\ s_isr_disabled' = Overrun(over)
    /\ IF emergency \/ Overrun(over)
         THEN /\ IsrEmergency
              /\ s_isr_inhibited' = (s_isr_inhibited \/ ~s_emergency_active \/ inhibit)
         ELSE UNCHANGED <<g_foc_fault_request, s_emergency_active, estop_request,
                          s_isr_inhibited, bridgeVars>>

IsrGated(over) ==
    /\ ~s_isr_disabled /\ GateTrips
    /\ IsrEnd(TRUE, TRUE, over)
    /\ UNCHANGED <<s_state, stopVars, loopVars, faultVars, taskVars>>

(* OFF and FAULT drive nothing, but the budget is still checked.           *)
IsrIdle ==
    /\ ~s_isr_disabled /\ ~GateTrips /\ s_state \notin Driving
    /\ \E over \in Overruns : IsrEnd(FALSE, FALSE, over)
    /\ UNCHANGED <<s_state, stopVars, loopVars, faultVars, taskVars>>

(* The loop runs: the samples may be unusable (a confirmed encoder failure  *)
(* or a failed current reading), or call for a zero vector in this beat     *)
(* only, or show an over-current, which trips while actions are enabled;   *)
(* the voltage test may come to its end.                                   *)
Outcomes == {"run", "degraded"}
            \cup (IF "fault" \in Operations THEN {"fault"} ELSE {})
            \cup (IF "overcurrent" \in Operations THEN {"overcurrent"} ELSE {})

IsrLoop ==
    /\ ~s_isr_disabled /\ ~GateTrips /\ s_state \in Driving
    /\ \E outcome \in Outcomes, over \in Overruns, vtestEnds \in BOOLEAN :
        LET executed == outcome \in {"run", "overcurrent"}
            trip == outcome = "overcurrent" /\ actions_en
        IN  /\ s_tripped' = (s_tripped \/ trip)
            /\ s_vtest_active' =
                 (s_vtest_active /\ ~(executed /\ (vtestEnds \/ trip)))
            /\ IF executed /\ s_tripped' THEN RaiseTrip ELSE UNCHANGED faultVars
            /\ IsrEnd(actions_en /\ (outcome = "fault" \/ (executed /\ s_tripped')),
                      FALSE, over)
    /\ UNCHANGED <<s_state, stopVars, taskVars>>

(* app_foc_submit_current from the motion interrupt: a nonzero request      *)
(* starts the current loop.                                                *)
MotionSubmit ==
    /\ "motion" \in Operations
    /\ s_state = "READY" /\ ~s_stop_pending /\ ~s_isr_inhibited /\ ~s_vtest_active
    /\ s_state' = "RUN"
    /\ UNCHANGED <<stopVars, isrVars, loopVars, bridgeVars, faultVars, taskVars>>

(* The analogue watchdog's interrupt raises a TRIP code.                   *)
WdogTrip ==
    /\ "wdog" \in Operations
    /\ RaiseTrip
    /\ UNCHANGED <<s_state, stopVars, isrVars, loopVars, bridgeVars, taskVars>>

(* The debugger writes the emergency-stop word.                            *)
DebuggerEstop ==
    /\ "estop" \in Operations
    /\ ~estop_request /\ estop_request' = TRUE
    /\ UNCHANGED <<s_state, stopVars, s_isr_inhibited, s_emergency_active,
                   s_isr_disabled, g_foc_fault_request, loopVars, bridgeVars,
                   faultVars, taskVars>>

Isr == (\E over \in Overruns : IsrGated(over)) \/ IsrIdle \/ IsrLoop

(***************************************************************************)
(* The task: app_foc_disable, called from several places (`ret').          *)
(***************************************************************************)
DisableBegin ==
    /\ pc = "disable" /\ pc' = "disCritical"
    /\ was_fault' = (s_state = "FAULT") /\ s_stop_pending' = FALSE
    /\ UNCHANGED <<s_state, s_stop_ticks, isrVars, loopVars, bridgeVars, faultVars, ret>>

DisableCritical ==
    /\ pc = "disCritical" /\ pc' = IF was_fault THEN "fullStop" ELSE "softGate"
    /\ s_state' = "OFF"
    /\ estop_request' = FALSE /\ s_isr_inhibited' = FALSE
    /\ s_emergency_active' = FALSE /\ s_isr_disabled' = FALSE
    /\ g_foc_fault_request' = FALSE
    /\ UNCHANGED <<stopVars, loopVars, bridgeVars, faultVars, ret, was_fault>>

(* app_3phase_inverter_disable_soft: gate supply first, then, after it has  *)
(* settled, the outputs.                                                   *)
SoftGateOff ==
    /\ Goto("softGate", "softStop")
    /\ gate_12v' = FALSE /\ s_gate_power_on' = FALSE
    /\ UNCHANGED <<s_state, stopVars, isrVars, loopVars, s_enabled, pwm_running,
                   forced_low, faultVars>>

SoftStopOutputs ==
    /\ Goto("softStop", "disReset")
    /\ pwm_running' = FALSE /\ s_enabled' = FALSE
    /\ UNCHANGED <<s_state, stopVars, isrVars, loopVars, s_gate_power_on, gate_12v,
                   forced_low, faultVars>>

(* app_3phase_inverter_disable: outputs first, then the gate supply.       *)
FullStopOutputs(from, to) ==
    /\ Goto(from, to)
    /\ pwm_running' = FALSE
    /\ UNCHANGED <<s_state, stopVars, isrVars, loopVars, s_enabled, s_gate_power_on,
                   gate_12v, forced_low, faultVars>>

FullGateOff(from, to) ==
    /\ Goto(from, to)
    /\ gate_12v' = FALSE /\ s_enabled' = FALSE /\ s_gate_power_on' = FALSE
    /\ UNCHANGED <<s_state, stopVars, isrVars, loopVars, pwm_running, forced_low,
                   faultVars>>

(* app_foc_current_reset ends the trip latch and the voltage test.         *)
DisableReset ==
    /\ pc = "disReset" /\ pc' = ret
    /\ s_tripped' = FALSE /\ s_vtest_active' = FALSE
    /\ UNCHANGED <<s_state, stopVars, isrVars, bridgeVars, faultVars, ret, was_fault>>

Disable ==
    \/ DisableBegin \/ DisableCritical \/ SoftGateOff \/ SoftStopOutputs
    \/ FullStopOutputs("fullStop", "fullGate") \/ FullGateOff("fullGate", "disReset")
    \/ DisableReset

(***************************************************************************)
(* The task: app_foc_enable.                                               *)
(***************************************************************************)
EnableAllowed == ~s_stop_pending /\ s_state = "OFF" /\ ~Blocking

EnableBegin ==
    /\ EnableAllowed
    /\ Goto("cmd", "enRelease")
    /\ UNCHANGED <<s_state, stopVars, isrVars, loopVars, bridgeVars, faultVars>>

EnableRelease ==
    /\ Goto("enRelease", "enGate")
    /\ forced_low' = FALSE
    /\ UNCHANGED <<s_state, stopVars, isrVars, loopVars, s_enabled, s_gate_power_on,
                   gate_12v, pwm_running, faultVars>>

(* app_3phase_inverter_enable up to the 20 ms wait for the gate supply.    *)
GatePowerRequest(to) ==
    /\ pc' = to
    /\ gate_12v' = TRUE
    /\ UNCHANGED <<s_state, stopVars, isrVars, loopVars, s_enabled, s_gate_power_on,
                   pwm_running, forced_low, faultVars, ret, was_fault>>

GatePowerSettled(from, to) ==
    /\ Goto(from, to)
    /\ s_gate_power_on' = TRUE
    /\ UNCHANGED <<s_state, stopVars, isrVars, loopVars, s_enabled, gate_12v,
                   pwm_running, forced_low, faultVars>>

EnableGate ==
    \/ pc = "enGate" /\ ~s_enabled /\ ~s_gate_power_on /\ GatePowerRequest("enWait")
    \/ /\ s_enabled \/ s_gate_power_on
       /\ Goto("enGate", IF s_enabled THEN "enReset" ELSE "enStart")
       /\ UNCHANGED <<s_state, stopVars, isrVars, loopVars, bridgeVars, faultVars>>

EnableStart ==
    /\ Goto("enStart", "enReset")
    /\ pwm_running' = TRUE /\ s_enabled' = TRUE
    /\ UNCHANGED <<s_state, stopVars, isrVars, loopVars, s_gate_power_on, gate_12v,
                   forced_low, faultVars>>

EnableReset ==
    /\ Goto("enReset", "enPublish")
    /\ s_tripped' = FALSE /\ s_vtest_active' = FALSE
    /\ UNCHANGED <<s_state, stopVars, isrVars, bridgeVars, faultVars>>

EnablePublish ==
    /\ Goto("enPublish", "cmd")
    /\ s_state' = "READY"
    /\ estop_request' = FALSE /\ s_isr_inhibited' = FALSE
    /\ s_emergency_active' = FALSE /\ s_isr_disabled' = FALSE
    /\ g_foc_fault_request' = FALSE
    /\ UNCHANGED <<stopVars, loopVars, bridgeVars, faultVars>>

Enable ==
    \/ EnableBegin \/ EnableRelease \/ EnableGate
    \/ GatePowerSettled("enWait", "enStart")
    \/ EnableStart \/ EnableReset \/ EnablePublish

(***************************************************************************)
(* The task: controlled stop.                                              *)
(***************************************************************************)
(* Faulty: a calibration can be stopped too.                               *)
StopStartableCalib == s_state \in Driving /\ ~s_stop_pending /\ ~s_vtest_active

(* Under its critical section app_foc_request_stop starts a stop only from  *)
(* READY or RUN and outside the voltage test.                              *)
StopStartable == s_state \in Normal /\ ~s_stop_pending /\ ~s_vtest_active

StopStart ==
    /\ s_stop_pending' = TRUE /\ s_stop_ticks' = 0

(* app_foc_request_stop, then on to `done', or `refused'.                  *)
RequestStop(done, refused) ==
    \/ /\ s_state = "FAULT"
       /\ pc' = "disable" /\ ret' = done
       /\ UNCHANGED stopVars
    \/ /\ StopStartable
       /\ StopStart
       /\ pc' = done /\ UNCHANGED ret
    \/ /\ s_state # "FAULT" /\ ~StopStartable
       /\ pc' = IF s_stop_pending \/ s_state = "OFF" THEN done ELSE refused
       /\ UNCHANGED <<stopVars, ret>>

(* Faulty: without a low current the stop waits for ever.                  *)
StopDoneNoForce(ticks, currentLow, speedLow) ==
    /\ ticks >= CoastTicks
    /\ currentLow /\ (speedLow \/ ticks >= SpeedWaitTicks)

(* app_foc_stop_step decides after this tick.  The measured current and     *)
(* speed are inputs.                                                       *)
StopDone(ticks, currentLow, speedLow) ==
    /\ ticks >= CoastTicks
    /\ IF currentLow THEN speedLow \/ ticks >= SpeedWaitTicks
                     ELSE ticks >= ForceTicks

(* Faulty: a stop that FAULT overtook stays pending.                       *)
StopStepFaultKept(next) ==
    \/ /\ s_state \notin Normal
       /\ UNCHANGED stopVars
       /\ pc' = next /\ UNCHANGED ret
    \/ /\ s_state \in Normal
       /\ s_stop_ticks' = s_stop_ticks + 1 /\ UNCHANGED s_stop_pending
       /\ \E currentLow, speedLow \in BOOLEAN :
            IF StopDone(s_stop_ticks', currentLow, speedLow)
              THEN pc' = "disable" /\ ret' = next
              ELSE pc' = next /\ UNCHANGED ret

(* One tick of the stop, then on to `next'.                                *)
StopStep(next) ==
    \/ /\ s_state \notin Normal
       /\ s_stop_pending' = FALSE /\ UNCHANGED s_stop_ticks
       /\ pc' = next /\ UNCHANGED ret
    \/ /\ s_state \in Normal
       /\ s_stop_ticks' = s_stop_ticks + 1 /\ UNCHANGED s_stop_pending
       /\ \E currentLow, speedLow \in BOOLEAN :
            IF StopDone(s_stop_ticks', currentLow, speedLow)
              THEN pc' = "disable" /\ ret' = next
              ELSE pc' = next /\ UNCHANGED ret

(***************************************************************************)
(* The task: one period.                                                   *)
(***************************************************************************)
FaultTick ==
    /\ Goto("tick", "stop")
    /\ FaultTickEffect
    /\ UNCHANGED <<s_state, stopVars, isrVars, loopVars, bridgeVars>>

RunStop ==
    /\ pc = "stop"
    /\ IF s_stop_pending THEN StopStep("body")
       ELSE pc' = "body" /\ UNCHANGED <<stopVars, ret>>
    /\ UNCHANGED <<s_state, isrVars, loopVars, bridgeVars, faultVars, was_fault>>

(* app_foc_run_body: the gate, then the promotion to RUN.                  *)
MustFault ==
    /\ actions_en /\ s_state \in Driving
    /\ fault_state \/ g_foc_fault_request \/ s_tripped

(* Faulty: the FAULT of the fault manager's enumeration, which is CALIB     *)
(* here, is stored.                                                        *)
RunBodyWrongState ==
    /\ Goto("body", "promote")
    /\ IF MustFault THEN EmergencyStop /\ s_state' = "CALIB"
                    ELSE UNCHANGED <<bridgeVars, s_state>>
    /\ UNCHANGED <<stopVars, isrVars, loopVars, faultVars>>

RunBody ==
    /\ Goto("body", "promote")
    /\ IF MustFault THEN EmergencyStop /\ s_state' = "FAULT"
                    ELSE UNCHANGED <<bridgeVars, s_state>>
    /\ UNCHANGED <<stopVars, isrVars, loopVars, faultVars>>

RunPromote ==
    /\ Goto("promote", "take")
    /\ s_state' \in IF s_state = "READY" THEN Normal ELSE {s_state}
    /\ UNCHANGED <<stopVars, isrVars, loopVars, bridgeVars, faultVars>>

(* Faulty: the request is taken for served during a voltage test.          *)
FaultStopRefusedNoVtest ==
    \/ s_state = "OFF" /\ s_enabled
    \/ s_state = "CALIB"

(* app_foc_request_fault_stop refuses.                                     *)
FaultStopRefused ==
    \/ s_state = "OFF" /\ s_enabled
    \/ s_state = "CALIB"
    \/ s_state # "OFF" /\ s_vtest_active

(* It accepts without doing anything: the stage is off, or a controlled     *)
(* stop is under way, which a FAULT may meanwhile have overtaken.          *)
FaultStopNeedless == s_state = "OFF" \/ s_stop_pending

TakeStopRequest ==
    /\ pc = "take"
    /\ stop_request' = FALSE
    /\ \/ /\ stop_request /\ FaultStopRefused
          /\ NoteStopRejected
          /\ pc' = "cmd" /\ UNCHANGED <<stopVars, ret>>
       \/ /\ stop_request /\ ~FaultStopRefused /\ ~FaultStopNeedless
          /\ RequestStop("cmd", "cmd")
          /\ UNCHANGED <<actions_en, fault_state, latched, stop_escalated>>
       \/ /\ stop_request => ~FaultStopRefused /\ FaultStopNeedless
          /\ pc' = "cmd"
          /\ UNCHANGED <<stopVars, ret, actions_en, fault_state, latched, stop_escalated>>
    /\ UNCHANGED <<s_state, isrVars, loopVars, bridgeVars, was_fault>>

NextPeriod ==
    /\ Goto("cmd", "tick")
    /\ UNCHANGED <<s_state, stopVars, isrVars, loopVars, bridgeVars, faultVars>>

Run == FaultTick \/ RunStop \/ RunBody \/ RunPromote \/ TakeStopRequest

(***************************************************************************)
(* The task: commands of the terminal, CAN, USB and debug services.        *)
(***************************************************************************)
(* A stop that does not wait (CAN, USB, motion).                           *)
StopCommand ==
    /\ pc = "cmd"
    /\ RequestStop("cmd", "cmd")
    /\ UNCHANGED <<s_state, isrVars, loopVars, bridgeVars, faultVars, was_fault>>

(* `foc off': request the stop, wait for it in app_foc_wait_off with the    *)
(* fault tick pumped, then switch everything off.                          *)
OffCommand ==
    /\ pc = "cmd" /\ "off" \in Operations
    /\ RequestStop("wait", "cmd")
    /\ UNCHANGED <<s_state, isrVars, loopVars, bridgeVars, faultVars, was_fault>>

WaitStep ==
    /\ pc = "wait"
    /\ IF s_stop_pending THEN StopStep("waitPump")
       ELSE pc' = "offStop" /\ UNCHANGED <<stopVars, ret>>
    /\ UNCHANGED <<s_state, isrVars, loopVars, bridgeVars, faultVars, was_fault>>

WaitPump ==
    /\ pc = "waitPump"
    /\ FaultTickEffect
    /\ \/ pc' = "wait" /\ UNCHANGED ret
       \/ s_stop_pending /\ pc' = "disable" /\ ret' = "wait"
    /\ UNCHANGED <<s_state, stopVars, isrVars, loopVars, bridgeVars, was_fault>>

DisableCommand ==
    /\ pc = "cmd" /\ "disable" \in Operations
    /\ pc' = "disable" /\ ret' = "cmd"
    /\ UNCHANGED <<s_state, stopVars, isrVars, loopVars, bridgeVars, faultVars, was_fault>>

CalibBegin ==
    /\ "calib" \in Operations
    /\ Goto("cmd", "cmd")
    /\ s_state \in Normal /\ ~s_stop_pending /\ ~s_vtest_active
    /\ s_state' = "CALIB" /\ s_tripped' = FALSE
    /\ UNCHANGED <<stopVars, isrVars, s_vtest_active, bridgeVars, faultVars>>

CalibEnd ==
    /\ Goto("cmd", "cmd")
    /\ s_state = "CALIB" /\ s_state' = "READY"
    /\ s_tripped' = FALSE /\ s_vtest_active' = FALSE
    /\ UNCHANGED <<stopVars, isrVars, bridgeVars, faultVars>>

VtestStart ==
    /\ "vtest" \in Operations
    /\ Goto("cmd", "cmd")
    /\ s_state \in Normal /\ ~s_stop_pending
    /\ s_vtest_active' = TRUE
    /\ UNCHANGED <<s_state, stopVars, isrVars, s_tripped, bridgeVars, faultVars>>

VtestStop ==
    /\ Goto("cmd", "cmd")
    /\ s_vtest_active /\ s_vtest_active' = FALSE
    /\ UNCHANGED <<s_state, stopVars, isrVars, s_tripped, bridgeVars, faultVars>>

(* `driver power on': the gate supply alone, while the FOC is OFF.         *)
PowerOn ==
    /\ "power" \in Operations
    /\ pc = "cmd" /\ s_state = "OFF" /\ ~s_stop_pending
    /\ ~s_enabled /\ ~s_gate_power_on
    /\ GatePowerRequest("powerWait")

PowerOff ==
    /\ "power" \in Operations
    /\ Goto("cmd", "cmd")
    /\ s_state = "OFF" /\ ~s_stop_pending
    /\ ~s_enabled /\ s_gate_power_on
    /\ gate_12v' = FALSE /\ s_gate_power_on' = FALSE
    /\ UNCHANGED <<s_state, stopVars, isrVars, loopVars, s_enabled, pwm_running,
                   forced_low, faultVars>>

FaultClearCommand ==
    /\ Goto("cmd", "cmd")
    /\ FaultClear
    /\ UNCHANGED <<s_state, stopVars, isrVars, loopVars, bridgeVars>>

ActionsCommand ==
    /\ "actions" \in Operations
    /\ Goto("cmd", "cmd")
    /\ SetActionsEnable(~actions_en)
    /\ UNCHANGED <<s_state, stopVars, isrVars, loopVars, bridgeVars>>

Command ==
    \/ StopCommand \/ OffCommand \/ DisableCommand \/ CalibBegin \/ CalibEnd
    \/ VtestStart \/ VtestStop \/ PowerOn \/ PowerOff
    \/ FaultClearCommand \/ ActionsCommand

(* What the task goes on doing once it has begun.                          *)
Continue ==
    \/ Run \/ Disable
    \/ EnableRelease \/ EnableGate \/ GatePowerSettled("enWait", "enStart")
    \/ EnableStart \/ EnableReset \/ EnablePublish
    \/ WaitStep \/ WaitPump
    \/ FullStopOutputs("offStop", "offGate") \/ FullGateOff("offGate", "cmd")
    \/ GatePowerSettled("powerWait", "cmd")

Next == Isr \/ MotionSubmit \/ WdogTrip \/ DebuggerEstop
        \/ Continue \/ NextPeriod \/ EnableBegin \/ Command

(* The scheduler keeps the io task running, a bounded number of commands is *)
(* served per period, and the converters keep triggering the interrupt, so *)
(* that its gate is looked at again: no overrun, trip or bad sample is     *)
(* ever owed.                                                              *)
Fairness == WF_vars(Continue) /\ SF_vars(NextPeriod) /\ WF_vars(IsrGated(FALSE))

Spec == Init /\ [][Next]_vars /\ Fairness

(***************************************************************************)
(* Properties.                                                             *)
(***************************************************************************)
TypeState ==
    /\ s_state \in States /\ s_stop_pending \in BOOLEAN /\ s_stop_ticks \in 0..SpeedWaitTicks
    /\ pc \in Labels /\ ret \in {"cmd", "body", "wait", "waitPump"} /\ was_fault \in BOOLEAN
TypeFlags ==
    /\ s_isr_inhibited \in BOOLEAN /\ s_emergency_active \in BOOLEAN
    /\ s_isr_disabled \in BOOLEAN /\ g_foc_fault_request \in BOOLEAN
    /\ estop_request \in BOOLEAN
    /\ s_tripped \in BOOLEAN /\ s_vtest_active \in BOOLEAN
TypeBridge ==
    /\ s_enabled \in BOOLEAN /\ s_gate_power_on \in BOOLEAN
    /\ gate_12v \in BOOLEAN /\ pwm_running \in BOOLEAN /\ forced_low \in BOOLEAN
TypeFault ==
    /\ actions_en \in BOOLEAN /\ fault_state \in BOOLEAN
    /\ latched \subseteq {"STOP", "TRIP"}
    /\ stop_request \in BOOLEAN /\ stop_escalated \in BOOLEAN
(* Every variable keeps its type; a stop outlasts the longest wait for the  *)
(* speed by no tick.                                                       *)
TypeOK == TypeState /\ TypeFlags /\ TypeBridge /\ TypeFault

(* Once the interrupt has shut the bridge, nothing but a new enable makes   *)
(* it live again: `driver power on', a stop running to its end, a          *)
(* calibration or a voltage test cannot.                                   *)
EmergencyHolds == s_emergency_active /\ pc \notin EnableLabels => ~BridgeLive

(* The FAULT state is never entered or kept with a live bridge.            *)
FaultBridgeDown == s_state = "FAULT" => ~BridgeLive

(* A disabled fast path, which no longer looks at the gate, leaves no live  *)
(* bridge behind; only an enable, which re-arms it, may be under way.      *)
DisabledPathSafe == s_isr_disabled /\ pc \notin EnableLabels => ~BridgeLive

(* app_3phase_inverter_is_enabled, on which the refusal of a controlled     *)
(* stop rests, never denies a live bridge outside an enable.               *)
LiveReported == BridgeLive /\ pc \notin EnableLabels => s_enabled

(* A controlled stop never runs under a calibration, and it is over before  *)
(* the FOC is OFF.                                                         *)
StopOwnsState == s_stop_pending => s_state \in Normal \cup {"FAULT"}

(* A consumed stop request is not lost: a stop is running, the refusal is   *)
(* noted with the escalation to TRIP, or the bridge is dead already (also   *)
(* where FAULT has overtaken a pending stop and the request is dropped).    *)
StopRequestServed ==
    [][stop_request /\ ~stop_request' =>
        \/ s_stop_pending' /\ s_state' \in Normal
        \/ stop_escalated' \/ pc' = "disable" \/ latched' = {}
        \/ s_state \in {"OFF", "FAULT"} /\ ~BridgeLive]_vars

(* Every accepted stop comes to its end.                                   *)
StopEnds == s_stop_pending ~> ~s_stop_pending

(* A FAULT of the fault manager brings the bridge down, whatever the task   *)
(* is doing.                                                               *)
FaultShutsBridge == fault_state ~> (~BridgeLive \/ ~fault_state)

(* An emergency of the interrupt reaches the state machine.                *)
EmergencyReported ==
    (g_foc_fault_request /\ actions_en)
        ~> (s_state \notin Driving \/ ~g_foc_fault_request \/ ~actions_en)

(* app_foc.h:32 of APP_FOC_STATE_READY: the bridge is enabled.  At the      *)
(* command point, with no emergency reported, its gate supply is on.       *)
ReadyMeansPowered ==
    pc = "cmd" /\ s_state = "READY" /\ ~s_emergency_active => gate_12v

(* app_foc.c:820 in app_foc_enable: while the gate supply settles the       *)
(* bridge is off, its PWM not started.                                     *)
EnableWaitsDark == pc = "enWait" => ~BridgeLive
=============================================================================
