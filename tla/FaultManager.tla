---------------------------- MODULE FaultManager ----------------------------
(***************************************************************************)
(* The fault manager, App/Control/Src/app_fault.c.                         *)
(*                                                                         *)
(* Two kinds of context touch its state.  The io task runs the 1 ms tick,  *)
(* the watchdog re-arm service, the consumption of stop requests and the   *)
(* commands of the terminal, CAN and USB services; interrupts (the ADC     *)
(* watchdog, the current loop's fast trip) preempt the task between any    *)
(* two instructions but not each other.  The task's read-modify-write of   *)
(* `active', `latched' and `state' is therefore split into its load and    *)
(* its store, and an interrupt handler is one step.                        *)
(*                                                                         *)
(* Currents and voltages are abstracted to what the comparisons tell apart *)
(* (`slowOver', `rawOut', `bus').  Event counters, the contents of the     *)
(* first-fault snapshot and the observation mirrors are left out.          *)
(***************************************************************************)
EXTENDS Integers, FiniteSets

CONSTANTS
    PhaseCount,     \* phases of the motor (APP_FAULT_OC_COUNT is 3)
    SettleTicks,    \* APP_FAULT_SETTLE_TICKS_DEFAULT
    SlowDebounce,   \* slow_debounce
    OvMs, UvMs,     \* vbus_ov_ms, vbus_uv_ms
    StallMs,        \* adc_stall_ms
    RearmTicks,     \* wdog_rearm_ticks
    RearmMax,       \* wdog_rearm_max
    \* What the environment and the operator may do
    BusLevels,      \* subset of {"normal", "under", "over", "trip"}
    SlowPhases,     \* phases whose RMS current may exceed oc_slow_a
    FastPhases,     \* phases whose raw current may leave the watchdog window
    FrameFlags,     \* subset of BOOLEAN: may a tick see no new ADC frame?
    EncFlags,       \* subset of BOOLEAN: may a tick see an encoder burst?
    IsrTrips,       \* subset of {"OC_TRIP"}: may the current loop trip?
    Injectable,     \* codes the operator injects
    PolicyEdits,    \* <<code, action>> pairs the operator may write
    Commands        \* subset of {"clear", "actions", "comm"}

Phases == 1 .. PhaseCount

(***************************************************************************)
(* Fault codes: a kind and, for the over-current codes, a phase (0: none). *)
(***************************************************************************)
OcFast(p) == <<"OC_FAST", p>>
OcSlow(p) == <<"OC_SLOW", p>>
VbusOv == <<"VBUS_OV", 0>>
VbusUv == <<"VBUS_UV", 0>>
AdcTimeout == <<"ADC_TIMEOUT", 0>>
EncRead == <<"ENC_READ", 0>>
OcTrip == <<"OC_TRIP", 0>>
CommTimeout == <<"COMM_TIMEOUT", 0>>
NoCode == <<"NONE", 0>>

FastCodes == {OcFast(p) : p \in Phases}
SlowCodes == {OcSlow(p) : p \in Phases}
Codes == FastCodes \cup SlowCodes \cup
         {VbusOv, VbusUv, AdcTimeout, EncRead, OcTrip, CommTimeout}

(* Codes some interrupt handler raises; the task alone raises the others.  *)
IsrCodes == FastCodes \cup {OcTrip}
TaskCodes == Codes \ IsrCodes
(* Those the tick itself judges.                                           *)
TickCodes == TaskCodes \ {CommTimeout}

(***************************************************************************)
(* Action levels, ordered WARN < DERATE < STOP < TRIP.                     *)
(***************************************************************************)
WARN == 0
DERATE == 1
STOP == 2
TRIP == 3
Actions == WARN .. TRIP

DesignPolicy ==
    [c \in Codes |->
        IF c \in FastCodes \cup {AdcTimeout, OcTrip} THEN TRIP
        ELSE IF c \in SlowCodes THEN DERATE
        ELSE IF c \in {VbusOv, VbusUv, CommTimeout} THEN STOP
        ELSE WARN]

ReloadPolicy(on) == IF on THEN DesignPolicy ELSE [c \in Codes |-> WARN]

States == {"NORMAL", "WARNING", "FAULT"}

ASSUME PhasesAssumption == PhaseCount \in Nat \ {0}
ASSUME CountsAssumption ==
    /\ SettleTicks \in Nat
    /\ SlowDebounce \in Nat \ {0} /\ OvMs \in Nat \ {0} /\ UvMs \in Nat \ {0}
    /\ StallMs \in Nat /\ RearmTicks \in Nat /\ RearmMax \in Nat
ASSUME InputsAssumption ==
    /\ "normal" \in BusLevels
    /\ BusLevels \subseteq {"normal", "under", "over", "trip"}
    /\ SlowPhases \subseteq Phases /\ FastPhases \subseteq Phases
    /\ FrameFlags \subseteq BOOLEAN /\ TRUE \in FrameFlags
    /\ EncFlags \subseteq BOOLEAN /\ FALSE \in EncFlags
    /\ IsrTrips \subseteq {"OC_TRIP"}
    /\ Injectable \subseteq Codes /\ PolicyEdits \subseteq Codes \X Actions
    /\ Commands \subseteq {"clear", "actions", "comm"}

VARIABLES
    \* s_fault_ctx
    state, active, latched, first,
    oc_slow_cnt, vbus_ov_cnt, vbus_uv_cnt, adc_stall_cnt, settle_ticks,
    wdog_hit, wdog_locked, wdog_rearm_cnt, wdog_rearm_wait,
    vbus_ov_trip, stop_escalated, stop_request,
    \* file statics
    policy, actions_en, injected,
    \* the ADC driver's interrupt enable of each watchdog channel
    armed,
    \* environment: bus level, phases above oc_slow_a, phases outside the window
    bus, slowOver, rawOut,
    \* the io task: program counter, phase index, local `pending',
    \* argument and return point of the subroutine it is in, the set it has
    \* loaded and the state it has computed but not stored
    pc, ph, pending, arg, ret, reg, newState

ctxVars == <<oc_slow_cnt, vbus_ov_cnt, vbus_uv_cnt, adc_stall_cnt, settle_ticks,
             vbus_ov_trip>>
wdogVars == <<wdog_hit, wdog_locked, wdog_rearm_cnt, wdog_rearm_wait, armed>>
latchVars == <<state, active, latched, first>>
stopVars == <<stop_escalated, stop_request>>
policyVars == <<policy, actions_en, injected>>
envVars == <<bus, slowOver, rawOut>>
taskVars == <<pc, ph, pending, arg, ret, reg, newState>>
vars == <<ctxVars, wdogVars, latchVars, stopVars, policyVars, envVars, taskVars>>

(***************************************************************************)
(* Derived quantities.  Here and below, an operator whose comment begins   *)
(* with `Faulty:' is a variant of the next definition with a plausible bug, *)
(* which some property must detect; no specification uses it.              *)
(***************************************************************************)
EffectiveActive == active \cup injected
EffectiveLatched == latched \cup injected

(* app_fault_get_action, one code: its policy, raised to TRIP by the second *)
(* over-voltage level or by a controlled stop that was refused.            *)
EffectiveAction(c) ==
    IF \/ policy[c] = STOP /\ stop_escalated
       \/ policy[c] >= STOP /\ vbus_ov_trip /\ c = VbusOv
    THEN TRIP
    ELSE policy[c]

(* Faulty: every action lives with its condition.                          *)
CountsWhileActive(c) == c \in EffectiveActive

(* DERATE lives with the condition, STOP and TRIP live with the latch.     *)
Counts(c) == IF policy[c] = DERATE THEN c \in EffectiveActive
                                   ELSE c \in EffectiveLatched

ActionIs(a) ==
    /\ \A c \in Codes : Counts(c) => EffectiveAction(c) <= a
    /\ a = WARN \/ \E c \in Codes : Counts(c) /\ EffectiveAction(c) = a

(* app_fault_get_blocking_latched *)
BlockingLatched == {c \in EffectiveLatched : policy[c] \in {STOP, TRIP}}

EvalState(p) ==
    IF ActionIs(TRIP) THEN "FAULT"
    ELSE IF EffectiveLatched # {} \/ p THEN "WARNING" ELSE "NORMAL"

(* fault_conditions_ok *)
ConditionsOk == bus = "normal" /\ slowOver = {} /\ rawOut = {}

-----------------------------------------------------------------------------
Init ==
    /\ state = "NORMAL" /\ active = {} /\ latched = {} /\ first = NoCode
    /\ oc_slow_cnt = [p \in Phases |-> 0]
    /\ vbus_ov_cnt = 0 /\ vbus_uv_cnt = 0 /\ adc_stall_cnt = 0 /\ settle_ticks = 0
    /\ wdog_hit = [p \in Phases |-> FALSE] /\ wdog_locked = [p \in Phases |-> FALSE]
    /\ wdog_rearm_cnt = [p \in Phases |-> 0] /\ wdog_rearm_wait = [p \in Phases |-> 0]
    /\ vbus_ov_trip = FALSE /\ stop_escalated = FALSE /\ stop_request = NoCode
    /\ actions_en \in BOOLEAN /\ policy = ReloadPolicy(actions_en)
    /\ injected = {}
    /\ armed = [p \in Phases |-> TRUE]
    /\ bus = "normal" /\ slowOver = {} /\ rawOut = {}
    /\ pc = "tick" /\ ph = 1 /\ pending = FALSE
    /\ arg = NoCode /\ ret = "tick" /\ reg = {} /\ newState = "NORMAL"

(* Control flow of the task: jump, call fault_raise, call fault_eval_state. *)
Goto(l, i) == pc' = l /\ ph' = i /\ UNCHANGED <<pending, arg, ret, reg, newState>>

Raise(c, l, i) ==
    /\ pc' = "raise" /\ arg' = c /\ ret' = l /\ ph' = i
    /\ UNCHANGED <<pending, reg, newState>>

Eval(p, l) ==
    /\ pc' = "eval" /\ pending' = p /\ ret' = l /\ ph' = 1
    /\ UNCHANGED <<arg, reg, newState>>

(* The end of a loop over the phases.                                      *)
AfterPhase(l, next) == IF ph < PhaseCount THEN <<l, ph + 1>> ELSE <<next, 1>>

(* Faulty: the counter does not saturate.                                  *)
BumpForever(n, top) == n + 1

Bump(n, top) == IF n < top THEN n + 1 ELSE n

(***************************************************************************)
(* fault_raise in task context: two read-modify-writes and a tail.         *)
(***************************************************************************)
RaiseLoadActive ==
    /\ pc = "raise" /\ pc' = "raise_active" /\ reg' = active
    /\ UNCHANGED <<ph, pending, arg, ret, newState>>
    /\ UNCHANGED <<ctxVars, wdogVars, latchVars, stopVars, policyVars, envVars>>

RaiseStoreActive ==
    /\ pc = "raise_active" /\ pc' = "raise_latch"
    /\ active' = reg \cup {arg} /\ reg' = {}
    /\ UNCHANGED <<ph, pending, arg, ret, newState, state, latched, first>>
    /\ UNCHANGED <<ctxVars, wdogVars, stopVars, policyVars, envVars>>

RaiseLoadLatched ==
    /\ pc = "raise_latch"
    /\ \/ arg \in latched /\ pc' = ret /\ arg' = NoCode /\ UNCHANGED reg
       \/ arg \notin latched /\ pc' = "raise_latched" /\ reg' = latched /\ UNCHANGED arg
    /\ UNCHANGED <<ph, pending, ret, newState>>
    /\ UNCHANGED <<ctxVars, wdogVars, latchVars, stopVars, policyVars, envVars>>

RaiseStoreLatched ==
    /\ pc = "raise_latched" /\ pc' = "raise_record"
    /\ latched' = reg \cup {arg} /\ reg' = {}
    /\ UNCHANGED <<ph, pending, arg, ret, newState, state, active, first>>
    /\ UNCHANGED <<ctxVars, wdogVars, stopVars, policyVars, envVars>>

(* First fault, and FAULT for a TRIP code only: a STOP code must not enter *)
(* FAULT, whose gate would cut the bridge instead of stopping the motor.   *)
RecordFirst(c) == first' = IF first = NoCode THEN c ELSE first
(* Faulty: STOP enters FAULT too.                                          *)
GateOfStop(c) == IF policy[c] >= STOP THEN "FAULT" ELSE state
GateOf(c) == IF policy[c] = TRIP THEN "FAULT" ELSE state

RaiseRecord ==
    /\ pc = "raise_record" /\ pc' = ret /\ arg' = NoCode
    /\ RecordFirst(arg) /\ state' = GateOf(arg)
    /\ UNCHANGED <<ph, pending, ret, reg, newState, active, latched>>
    /\ UNCHANGED <<ctxVars, wdogVars, stopVars, policyVars, envVars>>

(***************************************************************************)
(* fault_eval_state in task context: compute, then store.                  *)
(***************************************************************************)
EvalCompute ==
    /\ pc = "eval" /\ pc' = "eval_store" /\ newState' = EvalState(pending)
    /\ UNCHANGED <<ph, pending, arg, ret, reg>>
    /\ UNCHANGED <<ctxVars, wdogVars, latchVars, stopVars, policyVars, envVars>>

EvalStore ==
    /\ pc = "eval_store" /\ pc' = ret /\ state' = newState
    /\ newState' = "NORMAL" /\ pending' = FALSE
    /\ UNCHANGED <<ph, arg, ret, reg, active, latched, first>>
    /\ UNCHANGED <<ctxVars, wdogVars, stopVars, policyVars, envVars>>

(***************************************************************************)
(* app_fault_tick                                                          *)
(***************************************************************************)
TickSettling ==
    /\ pc = "tick" /\ settle_ticks < SettleTicks
    /\ settle_ticks' = settle_ticks + 1
    /\ Goto("wdog", 1)
    /\ UNCHANGED <<oc_slow_cnt, vbus_ov_cnt, vbus_uv_cnt, adc_stall_cnt, vbus_ov_trip>>
    /\ UNCHANGED <<wdogVars, latchVars, stopVars, policyVars, envVars>>

TickStart ==
    /\ pc = "tick" /\ settle_ticks >= SettleTicks
    /\ Goto("slow", 1)
    /\ UNCHANGED <<ctxVars, wdogVars, latchVars, stopVars, policyVars, envVars>>

TickSlow ==
    LET n == IF ph \in slowOver THEN Bump(oc_slow_cnt[ph], SlowDebounce) ELSE 0
        after == AfterPhase("slow", "vbus")
    IN  /\ pc = "slow"
        /\ oc_slow_cnt' = [oc_slow_cnt EXCEPT ![ph] = n]
        /\ \/ n >= SlowDebounce /\ Raise(OcSlow(ph), after[1], after[2])
           \/ /\ n < SlowDebounce /\ pc' = after[1] /\ ph' = after[2]
              /\ pending' = (pending \/ n > 0)
              /\ UNCHANGED <<arg, ret, reg, newState>>
        /\ UNCHANGED <<vbus_ov_cnt, vbus_uv_cnt, adc_stall_cnt, settle_ticks, vbus_ov_trip>>
        /\ UNCHANGED <<wdogVars, latchVars, stopVars, policyVars, envVars>>

(* Both counters and the second level; over-voltage raises.                *)
TickBus ==
    /\ pc = "vbus"
    /\ vbus_ov_trip' = (bus = "trip" /\ policy[VbusOv] >= STOP)
    /\ vbus_ov_cnt' = IF bus \in {"over", "trip"} THEN Bump(vbus_ov_cnt, OvMs) ELSE 0
    /\ vbus_uv_cnt' = IF bus = "under" THEN Bump(vbus_uv_cnt, UvMs) ELSE 0
    /\ \/ /\ vbus_ov_cnt' >= OvMs \/ vbus_ov_trip'
          /\ Raise(VbusOv, "ov_request", 1)
       \/ /\ vbus_ov_cnt' < OvMs /\ ~vbus_ov_trip'
          /\ pc' = "uv" /\ ph' = 1 /\ pending' = (pending \/ vbus_ov_cnt' > 0)
          /\ UNCHANGED <<arg, ret, reg, newState>>
    /\ UNCHANGED <<oc_slow_cnt, adc_stall_cnt, settle_ticks>>
    /\ UNCHANGED <<wdogVars, latchVars, stopVars, policyVars, envVars>>

(* STOP is not seen by the gate: the tick leaves a request for the task.   *)
RequestStop(c, next) ==
    /\ stop_request' = IF ActionIs(STOP) /\ stop_request = NoCode THEN c ELSE stop_request
    /\ Goto(next, 1)
    /\ UNCHANGED stop_escalated
    /\ UNCHANGED <<ctxVars, wdogVars, latchVars, policyVars, envVars>>

TickOvRequest == pc = "ov_request" /\ RequestStop(VbusOv, "uv")
TickUvRequest == pc = "uv_request" /\ RequestStop(VbusUv, "adc")

TickUnderVoltage ==
    /\ pc = "uv"
    /\ \/ vbus_uv_cnt >= UvMs /\ Raise(VbusUv, "uv_request", 1)
       \/ /\ vbus_uv_cnt < UvMs
          /\ pc' = "adc" /\ ph' = 1 /\ pending' = (pending \/ vbus_uv_cnt > 0)
          /\ UNCHANGED <<arg, ret, reg, newState>>
    /\ UNCHANGED <<ctxVars, wdogVars, latchVars, stopVars, policyVars, envVars>>

TickAdc(fresh) ==
    /\ pc = "adc"
    /\ adc_stall_cnt' = IF fresh THEN 0 ELSE Bump(adc_stall_cnt, StallMs + 1)
    /\ IF adc_stall_cnt' > StallMs THEN Raise(AdcTimeout, "enc", 1) ELSE Goto("enc", 1)
    /\ UNCHANGED <<oc_slow_cnt, vbus_ov_cnt, vbus_uv_cnt, settle_ticks, vbus_ov_trip>>
    /\ UNCHANGED <<wdogVars, latchVars, stopVars, policyVars, envVars>>

TickEncoder(burst) ==
    /\ pc = "enc"
    /\ IF burst THEN Raise(EncRead, "drop", 1) ELSE Goto("drop", 1)
    /\ UNCHANGED <<ctxVars, wdogVars, latchVars, stopVars, policyVars, envVars>>

(* Conditions that are over leave `active'; ENC_READ is an event and stays. *)
(* Faulty: the slow over-current bits are forgotten.                       *)
RecoveredBusOnly ==
    {c \in {VbusOv} : vbus_ov_cnt = 0} \cup {c \in {VbusUv} : vbus_uv_cnt = 0}
    \cup {c \in {AdcTimeout} : adc_stall_cnt = 0}

Recovered ==
    {OcSlow(p) : p \in {q \in Phases : oc_slow_cnt[q] = 0}}
    \cup {c \in {VbusOv} : vbus_ov_cnt = 0}
    \cup {c \in {VbusUv} : vbus_uv_cnt = 0}
    \cup {c \in {AdcTimeout} : adc_stall_cnt = 0}

TickDropLoad ==
    /\ pc = "drop" /\ pc' = "drop_store" /\ reg' = active
    /\ UNCHANGED <<ph, pending, arg, ret, newState>>
    /\ UNCHANGED <<ctxVars, wdogVars, latchVars, stopVars, policyVars, envVars>>

(* Faulty: recovery also releases the latch.                               *)
TickDropStoreUnlatches ==
    /\ pc = "drop_store" /\ pc' = "drop_fast" /\ reg' = {}
    /\ active' = reg \ Recovered /\ latched' = latched \ Recovered
    /\ UNCHANGED <<ph, pending, arg, ret, newState, state, first, stopVars>>
    /\ UNCHANGED <<ctxVars, wdogVars, policyVars, envVars>>

TickDropStore ==
    /\ pc = "drop_store" /\ pc' = "drop_fast" /\ reg' = {}
    /\ active' = reg \ Recovered
    /\ stop_escalated' = (stop_escalated /\ ~(vbus_ov_cnt = 0 /\ vbus_uv_cnt = 0 /\ ~vbus_ov_trip))
    /\ UNCHANGED <<ph, pending, arg, ret, newState, state, latched, first, stop_request>>
    /\ UNCHANGED <<ctxVars, wdogVars, policyVars, envVars>>

TickDropFastLoad ==
    LET after == AfterPhase("drop_fast", "eval")
    IN  /\ pc = "drop_fast"
        /\ \/ ph \notin rawOut /\ pc' = "drop_fast_store" /\ reg' = active /\ UNCHANGED <<ph, ret>>
           \/ /\ ph \in rawOut /\ pc' = after[1] /\ ph' = after[2]
              /\ ret' = "wdog" /\ UNCHANGED reg
        /\ UNCHANGED <<pending, arg, newState>>
        /\ UNCHANGED <<ctxVars, wdogVars, latchVars, stopVars, policyVars, envVars>>

TickDropFastStore ==
    LET after == AfterPhase("drop_fast", "eval")
    IN  /\ pc = "drop_fast_store"
        /\ active' = reg \ {OcFast(ph)} /\ reg' = {}
        /\ pc' = after[1] /\ ph' = after[2] /\ ret' = "wdog"
        /\ UNCHANGED <<pending, arg, newState, state, latched, first>>
        /\ UNCHANGED <<ctxVars, wdogVars, stopVars, policyVars, envVars>>

(***************************************************************************)
(* app_fault_wdog_service, one phase per step.  Enabling the channel and   *)
(* clearing the mark are two steps: the watchdog can fire between them.    *)
(***************************************************************************)
WdogNext == LET after == AfterPhase("wdog", "foc") IN Goto(after[1], after[2])

WdogSkip ==
    /\ pc = "wdog"
    /\ \/ ~wdog_hit[ph] \/ wdog_locked[ph]
       \/ wdog_rearm_wait[ph] = 0 /\ ph \in rawOut
    /\ WdogNext
    /\ UNCHANGED <<ctxVars, wdogVars, latchVars, stopVars, policyVars, envVars>>

WdogPending == pc = "wdog" /\ wdog_hit[ph] /\ ~wdog_locked[ph]

(* Faulty: the waiting time never runs down.                               *)
WdogWaitForever ==
    /\ WdogPending /\ wdog_rearm_wait[ph] > 0 /\ WdogNext
    /\ UNCHANGED <<ctxVars, wdogVars, latchVars, stopVars, policyVars, envVars>>

WdogWait ==
    /\ WdogPending /\ wdog_rearm_wait[ph] > 0
    /\ wdog_rearm_wait' = [wdog_rearm_wait EXCEPT ![ph] = @ - 1]
    /\ WdogNext
    /\ UNCHANGED <<wdog_hit, wdog_locked, wdog_rearm_cnt, armed>>
    /\ UNCHANGED <<ctxVars, latchVars, stopVars, policyVars, envVars>>

(* Faulty: one re-arm too many.                                            *)
RearmAllowedTwice == wdog_rearm_cnt[ph] <= RearmMax
RearmAllowed == wdog_rearm_cnt[ph] < RearmMax

WdogLock ==
    LET after == AfterPhase("wdog", "foc")
    IN  /\ WdogPending /\ wdog_rearm_wait[ph] = 0 /\ ph \notin rawOut
        /\ ~RearmAllowed
        /\ wdog_locked' = [wdog_locked EXCEPT ![ph] = TRUE]
        /\ wdog_hit' = [wdog_hit EXCEPT ![ph] = FALSE]
        /\ Raise(OcFast(ph), after[1], after[2])
        /\ UNCHANGED <<wdog_rearm_cnt, wdog_rearm_wait, armed>>
        /\ UNCHANGED <<ctxVars, latchVars, stopVars, policyVars, envVars>>

WdogReenable ==
    /\ WdogPending /\ wdog_rearm_wait[ph] = 0 /\ ph \notin rawOut
    /\ RearmAllowed
    /\ armed' = [armed EXCEPT ![ph] = TRUE]
    /\ wdog_rearm_cnt' = [wdog_rearm_cnt EXCEPT ![ph] = @ + 1]
    /\ Goto("wdog_hit", ph)
    /\ UNCHANGED <<wdog_hit, wdog_locked, wdog_rearm_wait>>
    /\ UNCHANGED <<ctxVars, latchVars, stopVars, policyVars, envVars>>

WdogClearHit ==
    /\ pc = "wdog_hit"
    /\ wdog_hit' = [wdog_hit EXCEPT ![ph] = FALSE]
    /\ WdogNext
    /\ UNCHANGED <<wdog_locked, wdog_rearm_cnt, wdog_rearm_wait, armed>>
    /\ UNCHANGED <<ctxVars, latchVars, stopVars, policyVars, envVars>>

(***************************************************************************)
(* app_foc_run_once consumes the request; `accepted' is the outcome of     *)
(* app_foc_request_fault_stop, a refusal is reported back.                 *)
(***************************************************************************)
(* Faulty: the request is read but not consumed.                           *)
TakeStopRequestSticky(accepted) ==
    /\ pc = "foc" /\ Goto("cmd", 1)
    /\ UNCHANGED <<ctxVars, wdogVars, latchVars, stopVars, policyVars, envVars>>

(* Faulty: a refusal is noted but the state is not evaluated again.        *)
TakeStopRequestNoEval(accepted) ==
    /\ pc = "foc" /\ stop_request' = NoCode
    /\ stop_escalated' = (stop_escalated \/ (stop_request # NoCode /\ ~accepted))
    /\ Goto("cmd", 1)
    /\ UNCHANGED <<ctxVars, wdogVars, latchVars, policyVars, envVars>>

TakeStopRequest(accepted) ==
    /\ pc = "foc" /\ stop_request' = NoCode
    /\ \/ /\ stop_request = NoCode \/ accepted
          /\ Goto("cmd", 1) /\ UNCHANGED stop_escalated
       \/ /\ stop_request # NoCode /\ ~accepted
          /\ stop_escalated' = TRUE /\ Eval(FALSE, "cmd")
    /\ UNCHANGED <<ctxVars, wdogVars, latchVars, policyVars, envVars>>

(***************************************************************************)
(* Commands of the terminal, CAN and USB services                          *)
(***************************************************************************)
InjectOn(c) ==
    /\ pc = "cmd"
    /\ injected' = injected \cup {c} /\ RecordFirst(c)
    /\ UNCHANGED <<policy, actions_en, state, active, latched, stop_escalated>>
    /\ UNCHANGED <<ctxVars, wdogVars, envVars>>
    /\ stop_request' = IF ActionIs(STOP)' /\ stop_request = NoCode THEN c ELSE stop_request
    /\ Eval(FALSE, "cmd")

(* Faulty: withdrawing an injection leaves its stop request behind.        *)
InjectOffKeepsRequest(c) ==
    /\ pc = "cmd"
    /\ injected' = injected \ {c} /\ Eval(FALSE, "cmd")
    /\ UNCHANGED <<policy, actions_en>>
    /\ UNCHANGED <<ctxVars, wdogVars, latchVars, stopVars, envVars>>

InjectOff(c) ==
    /\ pc = "cmd"
    /\ injected' = injected \ {c}
    /\ stop_request' = IF stop_request = c THEN NoCode ELSE stop_request
    /\ Eval(FALSE, "cmd")
    /\ UNCHANGED <<policy, actions_en, stop_escalated>>
    /\ UNCHANGED <<ctxVars, wdogVars, latchVars, envVars>>

SetPolicy(c, a) ==
    /\ pc = "cmd" /\ policy' = [policy EXCEPT ![c] = a]
    /\ Eval(FALSE, "cmd")
    /\ UNCHANGED <<actions_en, injected>>
    /\ UNCHANGED <<ctxVars, wdogVars, latchVars, stopVars, envVars>>

SetActionsEnable(on) ==
    /\ pc = "cmd" /\ "actions" \in Commands
    /\ actions_en' = on /\ policy' = ReloadPolicy(on)
    /\ Eval(FALSE, "cmd")
    /\ UNCHANGED <<injected, ctxVars, wdogVars, latchVars, stopVars, envVars>>

(* fault_reset_all: everything but the settling time and the policy.       *)
ResetAll ==
    /\ latched' = {} /\ active' = {} /\ first' = NoCode /\ state' = "NORMAL"
    /\ oc_slow_cnt' = [p \in Phases |-> 0]
    /\ vbus_ov_cnt' = 0 /\ vbus_uv_cnt' = 0 /\ adc_stall_cnt' = 0
    /\ wdog_hit' = [p \in Phases |-> FALSE] /\ wdog_locked' = [p \in Phases |-> FALSE]
    /\ wdog_rearm_cnt' = [p \in Phases |-> 0] /\ wdog_rearm_wait' = [p \in Phases |-> 0]
    /\ armed' = [p \in Phases |-> TRUE]
    /\ injected' = {} /\ vbus_ov_trip' = FALSE
    /\ stop_escalated' = FALSE /\ stop_request' = NoCode

(* app_fault_clear: check and reset in one critical section.  A refused    *)
(* clear changes nothing.                                                  *)
Clear ==
    /\ pc = "cmd" /\ "clear" \in Commands /\ ConditionsOk
    /\ ResetAll
    /\ UNCHANGED <<settle_ticks, policy, actions_en, envVars, taskVars>>

(* can_watchdog_step raises COMM_TIMEOUT from the task.                    *)
CommTimeoutRaise ==
    /\ pc = "cmd" /\ "comm" \in Commands
    /\ Raise(CommTimeout, "cmd", 1)
    /\ UNCHANGED <<ctxVars, wdogVars, latchVars, stopVars, policyVars, envVars>>

NextPeriod ==
    /\ pc = "cmd" /\ Goto("tick", 1)
    /\ UNCHANGED <<ctxVars, wdogVars, latchVars, stopVars, policyVars, envVars>>

(***************************************************************************)
(* Interrupt handlers: fault_raise runs to completion.                     *)
(***************************************************************************)
RaiseAtOnce(c) ==
    /\ active' = active \cup {c} /\ latched' = latched \cup {c}
    /\ IF c \in latched THEN UNCHANGED <<first, state>>
       ELSE RecordFirst(c) /\ state' = GateOf(c)

Settling == settle_ticks < SettleTicks

(* app_fault_on_wdog; the driver then disables the channel's interrupt.    *)
OnWdog(p) ==
    /\ armed[p] /\ p \in rawOut
    /\ armed' = [armed EXCEPT ![p] = FALSE]
    /\ \/ Settling /\ UNCHANGED <<wdog_hit, wdog_rearm_wait, latchVars>>
       \/ /\ ~Settling
          /\ wdog_hit' = [wdog_hit EXCEPT ![p] = TRUE]
          /\ wdog_rearm_wait' = [wdog_rearm_wait EXCEPT ![p] = RearmTicks]
          /\ RaiseAtOnce(OcFast(p))
    /\ UNCHANGED <<wdog_locked, wdog_rearm_cnt>>
    /\ UNCHANGED <<ctxVars, stopVars, policyVars, envVars, taskVars>>

(* The current loop reports its fast trip with app_fault_raise.            *)
OnOcTrip ==
    /\ "OC_TRIP" \in IsrTrips /\ RaiseAtOnce(OcTrip)
    /\ UNCHANGED <<ctxVars, wdogVars, stopVars, policyVars, envVars, taskVars>>

(***************************************************************************)
(* The plant                                                               *)
(***************************************************************************)
Toggle(S, x) == IF x \in S THEN S \ {x} ELSE S \cup {x}

BusChange == bus' \in BusLevels \ {bus} /\ UNCHANGED <<slowOver, rawOut>>
SlowChange(p) == slowOver' = Toggle(slowOver, p) /\ UNCHANGED <<bus, rawOut>>
RawChange(p) == rawOut' = Toggle(rawOut, p) /\ UNCHANGED <<bus, slowOver>>

Plant ==
    /\ BusChange \/ (\E p \in SlowPhases : SlowChange(p)) \/ (\E p \in FastPhases : RawChange(p))
    /\ UNCHANGED <<ctxVars, wdogVars, latchVars, stopVars, policyVars, taskVars>>

-----------------------------------------------------------------------------
FaultRaise == RaiseLoadActive \/ RaiseStoreActive \/ RaiseLoadLatched \/ RaiseStoreLatched
              \/ RaiseRecord
FaultEval == EvalCompute \/ EvalStore

Tick ==
    \/ TickSettling \/ TickStart \/ TickSlow \/ TickBus \/ TickOvRequest
    \/ TickUnderVoltage \/ TickUvRequest
    \/ (\E fresh \in FrameFlags : TickAdc(fresh))
    \/ (\E burst \in EncFlags : TickEncoder(burst))
    \/ TickDropLoad \/ TickDropStore \/ TickDropFastLoad \/ TickDropFastStore

WdogService == WdogSkip \/ WdogWait \/ WdogLock \/ WdogReenable \/ WdogClearHit

Command ==
    \/ \E c \in Injectable : InjectOn(c) \/ InjectOff(c)
    \/ \E e \in PolicyEdits : SetPolicy(e[1], e[2])
    \/ \E on \in BOOLEAN : SetActionsEnable(on)
    \/ Clear \/ CommTimeoutRaise

(* One period of the io task, without the optional commands.               *)
Period ==
    \/ FaultRaise \/ FaultEval \/ Tick \/ WdogService
    \/ (\E accepted \in BOOLEAN : TakeStopRequest(accepted))
    \/ NextPeriod

Isr == (\E p \in FastPhases : OnWdog(p)) \/ OnOcTrip

Next == Period \/ Command \/ Isr \/ Plant

(* The io task is periodic and leaves its command phase each period: the   *)
(* services are bounded per step.                                          *)
Fairness == WF_vars(Period) /\ SF_vars(NextPeriod)

Spec == Init /\ [][Next]_vars /\ Fairness

-----------------------------------------------------------------------------
(***************************************************************************)
(* Properties                                                              *)
(***************************************************************************)
PhaseFlags == [Phases -> BOOLEAN]

RaiseLabels == {"raise", "raise_active", "raise_latch", "raise_latched", "raise_record"}
ReturnLabels ==
    {"tick", "slow", "vbus", "ov_request", "uv_request", "enc", "drop", "wdog", "foc", "cmd"}
InnerLabels ==
    {"uv", "adc", "drop_store", "drop_fast", "drop_fast_store", "eval", "eval_store", "wdog_hit"}

TypeLatch ==
    /\ state \in States /\ active \subseteq Codes /\ latched \subseteq Codes
    /\ first \in Codes \cup {NoCode}

TypeCounters ==
    /\ oc_slow_cnt \in [Phases -> 0 .. SlowDebounce]
    /\ vbus_ov_cnt \in 0 .. OvMs /\ vbus_uv_cnt \in 0 .. UvMs
    /\ adc_stall_cnt \in 0 .. StallMs + 1 /\ settle_ticks \in 0 .. SettleTicks

TypeWdog ==
    /\ wdog_rearm_cnt \in [Phases -> Nat]
    /\ wdog_rearm_wait \in [Phases -> 0 .. RearmTicks]

TypeFlags ==
    /\ wdog_hit \in PhaseFlags /\ wdog_locked \in PhaseFlags /\ armed \in PhaseFlags
    /\ vbus_ov_trip \in BOOLEAN /\ stop_escalated \in BOOLEAN
    /\ actions_en \in BOOLEAN /\ pending \in BOOLEAN

TypePolicy ==
    /\ policy \in [Codes -> Actions] /\ injected \subseteq Codes
    /\ stop_request \in Codes \cup {NoCode}

TypeTask ==
    /\ pc \in ReturnLabels \cup InnerLabels \cup RaiseLabels /\ ret \in ReturnLabels
    /\ ph \in Phases
    /\ arg \in Codes \cup {NoCode} /\ reg \subseteq Codes /\ newState \in States
    /\ pc \in RaiseLabels => arg \in Codes

(* Every variable of the fault manager and of its task has its type, and   *)
(* the debounce counters stop at their thresholds.                         *)
TypeOK ==
    /\ TypeLatch /\ TypeCounters /\ TypeWdog /\ TypeFlags
    /\ TypePolicy /\ TypeTask
    /\ bus \in BusLevels /\ slowOver \subseteq Phases /\ rawOut \subseteq Phases

(* The task is outside every read-modify-write and every tick.             *)
AtRest == pc \in {"tick", "wdog", "wdog_hit", "foc", "cmd"}

(* Whenever the task is at rest, a fault of the tick or an injected one    *)
(* that counts as TRIP has closed the gate: the FOC interrupt sees FAULT.  *)
(* Covers the second over-voltage level, the refused stop, the action      *)
(* switch and policy edits, none of which raises anything itself.          *)
GateClosedFor(c) == EffectiveAction(c) = TRIP => state = "FAULT"

TripGatesAtRest == AtRest => \A c \in (latched \cap TickCodes) \cup injected : GateClosedFor(c)

(* The gate closes only for a reason that still counts as TRIP when it     *)
(* closes: a controlled stop is never turned into a bridge cut.            *)
FaultEntryJustified == [][state # "FAULT" /\ state' = "FAULT" => ActionIs(TRIP)']_vars

(* A latch only the task sets survives every interleaving until a clear.   *)
TaskLatchHeld == [][Clear \/ latched \cap TaskCodes \subseteq latched']_vars

(* A pending controlled stop always names a fault that is latched or still *)
(* injected: withdrawing an injection or clearing leaves no stray stop.    *)
StopRequestBacked == stop_request # NoCode => stop_request \in EffectiveLatched

(* At rest the overload bits, which drive the derating, are set exactly    *)
(* while the debounced condition lasts, and the bus and frame bits never   *)
(* outlive their condition.                                                *)
ActiveTracksCondition ==
    AtRest =>
        /\ \A p \in Phases : OcSlow(p) \in active <=> oc_slow_cnt[p] >= SlowDebounce
        /\ VbusOv \in active => vbus_ov_cnt > 0
        /\ VbusUv \in active => vbus_uv_cnt > 0
        /\ AdcTimeout \in active => adc_stall_cnt > 0

(* The re-arm budget: no phase is re-armed more than RearmMax times since  *)
(* the last clear, and a phase locked out stays disarmed with nothing      *)
(* left for the service to do.                                             *)
WdogBudget ==
    \A p \in Phases :
        /\ wdog_rearm_cnt[p] <= RearmMax
        /\ wdog_locked[p] => ~armed[p] /\ ~wdog_hit[p]

(* While codes whose policy is TRIP keep being latched, the gate closes,     *)
(* whatever updates the task and the interrupts lose to each other on the   *)
(* way, and also when one code's latch is lost as another's is set.         *)
TripLatched == \E c \in latched : policy[c] = TRIP
TripLatchReachesGate == TripLatched ~> (state = "FAULT" \/ ~TripLatched)

(* Every stop request is consumed by the FOC step.                         *)
StopRequestTaken == (stop_request # NoCode) ~> (stop_request = NoCode)

(* A recorded watchdog hit is served once the current is back in range.    *)
WdogHitServiced == \A p \in Phases : wdog_hit[p] ~> (~wdog_hit[p] \/ p \in rawOut)

(* app_fault.h:149 of app_fault_get_latched: a latched fault is kept until *)
(* it is cleared, even when its condition is gone.                         *)
LatchHeldUntilCleared == [][Clear \/ latched \subseteq latched']_vars

(* app_fault.h:263 and app_fault.c:569: no phase loses its hardware        *)
(* protection for good: at rest a disarmed channel is due for re-arming or *)
(* was locked out on purpose.                                              *)
NoPhaseUnwatched ==
    pc \in {"tick", "foc", "cmd"} /\ settle_ticks >= SettleTicks =>
        \A p \in Phases : armed[p] \/ wdog_hit[p] \/ wdog_locked[p]
=============================================================================
