------------------------- MODULE FaultManagerProofs -------------------------
(***************************************************************************)
(* Theorems about the fault manager, for every number of phases, every     *)
(* threshold and every environment.                                        *)
(***************************************************************************)
EXTENDS FaultManager, TLAPS

(* Phase indices stay in range through the loops over the phases.          *)
LEMMA AfterPhaseInRange ==
    ASSUME ph \in Phases, NEW l, NEW next
    PROVE  /\ AfterPhase(l, next)[1] \in {l, next}
           /\ AfterPhase(l, next)[2] \in Phases
BY PhasesAssumption DEF AfterPhase, Phases

(* The codes the actions name are codes, and the tables are typed.         *)
LEMMA CodesTyped ==
    /\ \A p \in Phases : OcFast(p) \in Codes /\ OcSlow(p) \in Codes
    /\ {VbusOv, VbusUv, AdcTimeout, EncRead, OcTrip, CommTimeout} \subseteq Codes
    /\ \A on : ReloadPolicy(on) \in [Codes -> Actions]
BY DEF Codes, FastCodes, SlowCodes, ReloadPolicy, DesignPolicy, Actions, WARN, DERATE, STOP, TRIP

(* The initial state is well typed.                                        *)
LEMMA TypeInit == Init => TypeOK
<1> SUFFICES ASSUME Init PROVE TypeOK
    OBVIOUS
<1>1. TypeLatch
    BY DEF Init, TypeLatch, States
<1>2. TypeCounters
    BY CountsAssumption DEF Init, TypeCounters
<1>3. TypeWdog
    BY CountsAssumption DEF Init, TypeWdog
<1>6. TypeFlags
    BY DEF Init, TypeFlags, PhaseFlags
<1>4. TypePolicy
    BY CodesTyped DEF Init, TypePolicy
<1>5. TypeTask
    BY PhasesAssumption DEF Init, TypeTask, ReturnLabels, InnerLabels, RaiseLabels, States, Phases
<1> QED
    BY <1>1, <1>2, <1>3, <1>4, <1>5, <1>6, InputsAssumption DEF Init, TypeOK

(* fault_raise and fault_eval_state keep the types.                        *)
LEMMA TypeRaise == TypeOK /\ (FaultRaise \/ FaultEval) => TypeOK'
<1> SUFFICES ASSUME TypeOK, FaultRaise \/ FaultEval PROVE TypeOK'
    OBVIOUS
<1> USE DEF FaultRaise, FaultEval, RaiseLoadActive, RaiseStoreActive, RaiseLoadLatched,
            RaiseStoreLatched, RaiseRecord, EvalCompute, EvalStore
<1>1. TypeLatch'
    BY DEF TypeOK, TypeLatch, TypeTask, RaiseLabels, RecordFirst, GateOf, States, latchVars
<1>2. TypeFlags'
    BY DEF TypeOK, TypeFlags, ctxVars, wdogVars, stopVars, policyVars
<1>3. TypeTask'
    BY DEF TypeOK, TypeLatch, TypeTask, EvalState, States, ReturnLabels, InnerLabels, RaiseLabels, latchVars
<1> QED
    BY <1>1, <1>2, <1>3 DEF TypeOK, TypeCounters, TypeWdog, TypePolicy,
       ctxVars, wdogVars, stopVars, policyVars, envVars

(* The counters of the tick saturate.                                      *)
LEMMA BumpBounded ==
    ASSUME NEW top \in Nat, NEW n \in 0 .. top
    PROVE  Bump(n, top) \in 0 .. top
BY DEF Bump

(* The tick keeps the types.                                               *)
LEMMA TypeTick == TypeOK /\ Tick => TypeOK'
<1> SUFFICES ASSUME TypeOK, Tick PROVE TypeOK'
    OBVIOUS
<1> USE DEF Tick, TickSettling, TickStart, TickSlow, TickBus, TickOvRequest, TickUnderVoltage,
            TickUvRequest, TickAdc, TickEncoder, TickDropLoad, TickDropStore, TickDropFastLoad,
            TickDropFastStore, RequestStop, Goto, Raise
<1>1. TypeLatch'
    BY DEF TypeOK, TypeLatch, TypeTask, latchVars
<1>2. TypeCounters'
    <2>1. CASE TickSettling
        BY <2>1, CountsAssumption DEF TypeOK, TypeCounters
    <2>2. CASE TickSlow
        <3>1. oc_slow_cnt[ph] \in 0 .. SlowDebounce
            BY DEF TypeOK, TypeCounters, TypeTask
        <3>2. Bump(oc_slow_cnt[ph], SlowDebounce) \in 0 .. SlowDebounce /\ 0 \in 0 .. SlowDebounce
            BY <3>1, CountsAssumption, BumpBounded
        <3> QED
            BY <2>2, <3>2 DEF TypeOK, TypeCounters, TypeTask
    <2>3. CASE TickBus
        <3>1. vbus_ov_cnt' \in 0 .. OvMs
            BY <2>3, CountsAssumption, BumpBounded DEF TypeOK, TypeCounters
        <3>2. vbus_uv_cnt' \in 0 .. UvMs
            BY <2>3, CountsAssumption, BumpBounded DEF TypeOK, TypeCounters
        <3> QED
            BY <2>3, <3>1, <3>2 DEF TypeOK, TypeCounters
    <2>4. CASE \E fresh \in FrameFlags : TickAdc(fresh)
        BY <2>4, CountsAssumption, BumpBounded DEF TypeOK, TypeCounters
    <2>5. CASE UNCHANGED ctxVars
        BY <2>5 DEF TypeOK, TypeCounters, ctxVars
    <2> QED
        BY <2>1, <2>2, <2>3, <2>4, <2>5 DEF ctxVars
<1>3. TypeFlags'
    BY DEF TypeOK, TypeFlags, ctxVars, wdogVars, stopVars, policyVars
<1>4. TypePolicy'
    BY CodesTyped DEF TypeOK, TypePolicy, stopVars, policyVars
<1>5. TypeTask'
    <2> USE DEF TypeOK, TypeTask, ReturnLabels, InnerLabels, RaiseLabels
    <2>1. ph \in Phases /\ 1 \in Phases
        BY PhasesAssumption DEF Phases
    <2>2. CASE TickSlow
        BY <2>1, <2>2, CodesTyped, AfterPhaseInRange
    <2>3. CASE TickDropLoad \/ TickDropStore \/ TickDropFastLoad \/ TickDropFastStore
        BY <2>1, <2>3, AfterPhaseInRange DEF TypeLatch
    <2>4. CASE TickBus \/ TickUnderVoltage \/ TickOvRequest \/ TickUvRequest
        BY <2>1, <2>4, CodesTyped
    <2>5. CASE \/ \E fresh \in FrameFlags : TickAdc(fresh)
               \/ \E burst \in EncFlags : TickEncoder(burst)
        BY <2>1, <2>5, CodesTyped
    <2>6. CASE TickSettling \/ TickStart
        BY <2>1, <2>6
    <2> QED
        BY <2>2, <2>3, <2>4, <2>5, <2>6
<1> QED
    BY <1>1, <1>2, <1>3, <1>4, <1>5 DEF TypeOK, TypeWdog, wdogVars, envVars

(* The re-arm service keeps the types.                                     *)
LEMMA TypeWdogService == TypeOK /\ WdogService => TypeOK'
<1> SUFFICES ASSUME TypeOK, WdogService PROVE TypeOK'
    OBVIOUS
<1> USE DEF WdogService, WdogSkip, WdogWait, WdogLock, WdogReenable, WdogClearHit,
            WdogPending, WdogNext, Goto, Raise
<1>1. TypeWdog'
    <2> USE DEF TypeOK, TypeWdog, TypeTask
    <2>1. ph \in Phases /\ wdog_rearm_cnt[ph] \in Nat /\ wdog_rearm_wait[ph] \in 0 .. RearmTicks
        OBVIOUS
    <2>2. CASE WdogWait
        <3>1. wdog_rearm_wait[ph] - 1 \in 0 .. RearmTicks
            BY <2>1, <2>2, CountsAssumption
        <3> QED
            BY <2>1, <2>2, <3>1
    <2>3. CASE WdogReenable
        BY <2>1, <2>3
    <2>4. CASE WdogSkip \/ WdogLock \/ WdogClearHit
        BY <2>4 DEF wdogVars
    <2> QED
        BY <2>2, <2>3, <2>4
<1>2. TypeFlags'
    BY DEF TypeOK, TypeFlags, TypeTask, PhaseFlags, ctxVars, wdogVars, stopVars, policyVars
<1>3. TypeTask'
    BY CodesTyped, AfterPhaseInRange DEF TypeOK, TypeTask, ReturnLabels, InnerLabels, RaiseLabels
<1> QED
    BY <1>1, <1>2, <1>3 DEF TypeOK, TypeLatch, TypeCounters, TypePolicy,
       ctxVars, latchVars, stopVars, policyVars, envVars

(* The FOC step, the commands and the end of a period keep the types.      *)
LEMMA TypeTaskLevel ==
    TypeOK /\ ((\E accepted \in BOOLEAN : TakeStopRequest(accepted)) \/ NextPeriod \/ Command)
        => TypeOK'
<1> SUFFICES ASSUME TypeOK,
                    (\E accepted \in BOOLEAN : TakeStopRequest(accepted)) \/ NextPeriod \/ Command
             PROVE  TypeOK'
    OBVIOUS
<1> USE DEF TakeStopRequest, NextPeriod, Command, InjectOn, InjectOff, SetPolicy,
            SetActionsEnable, Clear, ResetAll, CommTimeoutRaise, Goto, Raise, Eval
<1>1. TypeLatch'
    BY InputsAssumption DEF TypeOK, TypeLatch, RecordFirst, States, latchVars
<1>2. TypeCounters'
    BY CountsAssumption DEF TypeOK, TypeCounters, ctxVars
<1>3. TypeWdog'
    BY CountsAssumption DEF TypeOK, TypeWdog, wdogVars
<1>4. TypeFlags'
    BY DEF TypeOK, TypeFlags, PhaseFlags, ctxVars, wdogVars, stopVars, policyVars, taskVars
<1>5. TypePolicy'
    BY CodesTyped, InputsAssumption DEF TypeOK, TypePolicy, stopVars, policyVars
<1>6. TypeTask'
    BY CodesTyped, PhasesAssumption
    DEF TypeOK, TypeTask, ReturnLabels, InnerLabels, RaiseLabels, Phases, taskVars
<1> QED
    BY <1>1, <1>2, <1>3, <1>4, <1>5, <1>6 DEF TypeOK, envVars

(* Interrupts and the plant keep the types.                                *)
LEMMA TypeIsr == TypeOK /\ (Isr \/ Plant) => TypeOK'
<1> SUFFICES ASSUME TypeOK, Isr \/ Plant PROVE TypeOK'
    OBVIOUS
<1> USE DEF Isr, OnWdog, OnOcTrip, Plant, BusChange, SlowChange, RawChange, Toggle
<1>1. TypeLatch'
    BY CodesTyped, InputsAssumption
    DEF TypeOK, TypeLatch, RaiseAtOnce, RecordFirst, GateOf, States, latchVars
<1>2. TypeWdog'
    BY CountsAssumption DEF TypeOK, TypeWdog, wdogVars
<1>3. TypeFlags'
    BY InputsAssumption DEF TypeOK, TypeFlags, PhaseFlags, ctxVars, wdogVars, stopVars, policyVars, taskVars
<1>4. (bus \in BusLevels /\ slowOver \subseteq Phases /\ rawOut \subseteq Phases)'
    BY InputsAssumption DEF TypeOK, envVars
<1> QED
    BY <1>1, <1>2, <1>3, <1>4 DEF TypeOK, TypeCounters, TypePolicy, TypeTask,
       ctxVars, stopVars, policyVars, taskVars

(* Type correctness: no interleaving of the task and the interrupts takes  *)
(* a variable of app_fault.c out of its type.                              *)
THEOREM TypeCorrect == Spec => []TypeOK
<1>1. TypeOK /\ [Next]_vars => TypeOK'
    <2> SUFFICES ASSUME TypeOK, [Next]_vars PROVE TypeOK'
        OBVIOUS
    <2>1. CASE Next
        BY <2>1, TypeRaise, TypeTick, TypeWdogService, TypeTaskLevel, TypeIsr DEF Next, Period
    <2>2. CASE UNCHANGED vars
        BY <2>2 DEF vars, ctxVars, wdogVars, latchVars, stopVars, policyVars, envVars, taskVars,
           TypeOK, TypeLatch, TypeCounters, TypeWdog, TypeFlags, TypePolicy, TypeTask
    <2> QED
        BY <2>1, <2>2
<1> QED
    BY <1>1, TypeInit, PTL DEF Spec

-----------------------------------------------------------------------------
(***************************************************************************)
(* The latch.  While the task is between the load and the store of the     *)
(* latched set, its register holds every code that only the task latches:  *)
(* the interrupts that run in between add codes of their own.              *)
(***************************************************************************)
LatchInv ==
    /\ pc = "raise_latched" => latched \cap TaskCodes \subseteq reg
    /\ pc = "raise_record" => arg \in latched

LEMMA IsrRaisesIsrCodes ==
    ASSUME NEW c \in IsrCodes, RaiseAtOnce(c)
    PROVE  latched \subseteq latched' /\ latched' \cap TaskCodes = latched \cap TaskCodes
BY DEF RaiseAtOnce, TaskCodes

LEMMA FastCodesAreIsrCodes == OcTrip \in IsrCodes /\ \A p \in Phases : OcFast(p) \in IsrCodes
BY DEF IsrCodes, FastCodes

(* Interrupts and the plant never shrink the latched set.                  *)
LEMMA IsrLatch ==
    (Isr \/ Plant) => /\ latched \subseteq latched'
                      /\ latched' \cap TaskCodes = latched \cap TaskCodes
                      /\ UNCHANGED taskVars
BY IsrRaisesIsrCodes, FastCodesAreIsrCodes, InputsAssumption
DEF Isr, OnWdog, OnOcTrip, Plant, latchVars, taskVars

LEMMA LatchInvStep == TypeOK /\ LatchInv /\ [Next]_vars => LatchInv'
<1> SUFFICES ASSUME TypeOK, LatchInv, [Next]_vars PROVE LatchInv'
    OBVIOUS
<1> USE DEF LatchInv, TypeOK, TypeTask, ReturnLabels, InnerLabels, RaiseLabels
<1>1. CASE FaultRaise
    BY <1>1 DEF FaultRaise, RaiseLoadActive, RaiseStoreActive, RaiseLoadLatched,
       RaiseStoreLatched, RaiseRecord, latchVars
<1>2. CASE FaultEval
    BY <1>2 DEF FaultEval, EvalCompute, EvalStore
<1>3. CASE Tick
    BY <1>3, AfterPhaseInRange
    DEF Tick, TickSettling, TickStart, TickSlow, TickBus, TickOvRequest, TickUnderVoltage,
        TickUvRequest, TickAdc, TickEncoder, TickDropLoad, TickDropStore, TickDropFastLoad,
        TickDropFastStore, RequestStop, Goto, Raise
<1>4. CASE WdogService
    BY <1>4, AfterPhaseInRange
    DEF WdogService, WdogSkip, WdogWait, WdogLock, WdogReenable, WdogClearHit, WdogPending,
        WdogNext, Goto, Raise
<1>5. CASE (\E accepted \in BOOLEAN : TakeStopRequest(accepted)) \/ NextPeriod \/ Command
    BY <1>5 DEF TakeStopRequest, NextPeriod, Command, InjectOn, InjectOff, SetPolicy,
       SetActionsEnable, Clear, ResetAll, CommTimeoutRaise, Goto, Raise, Eval, taskVars
<1>6. CASE Isr \/ Plant
    BY <1>6, IsrLatch DEF taskVars
<1>7. CASE UNCHANGED vars
    BY <1>7 DEF vars, taskVars, latchVars
<1> QED
    BY <1>1, <1>2, <1>3, <1>4, <1>5, <1>6, <1>7 DEF Next, Period

(* The latched set changes only where the code writes it.                  *)
LEMMA LatchedWrites ==
    [Next]_vars => \/ UNCHANGED latched
                   \/ RaiseStoreLatched
                   \/ Isr
                   \/ Clear
BY DEF Next, Period, FaultRaise, FaultEval, Tick, WdogService, Command, Plant,
   RaiseLoadActive, RaiseStoreActive, RaiseLoadLatched, RaiseRecord, EvalCompute, EvalStore,
   TickSettling, TickStart, TickSlow, TickBus, TickOvRequest, TickUnderVoltage,
   TickUvRequest, TickAdc, TickEncoder, TickDropLoad, TickDropStore, TickDropFastLoad,
   TickDropFastStore, RequestStop, WdogSkip, WdogWait, WdogLock, WdogReenable, WdogClearHit,
   TakeStopRequest, NextPeriod, InjectOn, InjectOff, SetPolicy, SetActionsEnable,
   CommTimeoutRaise, vars, latchVars

LEMMA TaskLatchStep ==
    ASSUME LatchInv, [Next]_vars
    PROVE  Clear \/ latched \cap TaskCodes \subseteq latched'
BY LatchedWrites, IsrLatch DEF LatchInv, RaiseStoreLatched

LEMMA LatchInvInvariant == Spec => []LatchInv
<1>1. Init => LatchInv
    BY DEF Init, LatchInv
<1> QED
    BY <1>1, LatchInvStep, TypeCorrect, PTL DEF Spec

(* A latch that only the task sets (over-voltage, under-voltage, frame     *)
(* loss, encoder, overload, CAN time-out) survives every interleaving with *)
(* the interrupts until an operator clears the faults.                     *)
THEOREM TaskLatchNeverLost == Spec => TaskLatchHeld
<1>1. LatchInv /\ [Next]_vars => [Clear \/ latched \cap TaskCodes \subseteq latched']_vars
    BY TaskLatchStep
<1> QED
    BY <1>1, LatchInvInvariant, PTL DEF Spec, TaskLatchHeld

-----------------------------------------------------------------------------
(***************************************************************************)
(* The watchdog budget.  A marked phase is disarmed, except between the    *)
(* re-enable and the clearing of the mark; hence a phase that is locked    *)
(* out was disarmed when it was locked and nothing arms it again.          *)
(***************************************************************************)
WdogInv ==
    /\ WdogBudget
    /\ \A p \in Phases : wdog_hit[p] /\ ~(pc = "wdog_hit" /\ ph = p) => ~armed[p]
    /\ pc = "wdog_hit" => ~wdog_locked[ph]

LEMMA WdogInit == Init => WdogInv
BY CountsAssumption DEF Init, WdogInv, WdogBudget

LEMMA WdogStep == TypeOK /\ WdogInv /\ [Next]_vars => WdogInv'
<1> SUFFICES ASSUME TypeOK, WdogInv, [Next]_vars PROVE WdogInv'
    OBVIOUS
<1> USE DEF WdogInv, WdogBudget
<1>1. CASE FaultRaise \/ FaultEval
    BY <1>1 DEF FaultRaise, FaultEval, RaiseLoadActive, RaiseStoreActive, RaiseLoadLatched,
       RaiseStoreLatched, RaiseRecord, EvalCompute, EvalStore, wdogVars,
       TypeOK, TypeTask, ReturnLabels
<1>2. CASE Tick
    BY <1>2, AfterPhaseInRange
    DEF Tick, TickSettling, TickStart, TickSlow, TickBus, TickOvRequest, TickUnderVoltage,
        TickUvRequest, TickAdc, TickEncoder, TickDropLoad, TickDropStore, TickDropFastLoad,
        TickDropFastStore, RequestStop, Goto, Raise, wdogVars, TypeOK, TypeTask
<1>3. CASE WdogService
    <2> USE DEF WdogPending, WdogNext, Goto, Raise
    <2>1. /\ ph \in Phases
          /\ \A next : AfterPhase("wdog", next)[1] \in {"wdog", next}
        BY AfterPhaseInRange DEF TypeOK, TypeTask
    <2>2. CASE WdogSkip
        BY <2>1, <2>2 DEF WdogSkip, wdogVars
    <2>3. CASE WdogWait
        BY <2>1, <2>3 DEF WdogWait
    <2>4. CASE WdogLock
        BY <2>1, <2>4 DEF WdogLock, TypeOK, TypeFlags, PhaseFlags
    <2>5. CASE WdogReenable
        <3>1. wdog_rearm_cnt' \in [Phases -> Nat] /\ \A p \in Phases : wdog_rearm_cnt'[p] <= RearmMax
            BY <2>1, <2>5, CountsAssumption DEF WdogReenable, RearmAllowed, TypeOK, TypeWdog
        <3> QED
            BY <2>1, <2>5, <3>1 DEF WdogReenable, TypeOK, TypeFlags, PhaseFlags
    <2>6. CASE WdogClearHit
        BY <2>1, <2>6 DEF WdogClearHit, TypeOK, TypeFlags, PhaseFlags
    <2> QED
        BY <1>3, <2>2, <2>3, <2>4, <2>5, <2>6 DEF WdogService
<1>4. CASE Clear
    BY <1>4, CountsAssumption DEF Clear, ResetAll, taskVars
<1>5. CASE (\E accepted \in BOOLEAN : TakeStopRequest(accepted)) \/ NextPeriod \/ (Command /\ ~Clear)
    BY <1>5 DEF TakeStopRequest, NextPeriod, Command, InjectOn, InjectOff, SetPolicy,
       SetActionsEnable, CommTimeoutRaise, Goto, Raise, Eval, wdogVars
<1>6. CASE Isr
    <2>1. CASE OnOcTrip
        BY <2>1 DEF OnOcTrip, wdogVars, taskVars
    <2>2. ASSUME NEW p \in FastPhases, OnWdog(p) PROVE WdogInv'
        BY <2>2, InputsAssumption DEF OnWdog, taskVars, TypeOK, TypeFlags, PhaseFlags
    <2> QED
        BY <1>6, <2>1, <2>2 DEF Isr
<1>7. CASE Plant
    BY <1>7 DEF Plant, wdogVars, taskVars
<1>8. CASE UNCHANGED vars
    BY <1>8 DEF vars, wdogVars, taskVars
<1> QED
    BY <1>1, <1>2, <1>3, <1>4, <1>5, <1>6, <1>7, <1>8 DEF Next, Period

(* No phase's watchdog is re-armed more often than the limit between two   *)
(* clears, and a phase locked out stays disarmed until the clear.          *)
THEOREM WdogBudgetHolds == Spec => []WdogBudget
<1>1. WdogInv => WdogBudget
    BY DEF WdogInv
<1> QED
    BY <1>1, WdogInit, WdogStep, TypeCorrect, PTL DEF Spec

-----------------------------------------------------------------------------
(***************************************************************************)
(* Stop requests.  The tick requests a stop only after it has latched the  *)
(* code itself, and such a latch is not lost.                              *)
(***************************************************************************)
StopInv ==
    /\ stop_request \in (latched \cap TaskCodes) \cup injected \cup {NoCode}
    /\ pc = "ov_request" => VbusOv \in latched
    /\ pc = "uv_request" => VbusUv \in latched
    /\ pc \in RaiseLabels => /\ ret = "ov_request" => arg = VbusOv
                             /\ ret = "uv_request" => arg = VbusUv
    /\ pc \in {"eval", "eval_store"} => ret \in {"wdog", "cmd"}

LEMMA BusCodesAreTaskCodes == VbusOv \in TaskCodes /\ VbusUv \in TaskCodes
BY DEF TaskCodes, IsrCodes, FastCodes, Codes, VbusOv, VbusUv, OcTrip, OcFast

LEMMA StopStep == TypeOK /\ LatchInv /\ StopInv /\ [Next]_vars => StopInv'
<1> SUFFICES ASSUME TypeOK, LatchInv, StopInv, [Next]_vars PROVE StopInv'
    OBVIOUS
<1>a. Clear \/ latched \cap TaskCodes \subseteq latched'
    BY TaskLatchStep
<1> USE BusCodesAreTaskCodes DEF StopInv, TypeOK, TypeTask, ReturnLabels, InnerLabels, RaiseLabels
<1>1. CASE FaultRaise
    BY <1>1, <1>a DEF FaultRaise, RaiseLoadActive, RaiseStoreActive, RaiseLoadLatched,
       RaiseStoreLatched, RaiseRecord, LatchInv, stopVars, policyVars, latchVars
<1>2. CASE FaultEval
    BY <1>2 DEF FaultEval, EvalCompute, EvalStore, latchVars, stopVars, policyVars
<1>3. CASE TickOvRequest \/ TickUvRequest
    BY <1>3 DEF TickOvRequest, TickUvRequest, RequestStop, Goto, latchVars, policyVars
<1>4. CASE Tick /\ ~TickOvRequest /\ ~TickUvRequest
    BY <1>4, AfterPhaseInRange
    DEF Tick, TickSettling, TickStart, TickSlow, TickBus, TickUnderVoltage, TickAdc, TickEncoder,
        TickDropLoad, TickDropStore, TickDropFastLoad, TickDropFastStore, Goto, Raise,
        latchVars, stopVars, policyVars
<1>5. CASE WdogService
    BY <1>5, AfterPhaseInRange
    DEF WdogService, WdogSkip, WdogWait, WdogLock, WdogReenable, WdogClearHit, WdogPending,
        WdogNext, Goto, Raise, latchVars, stopVars, policyVars
<1>6. CASE Clear
    BY <1>6 DEF Clear, ResetAll, taskVars
<1>7. CASE (\E accepted \in BOOLEAN : TakeStopRequest(accepted)) \/ NextPeriod \/ (Command /\ ~Clear)
    <2> USE DEF Goto, Raise, Eval, latchVars, stopVars, policyVars
    <2>1. ASSUME NEW accepted \in BOOLEAN, TakeStopRequest(accepted) PROVE StopInv'
        BY <2>1 DEF TakeStopRequest
    <2>2. CASE NextPeriod \/ CommTimeoutRaise
        BY <2>2 DEF NextPeriod, CommTimeoutRaise
    <2>3. ASSUME NEW c \in Injectable, InjectOn(c) PROVE StopInv'
        BY <2>3 DEF InjectOn
    <2>4. ASSUME NEW c \in Injectable, InjectOff(c) PROVE StopInv'
        BY <2>4 DEF InjectOff
    <2>5. ASSUME NEW e \in PolicyEdits, SetPolicy(e[1], e[2]) PROVE StopInv'
        BY <2>5 DEF SetPolicy
    <2>6. ASSUME NEW on \in BOOLEAN, SetActionsEnable(on) PROVE StopInv'
        BY <2>6 DEF SetActionsEnable
    <2> QED
        BY <1>7, <2>1, <2>2, <2>3, <2>4, <2>5, <2>6 DEF Command
<1>8. CASE Isr \/ Plant
    BY <1>8, IsrLatch DEF Isr, OnWdog, OnOcTrip, Plant, taskVars, stopVars, policyVars
<1>9. CASE UNCHANGED vars
    BY <1>9 DEF vars, latchVars, stopVars, policyVars, taskVars
<1> QED
    BY <1>1, <1>2, <1>3, <1>4, <1>5, <1>6, <1>7, <1>8, <1>9 DEF Next, Period

(* A pending controlled stop always has its reason on record: the code is  *)
(* latched or still injected.                                              *)
THEOREM StopRequestAlwaysBacked == Spec => []StopRequestBacked
<1>1. Init => StopInv
    BY DEF Init, StopInv, RaiseLabels
<1>2. StopInv => StopRequestBacked
    BY DEF StopInv, StopRequestBacked, EffectiveLatched
<1> QED
    BY <1>1, <1>2, StopStep, TypeCorrect, LatchInvInvariant, PTL DEF Spec

-----------------------------------------------------------------------------
(***************************************************************************)
(* Entry into FAULT.  A FAULT computed but not yet stored stays justified: *)
(* the interrupts that run before the store only add reasons.              *)
(***************************************************************************)
TripCalled == \E c \in Codes : Counts(c) /\ EffectiveAction(c) = TRIP

EntryInv == pc = "eval_store" /\ newState = "FAULT" => TripCalled

(* TRIP is the greatest action level.                                      *)
LEMMA ActionIsTrip == TypeOK => (ActionIs(TRIP) <=> TripCalled)
<1> SUFFICES ASSUME TypeOK PROVE ActionIs(TRIP) <=> TripCalled
    OBVIOUS
<1>1. \A c \in Codes : EffectiveAction(c) <= TRIP
    BY DEF TypeOK, TypePolicy, EffectiveAction, Actions, WARN, STOP, TRIP
<1> QED
    BY <1>1 DEF ActionIs, TripCalled, TRIP, WARN

(* More active or latched codes never withdraw a reason for TRIP.          *)
LEMMA TripMonotone ==
    ASSUME TripCalled, active \subseteq active', latched \subseteq latched',
           UNCHANGED <<policy, injected, stop_escalated, vbus_ov_trip>>
    PROVE  TripCalled'
BY DEF TripCalled, Counts, EffectiveAction, EffectiveActive, EffectiveLatched

(* Interrupts and the plant only add.                                      *)
LEMMA IsrMonotone ==
    (Isr \/ Plant) => /\ active \subseteq active' /\ latched \subseteq latched'
                      /\ UNCHANGED <<policy, injected, stop_escalated, vbus_ov_trip>>
                      /\ UNCHANGED taskVars
BY DEF Isr, OnWdog, OnOcTrip, RaiseAtOnce, Plant, latchVars, taskVars, policyVars, stopVars, ctxVars

LEMMA EntryStep == TypeOK /\ EntryInv /\ [Next]_vars => EntryInv'
<1> SUFFICES ASSUME TypeOK, EntryInv, [Next]_vars PROVE EntryInv'
    OBVIOUS
<1> USE DEF EntryInv, TypeOK, TypeTask, ReturnLabels, InnerLabels, RaiseLabels
<1>1. CASE EvalCompute
    <2>1. newState' = "FAULT" => TripCalled
        BY <1>1, ActionIsTrip DEF EvalCompute, EvalState
    <2> QED
        BY <1>1, <2>1, TripMonotone
        DEF EvalCompute, latchVars, policyVars, stopVars, ctxVars
<1>2. CASE Isr \/ Plant
    BY <1>2, IsrMonotone, TripMonotone DEF taskVars
<1>3. CASE Clear
    BY <1>3 DEF Clear, taskVars
<1>4. CASE UNCHANGED vars
    BY <1>4, TripMonotone DEF vars, taskVars, latchVars, policyVars, stopVars, ctxVars
<1>5. CASE FaultRaise \/ EvalStore
    BY <1>5 DEF FaultRaise, RaiseLoadActive, RaiseStoreActive, RaiseLoadLatched,
       RaiseStoreLatched, RaiseRecord, EvalStore
<1>6. CASE Tick
    BY <1>6, AfterPhaseInRange
    DEF Tick, TickSettling, TickStart, TickSlow, TickBus, TickOvRequest, TickUnderVoltage,
        TickUvRequest, TickAdc, TickEncoder, TickDropLoad, TickDropStore, TickDropFastLoad,
        TickDropFastStore, RequestStop, Goto, Raise
<1>7. CASE WdogService
    BY <1>7, AfterPhaseInRange
    DEF WdogService, WdogSkip, WdogWait, WdogLock, WdogReenable, WdogClearHit, WdogPending,
        WdogNext, Goto, Raise
<1>8. CASE (\E accepted \in BOOLEAN : TakeStopRequest(accepted)) \/ NextPeriod \/ (Command /\ ~Clear)
    BY <1>8 DEF TakeStopRequest, NextPeriod, Command, InjectOn, InjectOff, SetPolicy,
       SetActionsEnable, CommTimeoutRaise, Goto, Raise, Eval
<1> QED
    BY <1>1, <1>2, <1>3, <1>4, <1>5, <1>6, <1>7, <1>8 DEF Next, Period, FaultEval

(* The three places that write FAULT.                                      *)
LEMMA StateWrites ==
    ASSUME [Next]_vars, state # "FAULT", state' = "FAULT"
    PROVE  RaiseRecord \/ EvalStore \/ Isr
BY DEF Next, Period, FaultRaise, FaultEval, Tick, WdogService, Command, Plant,
   RaiseLoadActive, RaiseStoreActive, RaiseLoadLatched, RaiseStoreLatched, EvalCompute,
   TickSettling, TickStart, TickSlow, TickBus, TickOvRequest, TickUnderVoltage,
   TickUvRequest, TickAdc, TickEncoder, TickDropLoad, TickDropStore, TickDropFastLoad,
   TickDropFastStore, RequestStop, WdogSkip, WdogWait, WdogLock, WdogReenable, WdogClearHit,
   TakeStopRequest, NextPeriod, InjectOn, InjectOff, SetPolicy, SetActionsEnable, Clear, ResetAll,
   CommTimeoutRaise, vars, latchVars

LEMMA EntryJustifiedStep ==
    ASSUME TypeOK, TypeOK', LatchInv, EntryInv, [Next]_vars, state # "FAULT", state' = "FAULT"
    PROVE  ActionIs(TRIP)'
<1>1. TripCalled'
    <2>1. CASE RaiseRecord
        <3>1. arg \in Codes /\ arg \in latched /\ policy[arg] = TRIP
            BY <2>1 DEF RaiseRecord, GateOf, LatchInv, TypeOK, TypeTask, RaiseLabels
        <3> QED
            BY <2>1, <3>1 DEF RaiseRecord, TripCalled, Counts, EffectiveAction, EffectiveLatched,
               policyVars, stopVars, ctxVars, STOP, TRIP, DERATE
    <2>2. CASE EvalStore
        <3>1. TripCalled
            BY <2>2 DEF EvalStore, EntryInv
        <3> QED
            BY <2>2, <3>1, TripMonotone DEF EvalStore, policyVars, stopVars, ctxVars
    <2>3. CASE Isr
        <3>1. PICK c \in IsrCodes : RaiseAtOnce(c)
            BY <2>3, FastCodesAreIsrCodes, InputsAssumption DEF Isr, OnWdog, OnOcTrip, latchVars
        <3>2. c \in Codes /\ c \in latched' /\ policy[c] = TRIP /\ UNCHANGED policy
            BY <2>3, <3>1 DEF RaiseAtOnce, GateOf, Isr, OnWdog, OnOcTrip, policyVars, IsrCodes, Codes
        <3> QED
            BY <3>2 DEF TripCalled, Counts, EffectiveAction, EffectiveLatched, STOP, TRIP, DERATE
    <2> QED
        BY <2>1, <2>2, <2>3, StateWrites
<1> QED
    <2>1. (TypeOK => (ActionIs(TRIP) <=> TripCalled))'
        BY ActionIsTrip, PTL
    <2> QED
        BY <1>1, <2>1

(* The gate closes only while some fault calls for TRIP: neither a         *)
(* controlled stop nor a race of the task with an interrupt cuts the       *)
(* bridge without a reason on record.                                      *)
THEOREM FaultEntryAlwaysJustified == Spec => FaultEntryJustified
<1>1. Init => EntryInv
    BY DEF Init, EntryInv
<1>2. TypeOK /\ TypeOK' /\ LatchInv /\ EntryInv /\ [Next]_vars
         => [state # "FAULT" /\ state' = "FAULT" => ActionIs(TRIP)']_vars
    BY EntryJustifiedStep
<1> QED
    BY <1>1, <1>2, EntryStep, TypeCorrect, LatchInvInvariant, PTL DEF Spec, FaultEntryJustified

(***************************************************************************)
(* What holds whenever the io task of the fault manager is at rest, between *)
(* the evaluation that ends a tick and the next one.                        *)
(***************************************************************************)
RestLabels == {"tick", "wdog", "wdog_hit", "foc", "cmd"}

(* At rest, or in a call of fault_raise that was made from there.           *)
Resting == pc \in RestLabels \/ (pc \in RaiseLabels /\ ret \in RestLabels)

(* Where the subroutines are called from: the codes of the tick are raised  *)
(* by the tick alone, and only its end and the commands evaluate.  The set  *)
(* loaded before a store of the latches is never ahead of them.             *)
FlowInv ==
    /\ pc \in RaiseLabels /\ ret \in RestLabels => arg \notin TickCodes
    /\ pc \in {"eval", "eval_store"} => ret \in {"wdog", "cmd"}
    /\ pc = "raise_latched" => reg \subseteq latched

LEMMA RaisedAtRest == CommTimeout \notin TickCodes /\ \A p \in Phases : OcFast(p) \notin TickCodes
BY DEF TickCodes, TaskCodes, IsrCodes, FastCodes

LEMMA FlowStep == TypeOK /\ FlowInv /\ [Next]_vars => FlowInv'
<1> SUFFICES ASSUME TypeOK, FlowInv, [Next]_vars PROVE FlowInv'
    OBVIOUS
<1> USE DEF FlowInv, TypeOK, TypeTask, ReturnLabels, InnerLabels, RaiseLabels, RestLabels
<1>1. CASE FaultRaise
    BY <1>1 DEF FaultRaise, RaiseLoadActive, RaiseStoreActive, RaiseLoadLatched,
       RaiseStoreLatched, RaiseRecord, latchVars
<1>2. CASE FaultEval
    BY <1>2 DEF FaultEval, EvalCompute, EvalStore
<1>3. CASE Tick
    BY <1>3, AfterPhaseInRange
    DEF Tick, TickSettling, TickStart, TickSlow, TickBus, TickOvRequest, TickUnderVoltage,
        TickUvRequest, TickAdc, TickEncoder, TickDropLoad, TickDropStore, TickDropFastLoad,
        TickDropFastStore, RequestStop, Goto, Raise
<1>4. CASE WdogService
    BY <1>4, AfterPhaseInRange, RaisedAtRest
    DEF WdogService, WdogSkip, WdogWait, WdogLock, WdogReenable, WdogClearHit, WdogPending,
        WdogNext, Goto, Raise
<1>5. CASE (\E accepted \in BOOLEAN : TakeStopRequest(accepted)) \/ NextPeriod \/ Command
    BY <1>5, RaisedAtRest DEF TakeStopRequest, NextPeriod, Command, InjectOn, InjectOff, SetPolicy,
       SetActionsEnable, Clear, ResetAll, CommTimeoutRaise, Goto, Raise, Eval, taskVars
<1>6. CASE Isr \/ Plant
    BY <1>6, IsrLatch DEF taskVars
<1>7. CASE UNCHANGED vars
    BY <1>7 DEF vars, taskVars, latchVars
<1> QED
    BY <1>1, <1>2, <1>3, <1>4, <1>5, <1>6, <1>7 DEF Next, Period

-----------------------------------------------------------------------------
(***************************************************************************)
(* The gate.  The second over-voltage level, a refused stop and an edit of  *)
(* the policy raise the action of a code without raising the code; the      *)
(* evaluation that follows each of them catches up before the task rests.   *)
(***************************************************************************)
Watched == (latched \cap TickCodes) \cup injected

GateInv ==
    /\ Resting => \A c \in Watched : GateClosedFor(c)
    /\ pc = "eval_store" => \A c \in Watched : EffectiveAction(c) = TRIP => newState = "FAULT"

actionVars == <<policy, stop_escalated, vbus_ov_trip>>

LEMMA GateKept ==
    ASSUME \A c \in Watched : GateClosedFor(c), Watched' \subseteq Watched,
           UNCHANGED actionVars, state = "FAULT" => state' = "FAULT"
    PROVE  \A c \in Watched' : GateClosedFor(c)'
BY DEF GateClosedFor, EffectiveAction, actionVars

(* Evaluating sees every latched code that counts as TRIP.                  *)
LEMMA EvalSees ==
    ASSUME TypeOK, NEW c \in Watched, EffectiveAction(c) = TRIP, NEW p
    PROVE  EvalState(p) = "FAULT"
<1>1. c \in Codes /\ c \in EffectiveLatched
    BY DEF TypeOK, TypeLatch, TypePolicy, Watched, TickCodes, TaskCodes, EffectiveLatched
<1>2. policy[c] # DERATE
    BY DEF EffectiveAction, TRIP, DERATE, STOP
<1>3. TripCalled
    BY <1>1, <1>2 DEF TripCalled, Counts
<1> QED
    BY <1>3, ActionIsTrip DEF EvalState

(* fault_raise called at rest: it latches no code of the tick and never     *)
(* reopens the gate.                                                        *)
LEMMA RaiseGate ==
    ASSUME TypeOK, LatchInv, FlowInv, GateInv, FaultRaise
    PROVE  GateInv'
<1> USE DEF FaultRaise, RaiseLoadActive, RaiseStoreActive, RaiseLoadLatched,
       RaiseStoreLatched, RaiseRecord
<1>1. Resting' => Resting
    BY DEF Resting, RaiseLabels, RestLabels
<1>2. pc' # "eval_store"
    BY DEF TypeOK, TypeTask, ReturnLabels, RaiseLabels
<1>3. UNCHANGED actionVars
    BY DEF actionVars, ctxVars, stopVars, policyVars
<1>4. state = "FAULT" => state' = "FAULT"
    BY DEF latchVars, GateOf
<1>5. Resting => Watched' \subseteq Watched
    BY DEF Resting, Watched, FlowInv, RaiseLabels, RestLabels, latchVars, policyVars
<1> QED
    BY <1>1, <1>2, <1>3, <1>4, <1>5, GateKept DEF GateInv

LEMMA GateStep ==
    ASSUME TypeOK, LatchInv, FlowInv, GateInv, [Next]_vars
    PROVE  GateInv'
<1> USE DEF TypeOK, TypeTask, ReturnLabels, InnerLabels, RaiseLabels, RestLabels
<1>1. CASE FaultRaise
    BY <1>1, RaiseGate
<1>2. CASE EvalCompute
  <2>1. /\ pc' = "eval_store" /\ newState' = EvalState(pending)
        /\ UNCHANGED <<actionVars, latchVars, injected>>
      BY <1>2 DEF EvalCompute, actionVars, ctxVars, stopVars, policyVars
  <2>2. ~Resting'
      BY <2>1 DEF Resting
  <2>3. \A c \in Watched : EffectiveAction(c) = TRIP => EvalState(pending) = "FAULT"
      BY EvalSees
  <2> QED
      BY <2>1, <2>2, <2>3 DEF GateInv, Watched, EffectiveAction, actionVars, latchVars
<1>3. CASE EvalStore
    BY <1>3 DEF EvalStore, GateInv, Watched, GateClosedFor, EffectiveAction, FlowInv,
       ctxVars, stopVars, policyVars
<1>4. CASE Tick
  <2> USE DEF RequestStop, Goto, Raise
  <2>1. CASE TickSettling
    <3>1. Resting /\ pc' # "eval_store" /\ UNCHANGED <<actionVars, latchVars, injected>>
        BY <2>1 DEF TickSettling, Resting, actionVars, stopVars, policyVars
    <3> QED
        BY <3>1, GateKept DEF GateInv, Watched, latchVars
  <2>2. CASE Tick /\ ~TickSettling
    <3>1. ~Resting' /\ pc' # "eval_store"
        BY <2>2, AfterPhaseInRange
        DEF Tick, TickStart, TickSlow, TickBus, TickOvRequest, TickUnderVoltage,
        TickUvRequest, TickAdc, TickEncoder, TickDropLoad, TickDropStore, TickDropFastLoad,
        TickDropFastStore, Resting
    <3> QED
        BY <3>1 DEF GateInv
  <2> QED
      BY <1>4, <2>1, <2>2
<1>5. CASE WdogService
  <2>1. Resting /\ pc' # "eval_store" /\ UNCHANGED <<actionVars, latchVars, injected>>
      BY <1>5, AfterPhaseInRange
      DEF WdogService, WdogSkip, WdogWait, WdogLock, WdogReenable, WdogClearHit, WdogPending,
        WdogNext, Goto, Raise, Resting, actionVars, ctxVars, stopVars, policyVars
  <2> QED
      BY <2>1, GateKept DEF GateInv, Watched, latchVars
<1>6. CASE NextPeriod \/ CommTimeoutRaise
  <2>1. Resting /\ pc' # "eval_store" /\ UNCHANGED <<actionVars, latchVars, injected>>
      BY <1>6 DEF NextPeriod, CommTimeoutRaise, Goto, Raise, Resting, actionVars,
         ctxVars, stopVars, policyVars
  <2> QED
      BY <2>1, GateKept DEF GateInv, Watched, latchVars
<1>7. CASE \E accepted \in BOOLEAN : TakeStopRequest(accepted)
  <2>1. CASE pc' = "eval"
      BY <2>1 DEF GateInv, Resting
  <2>2. CASE pc' # "eval"
    <3>1. Resting /\ pc' # "eval_store" /\ UNCHANGED <<actionVars, latchVars, injected>>
        BY <1>7, <2>2 DEF TakeStopRequest, Goto, Eval, Resting, actionVars, ctxVars, policyVars
    <3> QED
        BY <3>1, GateKept DEF GateInv, Watched, latchVars
  <2> QED
      BY <2>1, <2>2
<1>8. CASE Clear
    BY <1>8 DEF Clear, ResetAll, GateInv, Watched, taskVars
<1>9. CASE Command /\ ~Clear /\ ~CommTimeoutRaise
  <2>1. pc' = "eval"
      BY <1>9 DEF Command, InjectOn, InjectOff, SetPolicy, SetActionsEnable, Eval
  <2> QED
      BY <2>1 DEF GateInv, Resting
<1>10. CASE Isr \/ Plant
  <2>1. /\ Watched' = Watched
        /\ UNCHANGED <<actionVars, taskVars>>
      BY <1>10, IsrLatch, IsrMonotone DEF Watched, actionVars, TickCodes
  <2>2. state = "FAULT" => state' = "FAULT"
      BY <1>10 DEF Isr, OnWdog, OnOcTrip, RaiseAtOnce, GateOf, Plant, latchVars
  <2>3. Resting => \A c \in Watched' : GateClosedFor(c)'
      BY <2>1, <2>2, GateKept DEF GateInv
  <2> QED
      BY <2>1, <2>3 DEF GateInv, Resting, taskVars, EffectiveAction, actionVars
<1>11. CASE UNCHANGED vars
    BY <1>11 DEF vars, GateInv, Resting, Watched, GateClosedFor, EffectiveAction,
       taskVars, latchVars, policyVars, stopVars, ctxVars
<1> QED
    BY <1>1, <1>2, <1>3, <1>4, <1>5, <1>6, <1>7, <1>8, <1>9, <1>10, <1>11
    DEF Next, Period, FaultEval

LEMMA FlowInvariant == Spec => []FlowInv
<1>1. Init => FlowInv
    BY DEF Init, FlowInv, RaiseLabels
<1> QED
    BY <1>1, FlowStep, TypeCorrect, PTL DEF Spec

(* Between two ticks the gate is closed for every fault of the tick and     *)
(* every injected one that counts as TRIP, also when only its action was    *)
(* raised: by the second over-voltage level, by a stop the FOC refused, by  *)
(* the action switch or a policy edit (app_fault.c:698).                    *)
THEOREM TripAlwaysGatesAtRest == Spec => []TripGatesAtRest
<1>1. Init => GateInv
    BY DEF Init, GateInv, Watched
<1>2. GateInv => TripGatesAtRest
    BY DEF GateInv, TripGatesAtRest, AtRest, Resting, RestLabels, Watched
<1>3. TypeOK /\ LatchInv /\ FlowInv /\ GateInv /\ [Next]_vars => GateInv'
    BY GateStep
<1> QED
    BY <1>1, <1>2, <1>3, TypeCorrect, LatchInvInvariant, FlowInvariant, PTL DEF Spec

-----------------------------------------------------------------------------
(***************************************************************************)
(* The active bits.  A tick that resets a debounce counter drops the bit    *)
(* some steps later, so until then a bit may stand for a counter at zero;   *)
(* at the overload phases this begins phase by phase.                       *)
(***************************************************************************)
MidLabels == {"vbus", "ov_request", "uv", "uv_request", "adc", "enc", "drop", "drop_store"}

(* Where the tick stands, a call of fault_raise counting as its return.     *)
Place == IF pc \in RaiseLabels THEN ret ELSE pc

Counted(p) == Place \in MidLabels \/ (Place = "slow" /\ p < ph)

(* fault_raise has still to set the bit of its argument.                    *)
Raising(c) == pc \in {"raise", "raise_active"} /\ arg = c

(* The active set loaded before a store differs from it at most by what an  *)
(* interrupt has raised since.                                             *)
HeldInv ==
    pc \in {"raise_active", "drop_store", "drop_fast_store"} =>
        \A c \in TaskCodes : c \in reg <=> c \in active

SlowInv ==
    \A p \in Phases :
        /\ oc_slow_cnt[p] >= SlowDebounce => OcSlow(p) \in active \/ Raising(OcSlow(p))
        /\ OcSlow(p) \in active => oc_slow_cnt[p] >= SlowDebounce
                                     \/ (oc_slow_cnt[p] = 0 /\ Counted(p))
        /\ Raising(OcSlow(p)) => oc_slow_cnt[p] >= SlowDebounce

BusInv ==
    Place \notin MidLabels =>
        /\ VbusOv \in active => vbus_ov_cnt > 0
        /\ VbusUv \in active => vbus_uv_cnt > 0
        /\ AdcTimeout \in active => adc_stall_cnt > 0

(* Who raises what: the overload loop its own codes, the bus and frame      *)
(* checks theirs.                                                          *)
CallInv ==
    pc \in RaiseLabels =>
        /\ ret = "slow" => arg \in SlowCodes
        /\ arg \in SlowCodes => ret \in {"slow", "vbus"}

TrackInv == HeldInv /\ SlowInv /\ BusInv /\ CallInv

LEMMA CodesApart ==
    /\ \A p, q \in Phases : OcSlow(p) = OcSlow(q) => p = q
    /\ \A p, q \in Phases : OcSlow(p) # OcFast(q)
    /\ \A p \in Phases : OcSlow(p) \in TaskCodes /\ OcFast(p) \notin TaskCodes
    /\ \A p \in Phases : OcSlow(p) \in TickCodes /\ OcSlow(p) \in SlowCodes
    /\ {VbusOv, VbusUv, AdcTimeout} \subseteq TickCodes
    /\ {VbusOv, VbusUv, AdcTimeout} \subseteq TaskCodes
    /\ {VbusOv, VbusUv, AdcTimeout, EncRead, CommTimeout} \cap SlowCodes = {}
    /\ \A p \in Phases : OcFast(p) \notin SlowCodes
<1>1. \A p \in Phases : OcSlow(p) \in SlowCodes /\ OcFast(p) \in FastCodes
    BY DEF SlowCodes, FastCodes
<1>2. SlowCodes \cap FastCodes = {} /\ OcTrip \notin SlowCodes
    BY DEF SlowCodes, FastCodes, OcSlow, OcFast, OcTrip
<1>3. {VbusOv, VbusUv, AdcTimeout, EncRead, CommTimeout} \cap SlowCodes = {}
    BY DEF SlowCodes, OcSlow, VbusOv, VbusUv, AdcTimeout, EncRead, CommTimeout
<1>4. {VbusOv, VbusUv, AdcTimeout} \cap FastCodes = {}
    BY DEF FastCodes, OcFast, VbusOv, VbusUv, AdcTimeout
<1>5. OcTrip \notin {VbusOv, VbusUv, AdcTimeout} /\ CommTimeout \notin {VbusOv, VbusUv, AdcTimeout}
    BY DEF OcTrip, CommTimeout, VbusOv, VbusUv, AdcTimeout
<1>6. \A p, q \in Phases : OcSlow(p) = OcSlow(q) => p = q
    BY DEF OcSlow
<1>7. SlowCodes \subseteq Codes /\ {VbusOv, VbusUv, AdcTimeout} \subseteq Codes
    BY DEF Codes
<1> QED
    BY <1>1, <1>2, <1>3, <1>4, <1>5, <1>6, <1>7 DEF TickCodes, TaskCodes, IsrCodes

(* A step that moves the task without touching counters or bits, from one   *)
(* place to an equivalent one.                                             *)
LEMMA TrackKept ==
    ASSUME SlowInv, BusInv, UNCHANGED <<oc_slow_cnt, vbus_ov_cnt, vbus_uv_cnt, adc_stall_cnt>>,
           \A c \in TaskCodes : c \in active' <=> c \in active,
           \A p \in Phases : Raising(OcSlow(p))' <=> Raising(OcSlow(p)),
           Place' \in MidLabels <=> Place \in MidLabels,
           \A p \in Phases : Counted(p) => Counted(p)'
    PROVE  SlowInv' /\ BusInv'
BY CodesApart DEF SlowInv, BusInv

LEMMA IsrActive ==
    (Isr \/ Plant) => /\ \A c \in TaskCodes : c \in active' <=> c \in active
                      /\ UNCHANGED <<taskVars, ctxVars>>
BY FastCodesAreIsrCodes, InputsAssumption
DEF Isr, OnWdog, OnOcTrip, RaiseAtOnce, Plant, latchVars, TaskCodes

LEMMA RaiseTracks ==
    ASSUME TypeOK, FlowInv, TrackInv, FaultRaise
    PROVE  TrackInv'
<1> USE DEF FaultRaise, RaiseLoadActive, RaiseStoreActive, RaiseLoadLatched,
       RaiseStoreLatched, RaiseRecord
<1>1. HeldInv' /\ CallInv'
    BY DEF TypeOK, TypeTask, ReturnLabels, RaiseLabels, TrackInv, HeldInv, CallInv, latchVars
<1>2. /\ Place' = Place /\ UNCHANGED ph /\ \A p \in Phases : Counted(p)' = Counted(p)
      /\ UNCHANGED <<oc_slow_cnt, vbus_ov_cnt, vbus_uv_cnt, adc_stall_cnt>>
    BY DEF TypeOK, TypeTask, ReturnLabels, RaiseLabels, Place, Counted, ctxVars
<1>3. CASE RaiseStoreActive
  <2>1. /\ arg \in Codes /\ \A c \in TaskCodes : c \in active' <=> c \in active \/ c = arg
        /\ Raising(arg)
      BY <1>3 DEF TypeOK, TypeTask, RaiseLabels, TrackInv, HeldInv, Raising
  <2>2. \A p \in Phases : ~Raising(OcSlow(p))' /\ (Raising(OcSlow(p)) <=> arg = OcSlow(p))
      BY <1>3 DEF Raising
  <2>3. SlowInv'
      BY <1>2, <2>1, <2>2, CodesApart DEF TrackInv, SlowInv
  <2>4. Place \notin MidLabels => arg \notin {VbusOv, VbusUv, AdcTimeout}
    <3>1. pc \in RaiseLabels /\ Place = ret
        BY <1>3 DEF Place, RaiseLabels
    <3>2. ret \in RestLabels => arg \notin TickCodes
        BY <3>1 DEF FlowInv
    <3>3. ret = "slow" => arg \in SlowCodes
        BY <3>1 DEF TrackInv, CallInv
    <3> QED
        BY <3>1, <3>2, <3>3, CodesApart DEF TypeOK, TypeTask, ReturnLabels, RestLabels, MidLabels
  <2>5. BusInv'
      BY <1>2, <2>1, <2>4, CodesApart DEF TrackInv, BusInv
  <2> QED
      BY <1>1, <2>3, <2>5 DEF TrackInv
<1>4. CASE ~RaiseStoreActive
  <2>1. UNCHANGED active /\ \A p \in Phases : Raising(OcSlow(p))' <=> Raising(OcSlow(p))
      BY <1>4 DEF Raising, latchVars, TypeOK, TypeTask, ReturnLabels
  <2>2. SlowInv' /\ BusInv'
      BY <1>2, <2>1, TrackKept DEF TrackInv
  <2> QED
      BY <1>1, <2>2 DEF TrackInv
<1> QED
    BY <1>3, <1>4

(* Counting a phase: its bit is in step before, and after it either the     *)
(* counter has reached the threshold or it stands at zero.                  *)
LEMMA SlowTracks ==
    ASSUME TypeOK, TrackInv, TickSlow
    PROVE  TrackInv'
<1> DEFINE n == IF ph \in slowOver THEN Bump(oc_slow_cnt[ph], SlowDebounce) ELSE 0
<1>1. /\ pc = "slow" /\ ph \in Phases /\ Place = "slow"
      /\ oc_slow_cnt' = [oc_slow_cnt EXCEPT ![ph] = n]
      /\ UNCHANGED <<active, vbus_ov_cnt, vbus_uv_cnt, adc_stall_cnt>>
    BY DEF TickSlow, TypeOK, TypeTask, Place, RaiseLabels, latchVars
<1>2. /\ oc_slow_cnt'[ph] = n /\ \A p \in Phases \ {ph} : oc_slow_cnt'[p] = oc_slow_cnt[p]
      /\ oc_slow_cnt[ph] \in Nat /\ SlowDebounce \in Nat \ {0}
    BY <1>1, CountsAssumption DEF TypeOK, TypeCounters
<1>3. /\ (Place' = "slow" /\ ph' = ph + 1) \/ Place' = "vbus"
      /\ pc' \notin {"raise_active", "drop_store", "drop_fast_store"}
    BY <1>1 DEF TickSlow, Raise, AfterPhase, Place, RaiseLabels
<1>4. IF n >= SlowDebounce THEN pc' = "raise" /\ arg' = OcSlow(ph)
                           ELSE pc' \in {"slow", "vbus"}
    <2>1. n \in Nat
        BY <1>2 DEF Bump
    <2> QED
        BY <1>1, <1>2, <2>1 DEF TickSlow, Raise, AfterPhase
<1>5. oc_slow_cnt[ph] >= SlowDebounce => n >= SlowDebounce \/ n = 0
    BY <1>2 DEF Bump
<1>6. /\ OcSlow(ph) \in active <=> oc_slow_cnt[ph] >= SlowDebounce
      /\ \A p \in Phases : ~Raising(OcSlow(p))
    BY <1>1 DEF TrackInv, SlowInv, Counted, Raising, MidLabels, Phases
<1>7. \A p \in Phases : (Counted(p) \/ p = ph) => Counted(p)'
    BY <1>1, <1>3 DEF Counted, MidLabels, Phases
<1>8. \A p \in Phases : Raising(OcSlow(p))' <=> p = ph /\ n >= SlowDebounce
    BY <1>1, <1>4, CodesApart DEF Raising
<1>9. SlowInv'
  <2> SUFFICES ASSUME NEW p \in Phases
               PROVE  /\ oc_slow_cnt'[p] >= SlowDebounce => OcSlow(p) \in active \/ Raising(OcSlow(p))'
                      /\ OcSlow(p) \in active => oc_slow_cnt'[p] >= SlowDebounce
                                                   \/ (oc_slow_cnt'[p] = 0 /\ Counted(p)')
                      /\ Raising(OcSlow(p))' => oc_slow_cnt'[p] >= SlowDebounce
      BY <1>1 DEF SlowInv, Raising, Counted, Place
  <2>1. CASE p = ph
      BY <1>2, <1>5, <1>6, <1>7, <1>8, <2>1
  <2>2. CASE p # ph
      BY <1>2, <1>6, <1>7, <1>8, <2>2 DEF TrackInv, SlowInv
  <2> QED
      BY <2>1, <2>2
<1>10. HeldInv'
    BY <1>3 DEF HeldInv
<1>11. CallInv'
    BY <1>1, <1>4, CodesApart DEF TickSlow, Raise, AfterPhase, CallInv, RaiseLabels
<1>12. BusInv'
    BY <1>1 DEF BusInv, TrackInv, MidLabels
<1> QED
    BY <1>9, <1>10, <1>11, <1>12 DEF TrackInv

(* From the bus checks to the drop the bits are left alone.                 *)
LEMMA MidTracks ==
    ASSUME TypeOK, TrackInv,
           \/ TickBus \/ TickOvRequest \/ TickUvRequest \/ TickUnderVoltage
           \/ (\E fresh \in FrameFlags : TickAdc(fresh))
           \/ (\E burst \in EncFlags : TickEncoder(burst))
           \/ TickDropLoad
    PROVE  TrackInv'
<1> USE DEF TickBus, TickOvRequest, TickUvRequest, TickUnderVoltage, TickAdc, TickEncoder,
            TickDropLoad, RequestStop, Goto, Raise
<1>1. Place \in MidLabels /\ Place' \in MidLabels
    BY DEF Place, MidLabels, RaiseLabels
<1>2. UNCHANGED <<oc_slow_cnt, active>>
    BY DEF latchVars, ctxVars
<1>3. HeldInv'
    BY DEF HeldInv, latchVars
<1>4. CallInv'
    BY CodesApart DEF CallInv, RaiseLabels
<1>5. \A p \in Phases : ~Raising(OcSlow(p)) /\ ~Raising(OcSlow(p))'
    BY CodesApart DEF Raising
<1>6. SlowInv'
    BY <1>1, <1>2, <1>5 DEF TrackInv, SlowInv, Counted
<1> QED
    BY <1>1, <1>3, <1>4, <1>6 DEF TrackInv, BusInv

(* The drop puts every bit back in step with its counter.                   *)
LEMMA DropTracks ==
    ASSUME TypeOK, TrackInv, TickDropStore
    PROVE  TrackInv'
<1>1. /\ pc = "drop_store" /\ pc' = "drop_fast" /\ active' = reg \ Recovered
      /\ UNCHANGED <<oc_slow_cnt, vbus_ov_cnt, vbus_uv_cnt, adc_stall_cnt>>
    BY DEF TickDropStore, ctxVars
<1>2. \A c \in TaskCodes : c \in active' <=> c \in active /\ c \notin Recovered
    BY <1>1 DEF TrackInv, HeldInv
<1>3. \A p \in Phases : OcSlow(p) \in Recovered <=> oc_slow_cnt[p] = 0
  <2> SUFFICES ASSUME NEW p \in Phases
               PROVE  OcSlow(p) \in Recovered <=> oc_slow_cnt[p] = 0
      OBVIOUS
  <2>1. OcSlow(p) \notin {VbusOv, VbusUv, AdcTimeout}
      BY CodesApart
  <2> QED
      BY <2>1, CodesApart DEF Recovered
<1>4. /\ vbus_ov_cnt = 0 => VbusOv \in Recovered
      /\ vbus_uv_cnt = 0 => VbusUv \in Recovered
      /\ adc_stall_cnt = 0 => AdcTimeout \in Recovered
    BY DEF Recovered
<1>5. /\ SlowDebounce \in Nat \ {0} /\ \A p \in Phases : oc_slow_cnt[p] \in Nat
      /\ vbus_ov_cnt \in Nat /\ vbus_uv_cnt \in Nat /\ adc_stall_cnt \in Nat
    BY CountsAssumption DEF TypeOK, TypeCounters
<1>6. \A p \in Phases : ~Raising(OcSlow(p)) /\ ~Raising(OcSlow(p))'
    BY <1>1 DEF Raising
<1>7. SlowInv'
  <2>1. \A p \in Phases : oc_slow_cnt[p] >= SlowDebounce <=> OcSlow(p) \in active'
      BY <1>2, <1>3, <1>5, <1>6, CodesApart DEF TrackInv, SlowInv
  <2> QED
      BY <1>1, <1>6, <2>1 DEF SlowInv
<1>8. BusInv'
    BY <1>1, <1>2, <1>4, <1>5, CodesApart DEF BusInv
<1> QED
    BY <1>1, <1>7, <1>8 DEF TrackInv, HeldInv, CallInv, RaiseLabels

(* What is left of a tick, and the settling one.                            *)
LEMMA TickEdgeTracks ==
    ASSUME TypeOK, TrackInv, TickSettling \/ TickStart \/ TickDropFastLoad \/ TickDropFastStore
    PROVE  TrackInv'
<1> USE DEF TickSettling, TickStart, TickDropFastLoad, TickDropFastStore, Goto
<1>1. /\ pc \in {"tick", "drop_fast", "drop_fast_store"}
      /\ pc' \in {"slow", "wdog", "drop_fast", "drop_fast_store", "eval"}
    BY DEF AfterPhase
<1>2. \A c \in TaskCodes : c \in active' <=> c \in active
  <2>1. CASE TickDropFastStore
      BY <2>1, CodesApart DEF TypeOK, TypeTask, TrackInv, HeldInv
  <2>2. CASE ~TickDropFastStore
      BY <2>2 DEF latchVars
  <2> QED
      BY <2>1, <2>2
<1>3. UNCHANGED <<oc_slow_cnt, vbus_ov_cnt, vbus_uv_cnt, adc_stall_cnt>>
    BY DEF ctxVars
<1>4. \A p \in Phases : ~Raising(OcSlow(p)) /\ ~Raising(OcSlow(p))'
    BY <1>1 DEF Raising
<1>5. /\ Place \notin MidLabels /\ Place' \notin MidLabels
      /\ \A p \in Phases : ~Counted(p)
    BY <1>1 DEF Place, MidLabels, RaiseLabels, Counted
<1>6. SlowInv' /\ BusInv'
    BY <1>2, <1>3, <1>4, <1>5, TrackKept DEF TrackInv
<1>7. HeldInv'
    BY DEF HeldInv, AfterPhase, latchVars
<1> QED
    BY <1>1, <1>6, <1>7 DEF TrackInv, CallInv, RaiseLabels

(* The services, the commands and the end of a period.                      *)
LEMMA ServiceTracks ==
    ASSUME TypeOK, FlowInv, TrackInv,
           \/ FaultEval \/ WdogService \/ NextPeriod \/ (Command /\ ~Clear)
           \/ (\E accepted \in BOOLEAN : TakeStopRequest(accepted))
    PROVE  TrackInv'
<1> USE DEF FaultEval, EvalCompute, EvalStore, WdogService, WdogSkip, WdogWait, WdogLock,
            WdogReenable, WdogClearHit, WdogPending, WdogNext, TakeStopRequest, NextPeriod,
            Command, InjectOn, InjectOff, SetPolicy, SetActionsEnable, CommTimeoutRaise,
            Goto, Raise, Eval
<1>1. UNCHANGED <<active, oc_slow_cnt, vbus_ov_cnt, vbus_uv_cnt, adc_stall_cnt>>
    BY DEF latchVars, ctxVars
<1>2. /\ pc \in RestLabels \cup {"eval", "eval_store"}
      /\ \/ pc' \in RestLabels \cup {"eval", "eval_store"}
         \/ pc' = "raise" /\ ret' \in RestLabels /\ arg' \notin TickCodes
    BY AfterPhaseInRange, RaisedAtRest DEF FlowInv, RestLabels, TypeOK, TypeTask
<1>3. /\ \A p \in Phases : ~Raising(OcSlow(p)) /\ ~Raising(OcSlow(p))'
      /\ \A p \in Phases : ~Counted(p)
    BY <1>2, CodesApart DEF Raising, Counted, Place, MidLabels, RestLabels, RaiseLabels
<1>4. Place \notin MidLabels /\ Place' \notin MidLabels
    BY <1>2 DEF Place, MidLabels, RestLabels, RaiseLabels
<1>5. SlowInv' /\ BusInv'
    BY <1>1, <1>3, <1>4, TrackKept DEF TrackInv
<1>6. \A c \in SlowCodes : c \in TickCodes
    BY CodesApart DEF SlowCodes
<1> QED
    BY <1>2, <1>5, <1>6 DEF TrackInv, HeldInv, CallInv, RaiseLabels, RestLabels

LEMMA ClearTracks ==
    ASSUME TypeOK, TrackInv, Clear
    PROVE  TrackInv'
BY CountsAssumption
DEF Clear, ResetAll, TrackInv, HeldInv, SlowInv, BusInv, CallInv, Raising, RaiseLabels, taskVars

LEMMA BesideTracks ==
    ASSUME TrackInv, Isr \/ Plant \/ UNCHANGED vars
    PROVE  TrackInv'
<1>1. /\ \A c \in TaskCodes : c \in active' <=> c \in active
      /\ UNCHANGED <<taskVars, ctxVars>>
    BY IsrActive DEF vars, latchVars
<1>2. SlowInv' /\ BusInv'
    BY <1>1, TrackKept DEF TrackInv, Raising, Place, Counted, taskVars, ctxVars
<1> QED
    BY <1>1, <1>2 DEF TrackInv, HeldInv, CallInv, taskVars

LEMMA TrackStep == TypeOK /\ FlowInv /\ TrackInv /\ [Next]_vars => TrackInv'
<1> SUFFICES ASSUME TypeOK, FlowInv, TrackInv, [Next]_vars PROVE TrackInv'
    OBVIOUS
<1>1. CASE Tick
    BY <1>1, SlowTracks, MidTracks, DropTracks, TickEdgeTracks DEF Tick
<1>2. CASE Period /\ ~Tick
    BY <1>2, RaiseTracks, ServiceTracks DEF Period
<1>3. CASE Command
    BY <1>3, ServiceTracks, ClearTracks
<1>4. CASE Isr \/ Plant \/ UNCHANGED vars
    BY <1>4, BesideTracks
<1> QED
    BY <1>1, <1>2, <1>3, <1>4 DEF Next, Period

(* Between two ticks the overload bits, which drive the derating, are set   *)
(* exactly while the debounced overload lasts, and no bus or frame bit      *)
(* outlives its condition, whatever interrupts raise between the load and   *)
(* the store of the drop (app_fault.c:519).                                 *)
THEOREM ActiveAlwaysTracks == Spec => []ActiveTracksCondition
<1>1. Init => TrackInv
    BY CountsAssumption
    DEF Init, TrackInv, HeldInv, SlowInv, BusInv, CallInv, Raising, RaiseLabels
<1>2. TrackInv => ActiveTracksCondition
  <2> SUFFICES ASSUME TrackInv, AtRest PROVE ActiveTracksCondition
      BY DEF ActiveTracksCondition
  <2>1. Place \notin MidLabels \cup {"slow"} /\ \A c : ~Raising(c)
      BY DEF AtRest, Place, MidLabels, RaiseLabels, Raising
  <2> QED
      BY <2>1 DEF TrackInv, SlowInv, BusInv, Counted, ActiveTracksCondition
<1> QED
    BY <1>1, <1>2, TrackStep, TypeCorrect, FlowInvariant, PTL DEF Spec
=============================================================================
