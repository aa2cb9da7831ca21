---------------------------- MODULE MotionControl ----------------------------
(***************************************************************************)
(* The motion controller, App/Control/Src/app_motion.c, on top of the      *)
(* current authority of app_foc.c, with the switches of the compensation   *)
(* tables in app_cogging.c.                                                *)
(*                                                                         *)
(* app_motion_step runs every 15 kHz tick in its interrupt; commands come   *)
(* from the io task and hold off the interrupts.  A tick sees a frame: the *)
(* matched pair of encoders, the rotor alone, or neither (which stands for *)
(* a duplicate or malformed sample too).  The two angles decode to a turn   *)
(* of the rotor within the turn of the output shaft or they mismatch; the   *)
(* torque law is abstracted to whether it asks for current.                 *)
(***************************************************************************)
EXTENDS CurrentAuthority

CONSTANTS
    HoldMax,        \* APP_MOTION_HOLD_MAX_SAMPLES (300)
    ZohMax,         \* APP_MOTION_HOLD_ZOH_SAMPLES (3)
    FallbackMax,    \* APP_MOTION_VERNIER_FALLBACK_MAX_SAMPLES (7500)
    CalSamples,     \* samples a calibration averages (1000)
    Modes,          \* modes commanded, a subset of AllModes
    Tables          \* compensation tables stored, a subset of {"rotor", "output"}

AllModes == {"TORQUE", "SPEED", "POSITION", "MIT"}

ASSUME MotionAssumption ==
    /\ HoldMax \in Nat /\ ZohMax \in 1 .. HoldMax
    /\ FallbackMax \in Nat /\ CalSamples \in Nat \ {0}
    /\ Modes \subseteq AllModes
    /\ Tables \subseteq {"rotor", "output"}

VARIABLES
    active, mode, iq_a, s_hold_samples,
    feedback_age,   \* beats since fresh feedback was published, Limit + 1 when none is
    s_vernier_fallback_samples, s_have_nearest,
    calibrating, calibration_samples, calibration_done, calibrated, \* samples while calibrating
    cogging_on, s_output_angle_valid, s_motion_active, \* the angle while active
    blind,          \* ticks since the feedback was last accepted
    withdrawn       \* beats since a command was last active

outputVars == <<active, mode, iq_a, s_hold_samples, s_output_angle_valid, s_motion_active,
                withdrawn>>
decodeVars == <<s_vernier_fallback_samples, s_have_nearest>>
calibrationVars == <<calibrating, calibration_samples, calibration_done, calibrated>>
motionVars == <<outputVars, decodeVars, calibrationVars, feedback_age, cogging_on, blind>>
vars == <<authorityVars, motionVars>>

Frames == {"pair", "rotor", "none"}
BlindCap == ZohMax + 1

TypeOK ==
    /\ AuthorityTypeOK
    /\ active \in BOOLEAN /\ mode \in AllModes \cup {"NONE"} /\ iq_a \in Amps
    /\ s_hold_samples \in 0 .. HoldMax
    /\ feedback_age \in 0 .. Limit + 1
    /\ s_vernier_fallback_samples \in 0 .. FallbackMax + 1 /\ s_have_nearest \in BOOLEAN
    /\ calibrating \in BOOLEAN /\ calibration_samples \in 0 .. CalSamples
    /\ calibration_done \in BOOLEAN /\ calibrated \in BOOLEAN
    /\ cogging_on \subseteq Tables /\ s_output_angle_valid \in BOOLEAN
    /\ s_motion_active \in BOOLEAN
    /\ blind \in 0 .. BlindCap /\ withdrawn \in 0 .. Limit + 1

(* app_motion_init: the calibration record is there or not.                *)
Init ==
    /\ AuthorityInit
    /\ active = FALSE /\ mode = "NONE" /\ iq_a = 0 /\ s_hold_samples = 0
    /\ feedback_age = Limit + 1
    /\ s_vernier_fallback_samples = 0 /\ s_have_nearest = FALSE
    /\ calibrating = FALSE /\ calibration_samples = 0 /\ calibration_done = FALSE
    /\ calibrated \in BOOLEAN
    /\ cogging_on = {} /\ s_output_angle_valid = FALSE /\ s_motion_active = FALSE
    /\ blind = BlindCap /\ withdrawn = Limit + 1

(***************************************************************************)
(* Withdrawing the output.                                                 *)
(***************************************************************************)
(* motion_clear_output.  The mode of a command matters while it is active. *)
ClearOutput ==
    /\ active' = FALSE /\ mode' = "NONE" /\ iq_a' = 0 /\ s_hold_samples' = 0
    /\ s_output_angle_valid' = FALSE /\ s_motion_active' = FALSE
    /\ withdrawn' = IF active THEN 0 ELSE withdrawn

NoFeedback == feedback_age' = Limit + 1

(* motion_abort: an active command also asks for zero current.             *)
Abort ==
    /\ NoFeedback /\ calibrating' = FALSE
    /\ ClearOutput
    /\ IF active THEN SubmitCurrent(0) ELSE UNCHANGED authorityVars
    /\ calibration_samples' = 0 /\ UNCHANGED <<calibration_done, calibrated>>

Holdable(reason) == reason \in {"SAMPLE", "VERNIER", "TIMING"}

(* motion_reject: for ZohMax ticks the last current is sent again, then     *)
(* zero until HoldMax, then the command is aborted.                         *)
HoldsOn == iq_a
HeldCurrent == IF s_hold_samples < ZohMax THEN iq_a ELSE 0

HoldKeepsCommand ==
    /\ NoFeedback
    /\ SubmitCurrent(HeldCurrent)
    /\ s_hold_samples' = s_hold_samples + 1 /\ iq_a' = HeldCurrent
    /\ UNCHANGED <<active, mode, withdrawn, s_output_angle_valid, s_motion_active,
                   calibrationVars>>

Hold ==
    LET amp == HeldCurrent IN
    /\ NoFeedback
    /\ SubmitCurrent(amp)
    /\ IF MaySubmit
       THEN /\ s_hold_samples' = s_hold_samples + 1 /\ iq_a' = amp
            /\ s_output_angle_valid' = (s_output_angle_valid /\ s_hold_samples < ZohMax)
            /\ s_motion_active' = (s_motion_active /\ s_hold_samples < ZohMax)
            /\ UNCHANGED <<active, mode, withdrawn>>
       ELSE ClearOutput
    /\ UNCHANGED <<calibrationVars>>

Reject(reason) ==
    /\ IF active /\ Holdable(reason) /\ s_hold_samples < HoldMax THEN Hold ELSE Abort
    /\ blind' = IF blind < BlindCap THEN blind + 1 ELSE blind

(***************************************************************************)
(* The tick: app_motion_step.                                              *)
(***************************************************************************)
CoggingOutputRequired == "output" \in cogging_on

(* Whether this tick reads the rotor alone, and whether it may not do       *)
(* without the pair.  `tracking' and `report' are the windows that the      *)
(* compensation identification and the CAN report open.                     *)
RotorOnly(tracking, report) ==
    active /\ ~calibrating /\ mode \in {"TORQUE", "SPEED"}
           /\ ~tracking /\ ~CoggingOutputRequired /\ ~report
NeedPair(tracking, report) ==
    calibrating \/ report
    \/ (active /\ (mode \in {"POSITION", "MIT"} \/ tracking \/ CoggingOutputRequired))

Usable(frame, tracking, report) ==
    \/ frame = "pair"
    \/ frame = "rotor" /\ ~NeedPair(tracking, report)

(* A tick of the calibration: it ends when the stage is enabled or the      *)
(* shaft moves, waits for the shaft to settle, and averages.                *)
CalibrationTick ==
    /\ \/ /\ s_state # "OFF" /\ calibrating' = FALSE /\ calibration_samples' = 0
          /\ UNCHANGED calibration_done
       \/ /\ s_state = "OFF"
          /\ \/ UNCHANGED <<calibrating, calibration_samples, calibration_done>>
             \/ /\ calibrating' = FALSE /\ calibration_samples' = 0
                /\ UNCHANGED calibration_done
             \/ /\ calibration_samples + 1 < CalSamples
                /\ calibration_samples' = calibration_samples + 1
                /\ UNCHANGED <<calibrating, calibration_done>>
             \/ /\ calibration_samples + 1 = CalSamples
                /\ calibration_samples' = 0
                /\ calibration_done' = TRUE /\ calibrating' = FALSE
    /\ UNCHANGED <<authorityVars, outputVars, decodeVars, calibrated, feedback_age,
                   cogging_on, blind>>

FallbackUnbounded == s_have_nearest
FallbackOK == s_have_nearest /\ s_vernier_fallback_samples < FallbackMax

(* What a tick makes of the pair: a decoding fixes the turn; a mismatch is  *)
(* bridged with the last turn for FallbackMax ticks; then it is fatal where *)
(* the angle is the feedback, and elsewhere the angle is just not valid.    *)
Bridge == s_vernier_fallback_samples' = s_vernier_fallback_samples + 1
          /\ UNCHANGED s_have_nearest
GiveUp == s_vernier_fallback_samples' = FallbackMax /\ UNCHANGED s_have_nearest
AngleIsFeedback(tracking) == active /\ (mode = "POSITION" \/ tracking)

Decoded == s_vernier_fallback_samples' = 0 /\ s_have_nearest' = TRUE

(* The accepted tick publishes its feedback.                               *)
Publish == feedback_age' = 0 /\ blind' = 0 /\ UNCHANGED calibrationVars

AuthorityLost == ~s_epoch_newest \/ s_stop_pending \/ s_state \notin Normal

(* The tick went well: what is submitted.                                  *)
Drive(valid) ==
    \/ /\ ~active
       /\ s_hold_samples' = 0 /\ s_output_angle_valid' = FALSE /\ s_motion_active' = FALSE
       /\ UNCHANGED <<active, mode, iq_a, withdrawn, authorityVars>>
    \/ /\ active /\ AuthorityLost
       /\ ClearOutput /\ UNCHANGED authorityVars
    \/ \* the gains of an impedance command are out of range: nothing is submitted
       /\ active /\ ~AuthorityLost /\ mode = "MIT"
       /\ ClearOutput /\ UNCHANGED authorityVars
    \/ /\ active /\ ~AuthorityLost
       /\ \E amp \in Amps :
            /\ SubmitCurrent(amp)
            /\ IF MaySubmit
               THEN /\ iq_a' = amp /\ s_hold_samples' = 0
                    /\ s_output_angle_valid' = valid /\ s_motion_active' = TRUE
                    /\ UNCHANGED <<active, mode, withdrawn>>
               ELSE ClearOutput

(* After the angle is settled: a parameter that changed under the command   *)
(* aborts it, a tick that came late is held, and else the tick is good.     *)
Settle(valid) ==
    \/ Reject("PARAMETER")
    \/ active /\ s_hold_samples = 0 /\ Reject("TIMING")
    \/ Publish /\ Drive(valid)

PairTick(tracking) ==
    \/ Decoded /\ Settle(TRUE)
    \/ FallbackOK /\ Bridge /\ Settle(TRUE)
    \/ /\ ~FallbackOK /\ AngleIsFeedback(tracking)
       /\ s_vernier_fallback_samples' =
            IF s_have_nearest THEN FallbackMax + 1 ELSE s_vernier_fallback_samples
       /\ UNCHANGED s_have_nearest
       /\ Reject("VERNIER")
    \/ /\ ~FallbackOK /\ ~AngleIsFeedback(tracking)
       /\ GiveUp /\ Settle(FALSE)

Tick ==
    \E frame \in Frames, tracking, report \in BOOLEAN :
        LET pairOK == frame = "pair" /\ ~RotorOnly(tracking, report)
            usable == frame # "none" /\ (RotorOnly(tracking, report)
                                         \/ Usable(frame, tracking, report))
        IN  \/ /\ ~usable
               /\ Reject("SAMPLE")
               /\ UNCHANGED <<decodeVars, cogging_on>>
            \/ \* parameters that make no sense
               /\ usable /\ Reject("PARAMETER")
               /\ UNCHANGED <<decodeVars, cogging_on>>
            \/ usable /\ calibrating /\ CalibrationTick
            \/ /\ usable /\ ~calibrating /\ ~calibrated
               /\ NoFeedback
               /\ UNCHANGED <<authorityVars, outputVars, decodeVars, calibrationVars,
                              cogging_on, blind>>
            \/ /\ usable /\ ~calibrating /\ calibrated
               /\ IF pairOK THEN PairTick(tracking)
                  ELSE UNCHANGED decodeVars /\ Settle(FALSE)
               /\ UNCHANGED cogging_on

(***************************************************************************)
(* Commands of the io task.                                                *)
(***************************************************************************)
FeedbackFresh == feedback_age <= Limit

CommandAllowed(m) ==
    /\ pc = "idle" /\ calibrated /\ ~calibrating /\ FeedbackFresh
    /\ ~s_stop_pending /\ s_state \in Normal
    /\ active => mode = m

Authorised == active \/ (s_current_source = "MOTION" /\ s_epoch_newest)

(* motion_command_ex and app_motion_mit: the current source is claimed when *)
(* the claim that is held is void.                                          *)
Acquire == IF Authorised THEN UNCHANGED authorityVars ELSE SetCurrentSource("MOTION", TRUE)

Command(m) ==
    /\ CommandAllowed(m) /\ Acquire
    /\ active' = TRUE /\ mode' = m /\ withdrawn' = 0
    /\ UNCHANGED <<iq_a, s_hold_samples, s_output_angle_valid, s_motion_active, decodeVars,
                   calibrationVars, feedback_age, cogging_on, blind>>

(* A position command with a speed limit is refused after the source was    *)
(* claimed when no trajectory is configured.                                *)
CommandRefusedLate ==
    /\ CommandAllowed("POSITION") /\ ~Authorised /\ Acquire
    /\ UNCHANGED motionVars

(* app_motion_release_output.                                              *)
ReleaseOutput ==
    /\ pc = "idle" /\ ClearOutput /\ SubmitCurrent(0)
    /\ UNCHANGED <<decodeVars, calibrationVars, feedback_age, cogging_on, blind>>

(* app_motion_stop: the output is cleared, the lock is left, then the stop  *)
(* of the stage is requested.                                               *)
MotionStop ==
    /\ StopAsked /\ ClearOutput
    /\ UNCHANGED <<decodeVars, calibrationVars, feedback_age, cogging_on, blind>>

MayCalibrateActive == pc = "idle" /\ s_state = "OFF"
MayCalibrate == pc = "idle" /\ s_state = "OFF" /\ ~active

(* app_motion_calibrate.                                                   *)
Calibrate ==
    /\ MayCalibrate
    /\ calibrating' = TRUE /\ calibration_samples' = 0 /\ calibration_done' = FALSE
    /\ NoFeedback /\ s_have_nearest' = FALSE
    /\ UNCHANGED <<authorityVars, outputVars, s_vernier_fallback_samples,
                   calibrated, cogging_on, blind>>

(* app_motion_apply.                                                       *)
ApplyCalibration ==
    /\ pc = "idle" /\ s_state = "OFF" /\ calibration_done /\ ~calibrating
    /\ calibrated' = TRUE /\ calibration_done' = FALSE
    /\ NoFeedback /\ s_have_nearest' = FALSE
    /\ UNCHANGED <<authorityVars, outputVars, s_vernier_fallback_samples,
                   calibrating, calibration_samples, cogging_on, blind>>

(* The switches of app_cogging.c: which stored tables are in force.        *)
SetCogging ==
    /\ pc = "idle" /\ cogging_on' \in SUBSET Tables
    /\ UNCHANGED <<authorityVars, outputVars, decodeVars, calibrationVars,
                   feedback_age, blind>>

(***************************************************************************)
(* The beat, with what app_cogging_iq adds.                                *)
(***************************************************************************)
MayInject == s_motion_active /\ (\/ "rotor" \in cogging_on
                                 \/ "output" \in cogging_on /\ s_output_angle_valid)

LoopBeat ==
    /\ \E injected \in (IF MayInject THEN Amps ELSE {0}) : Beat(injected)
    /\ feedback_age' = IF feedback_age > Limit THEN feedback_age ELSE feedback_age + 1
    /\ withdrawn' = IF active \/ withdrawn > Limit THEN withdrawn ELSE withdrawn + 1
    /\ UNCHANGED <<active, iq_a, s_hold_samples, s_output_angle_valid, s_motion_active,
                   mode, decodeVars, calibrationVars, cogging_on, blind>>

Operator ==
    \/ TaskStep /\ UNCHANGED motionVars
    \/ SetCurrentSource("DIRECT", FALSE) /\ UNCHANGED motionVars
    \/ \E m \in Modes : Command(m)
    \/ CommandRefusedLate \/ ReleaseOutput \/ MotionStop
    \/ Calibrate \/ ApplyCalibration \/ SetCogging

Next == Tick \/ LoopBeat \/ Operator

Spec == Init /\ [][Next]_vars

(***************************************************************************)
(* Properties.                                                             *)
(***************************************************************************)
(* While a command is active, a beat that drives for it does so on feedback *)
(* at most ZohMax ticks old: the hold of a lost sample is bounded, and the  *)
(* compensation current ends with it (app_motion.c:276-297).                *)
BlindCurrentBounded ==
    [][(drive' = "motion" /\ active /\ blind > ZohMax) => ~LoopBeat]_vars

(* Once a command is withdrawn, for whatever reason, no beat drives for it  *)
(* after the Limit beats its last request lives (app_motion.c:228, 939).    *)
WithdrawnFallsSilent ==
    [][(drive' = "motion" /\ ~active /\ withdrawn' > Limit) => ~LoopBeat]_vars

(* A calibration never runs under an active command and never while a       *)
(* request for current is in force (app_motion.c:443, 603, 1021).           *)
CalibrationApart == calibrating => ~active /\ s_current_request.amp = 0

(* An active command whose authority is gone (stop, disable, latched stop,  *)
(* another source) is dropped by the very next tick, whatever path the tick *)
(* takes: also when the encoders fail at the same time, and with the        *)
(* latched stop that the tick's own check does not look at                  *)
(* (app_motion.c:1210, 299, 1357).                                          *)
LostAuthorityDropped == [][(active /\ ~MaySubmit /\ active') => ~Tick]_vars
===============================================================================
