------------------------- MODULE MotionControlProofs -------------------------
(***************************************************************************)
(* Theorems about the motion controller, for every hold, fallback and       *)
(* expiry, whatever modes are commanded and tables stored.                  *)
(***************************************************************************)
EXTENDS MotionControl, CurrentAuthorityProofs

(* A stage that is off has no request, and where there is none no current  *)
(* is asked for.                                                           *)
OffMeansNone ==
    /\ s_state = "OFF" => ~s_current_request.valid
    /\ ~s_current_request.valid => s_current_request.amp = 0

(* Commands need a calibration; without one nothing is held and nothing     *)
(* follows the current.                                                    *)
CommandInv ==
    /\ active => calibrated
    /\ ~active => s_hold_samples = 0 /\ ~s_motion_active

(* The ticks held count at least the ticks without feedback, and past the   *)
(* zero-order hold they have asked for zero.                                *)
HoldInv ==
    /\ feedback_age <= Limit => blind = 0
    /\ active => blind <= s_hold_samples
    /\ active /\ s_hold_samples > ZohMax => s_current_request.amp = 0 /\ ~s_motion_active

(* A nonzero request that outlives its command is older than the            *)
(* withdrawal.                                                             *)
LastRequestOlder == ~active /\ s_current_request.amp # 0 => withdrawn <= age

MotionInv == CalibrationApart /\ OffMeansNone /\ CommandInv /\ HoldInv /\ LastRequestOlder
MInv == TypeOK /\ AuthorityInv /\ MotionInv

(* The controller's own variables: its output, its counts, the decoding.   *)
OutputTypes ==
    /\ active \in BOOLEAN /\ mode \in AllModes \cup {"NONE"} /\ iq_a \in Amps
    /\ calibrating \in BOOLEAN /\ calibration_done \in BOOLEAN /\ calibrated \in BOOLEAN
    /\ s_output_angle_valid \in BOOLEAN /\ s_motion_active \in BOOLEAN
CountTypes ==
    /\ s_hold_samples \in 0 .. HoldMax
    /\ feedback_age \in 0 .. Limit + 1
    /\ calibration_samples \in 0 .. CalSamples
    /\ blind \in 0 .. BlindCap /\ withdrawn \in 0 .. Limit + 1
DecodeTypes ==
    /\ s_vernier_fallback_samples \in 0 .. FallbackMax + 1 /\ s_have_nearest \in BOOLEAN
    /\ cogging_on \subseteq Tables
MotionTypes == OutputTypes /\ CountTypes /\ DecodeTypes

LEMMA MotionTypeParts == TypeOK <=> AuthorityTypeOK /\ MotionTypes
BY DEF TypeOK, MotionTypes, OutputTypes, CountTypes, DecodeTypes

LEMMA MotionInit == Init => MInv
<1> SUFFICES ASSUME Init PROVE MInv
    OBVIOUS
<1>1. AuthorityInv
    BY AuthorityInvInit DEF Init
<1>2. MotionTypes
    <2>1. CountTypes
        BY ExpiryAssumption, MotionAssumption DEF Init, CountTypes, BlindCap
    <2>2. s_vernier_fallback_samples \in 0 .. FallbackMax + 1
        BY MotionAssumption DEF Init
    <2>3. OutputTypes /\ s_have_nearest \in BOOLEAN /\ cogging_on \subseteq Tables
        BY DEF Init, OutputTypes, Amps
    <2> QED
        BY <2>1, <2>2, <2>3 DEF MotionTypes, DecodeTypes
<1>3. MotionInv
    BY ExpiryAssumption
       DEF Init, AuthorityInit, NoRequest, MotionInv, CalibrationApart, OffMeansNone, CommandInv,
           HoldInv, LastRequestOlder
<1> QED
    BY <1>1, <1>2, <1>3, MotionTypeParts DEF MInv, AuthorityInv

(***************************************************************************)
(* What a tick comes to.                                                   *)
(***************************************************************************)
Uncalibrated ==
    /\ ~calibrating /\ ~calibrated /\ NoFeedback
    /\ UNCHANGED <<authorityVars, outputVars, calibrationVars, blind>>
Driven == ~calibrating /\ calibrated /\ Publish /\ \E valid \in BOOLEAN : Drive(valid)
Rejected == \E reason \in {"SAMPLE", "PARAMETER", "VERNIER", "TIMING"} : Reject(reason)

LEMMA SettleCases ==
    ASSUME NEW valid \in BOOLEAN, ~calibrating, calibrated, Settle(valid)
    PROVE  Rejected \/ Driven
BY DEF Settle, Rejected, Driven

LEMMA TickCases == Tick => Rejected \/ (calibrating /\ CalibrationTick) \/ Uncalibrated \/ Driven
<1> SUFFICES ASSUME Tick, ~Rejected, ~(calibrating /\ CalibrationTick), ~Uncalibrated
             PROVE  Driven
    OBVIOUS
<1>1. /\ ~calibrating /\ calibrated
      /\ \/ \E tracking \in BOOLEAN : PairTick(tracking)
         \/ Settle(FALSE)
    BY DEF Tick, Rejected, Uncalibrated
<1>2. Settle(TRUE) \/ Settle(FALSE)
    BY <1>1 DEF PairTick, Rejected
<1> QED
    BY <1>1, <1>2, SettleCases

(***************************************************************************)
(* The controller is a client of the authority and no more.                *)
(***************************************************************************)
LEMMA ClientSubmits ==
    ASSUME NEW amp \in Amps, SubmitCurrent(amp)
    PROVE  [AuthorityNext]_authorityVars
BY DEF AuthorityNext

LEMMA RejectIsClient ==
    ASSUME NEW reason, MotionTypes, Reject(reason)
    PROVE  [AuthorityNext]_authorityVars
<1>1. 0 \in Amps /\ HeldCurrent \in Amps
    BY DEF Amps, MotionTypes, OutputTypes, HeldCurrent
<1>2. SubmitCurrent(0) \/ SubmitCurrent(HeldCurrent) \/ UNCHANGED authorityVars
    BY DEF Reject, Hold, Abort
<1> QED
    BY <1>1, <1>2, ClientSubmits

LEMMA DriveIsClient ==
    ASSUME NEW valid, Drive(valid)
    PROVE  [AuthorityNext]_authorityVars
BY ClientSubmits DEF Drive

LEMMA TickIsClient == MotionTypes /\ Tick => [AuthorityNext]_authorityVars
<1> SUFFICES ASSUME MotionTypes, Tick PROVE [AuthorityNext]_authorityVars
    OBVIOUS
<1> QED
    BY TickCases, RejectIsClient, DriveIsClient
       DEF CalibrationTick, Rejected, Driven, Uncalibrated

LEMMA IsClient == MotionTypes /\ [Next]_vars => [AuthorityNext]_authorityVars
<1> SUFFICES ASSUME MotionTypes, [Next]_vars PROVE [AuthorityNext]_authorityVars
    OBVIOUS
<1>1. CASE Tick
    BY <1>1, TickIsClient
<1>2. CASE LoopBeat
    BY <1>2 DEF LoopBeat, AuthorityNext, Amps
<1>3. CASE Operator
    <2>1. \/ TaskStep \/ StopAsked \/ SubmitCurrent(0) \/ UNCHANGED authorityVars
          \/ SetCurrentSource("DIRECT", FALSE) \/ SetCurrentSource("MOTION", TRUE)
        BY <1>3 DEF Operator, Command, CommandRefusedLate, Acquire, ReleaseOutput, MotionStop,
           Calibrate, ApplyCalibration, SetCogging
    <2> QED
        BY <2>1 DEF AuthorityNext, Amps
<1>4. CASE UNCHANGED vars
    BY <1>4 DEF vars
<1> QED
    BY <1>1, <1>2, <1>3, <1>4 DEF Next

(***************************************************************************)
(* What the steps of the authority do to a request.                        *)
(***************************************************************************)
LEMMA SubmitEffect ==
    ASSUME NEW amp \in Amps, SubmitCurrent(amp)
    PROVE  IF MaySubmit
           THEN /\ s_current_request' = [valid |-> TRUE, amp |-> amp]
                /\ age' = 0 /\ s_state' # "OFF"
           ELSE UNCHANGED <<s_current_request, age, s_state>>
BY DEF SubmitCurrent, Submit, MaySubmit, Normal, authorityVars, stateVars, requestVars

LEMMA TaskEffect ==
    TaskStep \/ StopAsked \/ SetCurrentSource("DIRECT", FALSE) \/ SetCurrentSource("MOTION", TRUE)
    => \/ s_current_request' = NoRequest
       \/ /\ UNCHANGED <<s_current_request, age>>
          /\ s_state' = "OFF" => s_state = "OFF"
<1>1. TaskStep => RevokeRequest \/ (s_state' = "OFF" => s_state = "OFF")
    BY DEF TaskStep, EnablePublish, Disable, DisableBegin, DisableCritical, RequestStop,
       StopAccepted, StopIgnored, StopStep, Body, SetDirectRef, SetAngleSource, CalibBegin,
       CalibDrive, CalibEnd, ApplyEncoderOffset, VtestStart, VtestStop, stateVars, Revoke
<1> QED
    BY <1>1, TaskRequest DEF RevokeRequest, StopAsked, SetCurrentSource, stateVars, requestVars

LEMMA BeatEffect ==
    ASSUME NEW injected, Beat(injected)
    PROVE  UNCHANGED <<s_current_request, s_state>> /\ age' = Grow
BY DEF Beat, BeatEmergency, BeatIdle, BeatDegraded, BeatRun, Elapse, stateVars

(***************************************************************************)
(* The invariant, step by step.                                            *)
(***************************************************************************)
LEMMA HeldAmp == MotionTypes => HeldCurrent \in Amps /\ 0 \in Amps
BY DEF MotionTypes, OutputTypes, HeldCurrent, Amps

(* A rejected tick holds an authorised command for one tick more or drops  *)
(* the command.                                                            *)
LEMMA RejectCases ==
    ASSUME NEW reason, Reject(reason)
    PROVE  \/ /\ active /\ MaySubmit /\ SubmitCurrent(HeldCurrent) /\ active'
              /\ s_hold_samples < HoldMax /\ s_hold_samples' = s_hold_samples + 1
              /\ s_motion_active' = (s_motion_active /\ s_hold_samples < ZohMax)
              /\ UNCHANGED <<withdrawn, calibrating, calibrated>>
           \/ /\ ClearOutput /\ calibrated' = calibrated /\ (calibrating' => calibrating /\ active)
              /\ \/ UNCHANGED authorityVars
                 \/ active /\ SubmitCurrent(0)
BY DEF Reject, Hold, Abort, SubmitCurrent, ClearOutput, calibrationVars

LEMMA RejectInv ==
    ASSUME NEW reason, MInv, Reject(reason)
    PROVE  MotionInv'
<1>1. feedback_age' = Limit + 1 /\ blind' = IF blind < BlindCap THEN blind + 1 ELSE blind
    BY DEF Reject, Hold, Abort, NoFeedback
<1>2. /\ blind \in Nat /\ s_hold_samples \in Nat /\ ZohMax \in Nat /\ Limit \in Nat
      /\ age \in Nat /\ HeldCurrent \in Amps /\ 0 \in Amps /\ s_motion_active \in BOOLEAN
    BY MotionTypeParts, HeldAmp, MotionAssumption, ExpiryAssumption, TypeParts
       DEF MInv, MotionTypes, OutputTypes, CountTypes, TypeAges
<1>3. CASE /\ active /\ MaySubmit /\ SubmitCurrent(HeldCurrent) /\ active'
           /\ s_hold_samples' = s_hold_samples + 1
           /\ s_motion_active' = (s_motion_active /\ s_hold_samples < ZohMax)
           /\ UNCHANGED <<withdrawn, calibrating, calibrated>>
    <2>1. s_current_request' = [valid |-> TRUE, amp |-> HeldCurrent] /\ s_state' # "OFF"
        BY <1>2, <1>3, SubmitEffect
    <2>2. s_hold_samples' > ZohMax => ~(s_hold_samples < ZohMax)
        BY <1>2, <1>3
    <2>3. s_hold_samples' > ZohMax => HeldCurrent = 0 /\ ~s_motion_active'
        BY <1>3, <2>2 DEF HeldCurrent
    <2> QED
        BY <1>1, <1>2, <1>3, <2>1, <2>3
           DEF MInv, MotionInv, CalibrationApart, OffMeansNone, CommandInv, HoldInv,
               LastRequestOlder, BlindCap
<1>4. CASE /\ ClearOutput /\ calibrated' = calibrated /\ (calibrating' => calibrating /\ active)
           /\ UNCHANGED authorityVars \/ (active /\ SubmitCurrent(0))
    <2>1. \/ UNCHANGED <<s_current_request, age, s_state>>
          \/ /\ s_current_request' = [valid |-> TRUE, amp |-> 0] /\ s_state' # "OFF"
        BY <1>2, <1>4, SubmitEffect DEF authorityVars, requestVars, stateVars
    <2>2. ~active' /\ ~s_motion_active' /\ ~calibrating' /\ s_hold_samples' = 0
        BY <1>4 DEF ClearOutput, MInv, MotionInv, CalibrationApart
    <2>3. s_current_request'.amp # 0 => withdrawn' <= age'
        BY <1>2, <1>4, <2>1 DEF ClearOutput, MInv, MotionInv, LastRequestOlder
    <2> QED
        BY <1>1, <1>2, <2>1, <2>2, <2>3
           DEF MInv, MotionInv, CalibrationApart, OffMeansNone, CommandInv, HoldInv,
               LastRequestOlder
<1> QED
    BY <1>3, <1>4, RejectCases

LEMMA DrivenInv == MInv /\ Driven => MotionInv'
<1> SUFFICES ASSUME MInv, Driven PROVE MotionInv'
    OBVIOUS
<1>1. /\ feedback_age' = 0 /\ blind' = 0 /\ ~calibrating /\ calibrated
      /\ UNCHANGED <<calibrating, calibrated>>
    BY DEF Driven, Publish, calibrationVars
<1>2. PICK valid \in BOOLEAN : Drive(valid)
    BY DEF Driven
<1>3. ZohMax \in Nat /\ s_hold_samples \in Nat /\ age \in Nat
    BY MotionTypeParts, MotionAssumption, ExpiryAssumption, TypeParts
       DEF MInv, MotionTypes, OutputTypes, CountTypes, TypeAges
<1> USE <1>1, <1>3 DEF MInv, MotionInv, CalibrationApart, OffMeansNone, CommandInv, HoldInv,
        LastRequestOlder
<1>4. CASE /\ ~active /\ s_hold_samples' = 0 /\ s_motion_active' = FALSE
           /\ UNCHANGED <<active, withdrawn, authorityVars>>
    BY <1>4 DEF authorityVars, requestVars, stateVars
<1>5. CASE ClearOutput /\ UNCHANGED authorityVars
    BY <1>5 DEF ClearOutput, authorityVars, requestVars, stateVars
<1>6. CASE \E amp \in Amps : /\ SubmitCurrent(amp) /\ MaySubmit
                             /\ active' /\ s_hold_samples' = 0
    BY <1>6, SubmitEffect
<1> QED
    BY <1>2, <1>4, <1>5, <1>6 DEF Drive, SubmitCurrent

LEMMA TickInv == MInv /\ Tick => MotionInv'
<1> SUFFICES ASSUME MInv, Tick PROVE MotionInv'
    OBVIOUS
<1>1. CASE Rejected
    BY <1>1, RejectInv DEF Rejected
<1>2. CASE calibrating /\ CalibrationTick
    BY <1>2 DEF CalibrationTick, outputVars, authorityVars, requestVars, stateVars, MInv, MotionInv,
       CalibrationApart, OffMeansNone, CommandInv, HoldInv, LastRequestOlder
<1>3. CASE Uncalibrated
    BY <1>3, ExpiryAssumption
       DEF Uncalibrated, NoFeedback, outputVars, calibrationVars, authorityVars, requestVars,
           stateVars, MInv, MotionInv, CalibrationApart, OffMeansNone, CommandInv, HoldInv,
           LastRequestOlder
<1>4. CASE Driven
    BY <1>4, DrivenInv
<1> QED
    BY <1>1, <1>2, <1>3, <1>4, TickCases

LEMMA LoopBeatInv == MInv /\ LoopBeat => MotionInv'
<1> SUFFICES ASSUME MInv, LoopBeat PROVE MotionInv'
    OBVIOUS
<1>1. UNCHANGED <<s_current_request, s_state>> /\ age' = Grow
    BY BeatEffect DEF LoopBeat
<1>2. /\ Limit \in Nat /\ age \in 0 .. Limit + 1 /\ withdrawn \in 0 .. Limit + 1
      /\ feedback_age \in 0 .. Limit + 1
    BY MotionTypeParts, ExpiryAssumption, TypeParts DEF MInv, MotionTypes, CountTypes, TypeAges
<1>3. /\ UNCHANGED <<active, s_hold_samples, s_motion_active, blind, calibrating, calibrated>>
      /\ feedback_age' = IF feedback_age > Limit THEN feedback_age ELSE feedback_age + 1
      /\ withdrawn' = IF active \/ withdrawn > Limit THEN withdrawn ELSE withdrawn + 1
    BY DEF LoopBeat, calibrationVars
<1>4. feedback_age' <= Limit => feedback_age <= Limit
    BY <1>2, <1>3
<1>5. ~active /\ withdrawn <= age => withdrawn' <= age'
    BY <1>1, <1>2, <1>3 DEF Grow
<1> QED
    BY <1>1, <1>3, <1>4, <1>5
       DEF MInv, MotionInv, CalibrationApart, OffMeansNone, CommandInv, HoldInv, LastRequestOlder

(* A command, a calibration and the switches leave the request to the       *)
(* authority; they are given when no feedback is missing, or when off.      *)
LEMMA OperatorInv == MInv /\ Operator => MotionInv'
<1> SUFFICES ASSUME MInv, Operator PROVE MotionInv'
    OBVIOUS
<1> USE DEF MInv, MotionInv, CalibrationApart, OffMeansNone, CommandInv, HoldInv,
        LastRequestOlder
<1>1. /\ 0 \in Amps /\ age \in Nat /\ NoRequest.amp = 0 /\ ~NoRequest.valid
      /\ Limit \in Nat /\ s_hold_samples \in Nat /\ ZohMax \in Nat
    BY MotionTypeParts, MotionAssumption, ExpiryAssumption, TypeParts
       DEF MotionTypes, CountTypes, TypeAges, Amps, NoRequest
<1>2. CASE /\ TaskStep \/ SetCurrentSource("DIRECT", FALSE)
           /\ UNCHANGED motionVars
    BY <1>1, <1>2, TaskEffect DEF motionVars, outputVars, calibrationVars
<1>3. CASE \E m \in Modes : Command(m)
    <2>1. /\ active' /\ calibrated /\ ~calibrating /\ FeedbackFresh
          /\ UNCHANGED <<calibrated, calibrating, feedback_age, blind, s_hold_samples,
                         s_motion_active>>
          /\ Acquire
        BY <1>3 DEF Command, CommandAllowed, calibrationVars
    <2>2. \/ UNCHANGED <<s_current_request, s_state>>
          \/ s_current_request' = NoRequest
          \/ UNCHANGED s_current_request /\ (s_state' = "OFF" => s_state = "OFF")
        BY <2>1, TaskEffect DEF Acquire, authorityVars, requestVars, stateVars
    <2>3. blind = 0
        BY <2>1 DEF FeedbackFresh
    <2> QED
        BY <1>1, <2>1, <2>2, <2>3
<1>4. CASE CommandRefusedLate
    BY <1>1, <1>4, TaskEffect DEF CommandRefusedLate, Acquire, Authorised, motionVars, outputVars,
       calibrationVars
<1>5. CASE ReleaseOutput
    <2>1. \/ UNCHANGED <<s_current_request, age, s_state>>
          \/ s_current_request' = [valid |-> TRUE, amp |-> 0] /\ s_state' # "OFF"
        BY <1>1, <1>5, SubmitEffect DEF ReleaseOutput
    <2> QED
        BY <1>1, <1>5, <2>1 DEF ReleaseOutput, ClearOutput, calibrationVars
<1>6. CASE MotionStop
    BY <1>1, <1>6 DEF MotionStop, ClearOutput, StopAsked, requestVars, stateVars, calibrationVars
<1>7. CASE Calibrate \/ ApplyCalibration
    BY <1>1, <1>7 DEF Calibrate, MayCalibrate, ApplyCalibration, NoFeedback, outputVars,
       authorityVars, requestVars, stateVars
<1>8. CASE SetCogging
    BY <1>8 DEF SetCogging, outputVars, calibrationVars, authorityVars, requestVars, stateVars
<1> QED
    BY <1>2, <1>3, <1>4, <1>5, <1>6, <1>7, <1>8 DEF Operator

(***************************************************************************)
(* The types.                                                              *)
(***************************************************************************)
LEMMA DecodeStep == MotionTypes /\ [Next]_vars => DecodeTypes'
<1> SUFFICES ASSUME MotionTypes, [Next]_vars PROVE DecodeTypes'
    OBVIOUS
<1>1. CASE Tick
    <2>1. CalibrationTick => cogging_on' = cogging_on /\ decodeVars' = decodeVars
        BY DEF CalibrationTick
    <2>2. PICK frame \in Frames, tracking \in BOOLEAN, report \in BOOLEAN :
            /\ cogging_on' = cogging_on
            /\ decodeVars' = decodeVars \/ PairTick(tracking)
        <3>1. UNCHANGED <<authorityVars, outputVars, decodeVars, calibrationVars, cogging_on,
                          blind>>
              => cogging_on' = cogging_on /\ decodeVars' = decodeVars
            OBVIOUS
        <3> QED
            BY <1>1, <2>1, <3>1 DEF Tick
    <2>3. CASE PairTick(tracking)
        <3>1. s_have_nearest' \in {TRUE, s_have_nearest}
            BY <2>3 DEF PairTick, Decoded, Bridge, GiveUp
        <3>2. \/ s_vernier_fallback_samples' = 0
              \/ s_vernier_fallback_samples' = FallbackMax
              \/ s_vernier_fallback_samples' = FallbackMax + 1
              \/ s_vernier_fallback_samples' = s_vernier_fallback_samples
              \/ /\ s_vernier_fallback_samples' = s_vernier_fallback_samples + 1
                 /\ s_vernier_fallback_samples < FallbackMax
            BY <2>3 DEF PairTick, Decoded, FallbackOK, Bridge, GiveUp
        <3>3. s_vernier_fallback_samples' \in 0 .. FallbackMax + 1
            BY <3>2, MotionAssumption DEF MotionTypes, DecodeTypes
        <3> QED
            BY <2>2, <3>1, <3>3 DEF MotionTypes, DecodeTypes
    <2> QED
        BY <2>2, <2>3 DEF MotionTypes, DecodeTypes, decodeVars
<1> USE DEF MotionTypes, DecodeTypes, decodeVars
<1>2. CASE LoopBeat
    BY <1>2 DEF LoopBeat
<1>3. CASE Operator
    BY <1>3, MotionAssumption DEF Operator, Command, CommandRefusedLate, ReleaseOutput, MotionStop,
       Calibrate, ApplyCalibration, SetCogging, motionVars
<1>4. CASE UNCHANGED vars
    BY <1>4 DEF vars, motionVars
<1> QED
    BY <1>1, <1>2, <1>3, <1>4 DEF Next

LEMMA OutputStep == MotionTypes /\ [Next]_vars => OutputTypes'
<1> SUFFICES ASSUME MotionTypes, [Next]_vars PROVE OutputTypes'
    OBVIOUS
<1> USE DEF MotionTypes, OutputTypes, ClearOutput, outputVars, calibrationVars
<1>1. CASE Rejected
    BY <1>1, HeldAmp DEF Rejected, Reject, Hold, Abort
<1>2. CASE Driven
    <2>1. PICK valid \in BOOLEAN : Drive(valid)
        BY <1>2 DEF Driven
    <2> QED
        BY <1>2, <2>1, HeldAmp DEF Driven, Publish, Drive
<1>3. CASE CalibrationTick \/ Uncalibrated
    BY <1>3 DEF CalibrationTick, Uncalibrated
<1>4. CASE LoopBeat
    BY <1>4 DEF LoopBeat
<1>5. CASE Operator
    <2>1. CASE \E m \in Modes : Command(m)
        BY <2>1, MotionAssumption DEF Command
    <2>2. CASE ~(\E m \in Modes : Command(m))
        BY <1>5, <2>2, HeldAmp DEF Operator, CommandRefusedLate, ReleaseOutput, MotionStop,
           Calibrate, ApplyCalibration, SetCogging, motionVars
    <2> QED
        BY <2>1, <2>2
<1>6. CASE UNCHANGED vars
    BY <1>6 DEF vars, motionVars
<1> QED
    BY <1>1, <1>2, <1>3, <1>4, <1>5, <1>6, TickCases DEF Next

LEMMA CountStep == MotionTypes /\ [Next]_vars => CountTypes'
<1> SUFFICES ASSUME MotionTypes, [Next]_vars PROVE CountTypes'
    OBVIOUS
<1> USE ExpiryAssumption, MotionAssumption
    DEF MotionTypes, CountTypes, ClearOutput, BlindCap, NoFeedback, outputVars, calibrationVars
<1>1. CASE Rejected
    <2>1. PICK reason : Reject(reason)
        BY <1>1 DEF Rejected
    <2>2. /\ feedback_age' = Limit + 1
          /\ calibration_samples' \in {0, calibration_samples}
          /\ blind' = IF blind < BlindCap THEN blind + 1 ELSE blind
        BY <2>1 DEF Reject, Hold, Abort
    <2>3. /\ s_hold_samples' \in {0, s_hold_samples + 1}
          /\ s_hold_samples' # 0 => s_hold_samples < HoldMax
          /\ withdrawn' \in {0, withdrawn}
        BY <2>1 DEF Reject, Hold, Abort
    <2> QED
        BY <2>2, <2>3
<1>2. CASE Driven
    <2>1. PICK valid \in BOOLEAN : Drive(valid)
        BY <1>2 DEF Driven
    <2>2. s_hold_samples' = 0 /\ withdrawn' \in {0, withdrawn}
        BY <2>1 DEF Drive
    <2> QED
        BY <1>2, <2>2 DEF Driven, Publish
<1>3. CASE CalibrationTick \/ Uncalibrated
    BY <1>3 DEF CalibrationTick, Uncalibrated
<1>4. CASE LoopBeat
    BY <1>4 DEF LoopBeat
<1>5. CASE Operator
    <2>1. CASE \/ UNCHANGED motionVars
               \/ \E m \in Modes : Command(m)
               \/ CommandRefusedLate \/ SetCogging
        BY <2>1 DEF Command, CommandRefusedLate, SetCogging, motionVars
    <2>2. CASE ReleaseOutput \/ MotionStop
        BY <2>2 DEF ReleaseOutput, MotionStop
    <2>3. CASE Calibrate \/ ApplyCalibration
        BY <2>3 DEF Calibrate, ApplyCalibration
    <2> QED
        BY <1>5, <2>1, <2>2, <2>3 DEF Operator
<1>6. CASE UNCHANGED vars
    BY <1>6 DEF vars, motionVars
<1> QED
    BY <1>1, <1>2, <1>3, <1>4, <1>5, <1>6, TickCases DEF Next

(***************************************************************************)
(* The theorems.                                                           *)
(***************************************************************************)
LEMMA MInductive == MInv /\ [Next]_vars => MInv'
<1> SUFFICES ASSUME MInv, [Next]_vars PROVE MInv'
    OBVIOUS
<1>1. MotionTypes
    BY MotionTypeParts DEF MInv
<1>2. AuthorityInv'
    BY <1>1, IsClient, AuthorityInvStep DEF MInv
<1>3. OutputTypes' /\ CountTypes' /\ DecodeTypes'
    BY <1>1, OutputStep, CountStep, DecodeStep
<1>4. TypeOK'
    <2>1. AuthorityTypeOK'
        BY <1>2 DEF AuthorityInv
    <2> QED
        BY <1>3, <2>1 DEF TypeOK, OutputTypes, CountTypes, DecodeTypes
<1>5. ASSUME UNCHANGED vars PROVE MotionInv'
    BY <1>5 DEF vars, motionVars, outputVars, calibrationVars, authorityVars, requestVars,
       stateVars, MInv, MotionInv, CalibrationApart, OffMeansNone, CommandInv, HoldInv,
       LastRequestOlder
<1>6. MotionInv'
    BY <1>5, TickInv, LoopBeatInv, OperatorInv DEF Next, MInv
<1> QED
    BY <1>2, <1>4, <1>6 DEF MInv

LEMMA MInvInvariant == Spec => []MInv
BY MotionInit, MInductive, PTL DEF Spec

(* The state of app_motion.c keeps its types: the hold, the fallback and    *)
(* the calibration stop at their limits.                                   *)
THEOREM TypeCorrect == Spec => []TypeOK
BY MInvInvariant, PTL DEF MInv

(* Every step of the controller is a step of a client of the authority, so  *)
(* what holds for any client holds for it: the lease among them.            *)
THEOREM MotionIsClient == Spec => AuthoritySpec
<1>1. Init => AuthorityInit
    BY DEF Init
<1>2. MInv /\ [Next]_vars => [AuthorityNext]_authorityVars
    BY IsClient, MotionTypeParts DEF MInv
<1> QED
    BY <1>1, <1>2, MInvInvariant, PTL DEF Spec, AuthoritySpec

(* The lease of app_foc.c holds with app_motion.c as the client: motion     *)
(* current only on a request of at most Limit beats.                       *)
THEOREM MotionUnderLease == Spec => LeaseKept
BY MotionIsClient, AuthorityImplementsLease, PTL

(* A calibration of the motion angle never runs under an active command or  *)
(* with current asked for.                                                 *)
THEOREM CalibrationAlwaysApart == Spec => []CalibrationApart
BY MInvInvariant, PTL DEF MInv, MotionInv

(* A tick that finds the authority of an active command gone drops it,      *)
(* whichever way the tick ends.                                            *)
THEOREM LostAuthorityAlwaysDropped == Spec => LostAuthorityDropped
<1>1. MInv /\ [Next]_vars => ((active /\ ~MaySubmit /\ active') => ~Tick)
    <2> SUFFICES ASSUME MInv, active, ~MaySubmit, Tick PROVE ~active'
        OBVIOUS
    <2>1. calibrated /\ ~calibrating
        BY DEF MInv, MotionInv, CommandInv, CalibrationApart
    <2>2. CASE Rejected
        BY <2>2, RejectCases DEF Rejected, ClearOutput
    <2>3. CASE Driven
        BY <2>3 DEF Driven, Drive, ClearOutput
    <2> QED
        BY <2>1, <2>2, <2>3, TickCases DEF Uncalibrated
<1> QED
    BY <1>1, MInvInvariant, PTL DEF Spec, LostAuthorityDropped

(* What a beat that drives for the motion source needs.                    *)
LEMMA MotionCurrent ==
    ASSUME MInv, LoopBeat, drive' = "motion"
    PROVE  /\ s_current_request.amp # 0 \/ s_motion_active
           /\ age' <= Limit
<1>1. PICK injected \in Amps : Beat(injected) /\ (injected # 0 => MayInject)
    BY DEF LoopBeat, Amps
<1>2. BeatRun(injected) /\ ByMotion
    BY <1>1 DEF Beat, BeatEmergency, BeatIdle, BeatDegraded, BeatRun, Idle, Driver
<1>3. s_current_request.amp # 0 \/ injected # 0
    BY <1>2 DEF BeatRun
<1> QED
    BY <1>1, <1>3, BeatUnderLease DEF MInv, MayInject

(* A lost sample is bridged for ZohMax ticks: after that neither the held   *)
(* request nor the compensation drives the motor.                          *)
THEOREM BlindCurrentAlwaysBounded == Spec => BlindCurrentBounded
<1>1. MInv /\ [Next]_vars => ((drive' = "motion" /\ active /\ blind > ZohMax) => ~LoopBeat)
    <2> SUFFICES ASSUME MInv, drive' = "motion", active, blind > ZohMax, LoopBeat PROVE FALSE
        OBVIOUS
    <2>1. s_hold_samples > ZohMax
        BY MotionTypeParts, MotionAssumption
           DEF MInv, MotionInv, HoldInv, MotionTypes, CountTypes, BlindCap
    <2> QED
        BY <2>1, MotionCurrent DEF MInv, MotionInv, HoldInv
<1> QED
    BY <1>1, MInvInvariant, PTL DEF Spec, BlindCurrentBounded

(* A withdrawn command drives no longer than its last request lives.       *)
THEOREM WithdrawnAlwaysSilent == Spec => WithdrawnFallsSilent
<1>1. MInv /\ [Next]_vars => ((drive' = "motion" /\ ~active /\ withdrawn' > Limit) => ~LoopBeat)
    <2> SUFFICES ASSUME MInv, drive' = "motion", ~active, LoopBeat PROVE withdrawn' <= Limit
        BY MotionTypeParts, ExpiryAssumption, CountStep DEF MInv, CountTypes
    <2>1. s_current_request.amp # 0 /\ age' <= Limit
        BY MotionCurrent DEF MInv, MotionInv, CommandInv
    <2>2. (s_current_request.amp # 0 => withdrawn' <= age') /\ withdrawn' \in Int /\ age' \in Int
        <3>1. MInv'
            BY MInductive DEF Next
        <3>2. ~active' /\ s_current_request' = s_current_request
            BY BeatEffect DEF LoopBeat
        <3> QED
            BY <3>1, <3>2, ExpiryAssumption
               DEF MInv, MotionInv, LastRequestOlder, TypeOK, AuthorityTypeOK
    <2> QED
        BY <2>1, <2>2, ExpiryAssumption
<1> QED
    BY <1>1, MInvInvariant, PTL DEF Spec, WithdrawnFallsSilent
=============================================================================
