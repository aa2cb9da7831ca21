--------------------------- MODULE CurrentAuthority ---------------------------
(***************************************************************************)
(* Who may put current into the motor: the source, epoch and request rules *)
(* of App/Control/Src/app_foc.c.                                           *)
(*                                                                         *)
(* The io task owns the commands (enable, stop, source, direct references, *)
(* calibration, voltage test), the 15 kHz motion interrupt submits current *)
(* requests, the 30 kHz interrupt (a beat) executes them.  The interrupts  *)
(* do not nest; a task operation that leaves its critical section between  *)
(* two writes takes two steps here.  The bridge is module FocBridge's      *)
(* subject: this module follows the references only.                       *)
(*                                                                         *)
(* A current is 0 or 1, zero or not.  Epochs are only incremented, copied   *)
(* and compared for equality with the newest one, so a client's epoch is    *)
(* represented by whether it still is the newest.  The cycle               *)
(* counter is 32 bits wide: the age of a request, kept while there is one,  *)
(* is taken modulo Wrap.                                                   *)
(* Protective actions are enabled, so a confirmed failure of a beat latches *)
(* the emergency stop.                                                      *)
(***************************************************************************)
EXTENDS Integers

CONSTANTS
    Limit,          \* beats a request may drive (500 us)
    Wrap,           \* beats until the cycle counter comes round (2^32 cycles)
    DegradedMax,    \* beats without an angle before it is a fault (32)
    Others          \* what else uses the motor current, a subset of AllOthers

AllOthers == {"direct", "angle", "calib", "offset", "vtest"}

ASSUME ExpiryAssumption ==
    /\ Limit \in Nat \ {0} /\ Wrap \in Nat /\ DegradedMax \in Nat \ {0}
    /\ Limit + DegradedMax < Wrap
    /\ Others \subseteq AllOthers

VARIABLES
    s_state, s_stop_pending, s_isr_inhibited, s_angle_src, s_theta_held_valid,
    s_enc_degraded_streak, s_vtest_active,
    s_current_source, s_current_request, request_age, s_current_request_expired,
    s_i_d_ref, s_i_q_ref, s_i_q_ref_cmd,
    s_epoch_newest, \* the epoch app_motion.c holds is the newest one
    pc,             \* where the io task stands inside an operation
    drive,          \* for whom the last beat drove current
    age             \* beats since the newest request, not wrapped

stateVars == <<s_state, s_stop_pending, s_isr_inhibited>>
angleVars == <<s_angle_src, s_theta_held_valid, s_enc_degraded_streak>>
requestVars == <<s_current_request, request_age, s_current_request_expired, age,
                 s_epoch_newest>>
refVars == <<s_i_d_ref, s_i_q_ref, s_i_q_ref_cmd>>
authorityVars == <<stateVars, angleVars, s_vtest_active, s_current_source,
                   requestVars, refVars, drive, pc>>

Normal == {"READY", "RUN"}
Amps == {0, 1}
Drivers == {"none", "motion", "direct", "stop", "calib", "vtest"}
NoRequest == [valid |-> FALSE, amp |-> 0]

AuthorityTypeOK ==
    /\ s_state \in {"OFF", "READY", "RUN", "CALIB", "FAULT"}
    /\ s_stop_pending \in BOOLEAN /\ s_isr_inhibited \in BOOLEAN
    /\ s_angle_src \in {"ENCODER", "FORCED"} /\ s_theta_held_valid \in BOOLEAN
    /\ s_enc_degraded_streak \in 0 .. DegradedMax
    /\ s_vtest_active \in BOOLEAN /\ s_current_source \in {"DIRECT", "MOTION"}
    /\ s_current_request \in [valid : BOOLEAN, amp : Amps]
    /\ request_age \in 0 .. Wrap - 1 /\ s_current_request_expired \in BOOLEAN
    /\ age \in 0 .. Limit + 1 /\ s_epoch_newest \in BOOLEAN
    /\ s_i_d_ref \in Amps /\ s_i_q_ref \in Amps /\ s_i_q_ref_cmd \in Amps
    /\ pc \in {"idle", "disable", "stop", "body"}
    /\ drive \in Drivers

AuthorityInit ==
    /\ s_state = "OFF" /\ s_stop_pending = FALSE /\ s_isr_inhibited = FALSE
    /\ s_angle_src = "ENCODER" /\ s_theta_held_valid = FALSE
    /\ s_enc_degraded_streak = 0
    /\ s_vtest_active = FALSE /\ s_current_source = "DIRECT"
    /\ s_current_request = NoRequest /\ request_age = 0
    /\ s_current_request_expired = FALSE /\ age = Limit + 1
    /\ s_epoch_newest = FALSE
    /\ s_i_d_ref = 0 /\ s_i_q_ref = 0 /\ s_i_q_ref_cmd = 0
    /\ pc = "idle" /\ drive = "none"

(***************************************************************************)
(* Requests.                                                               *)
(***************************************************************************)
(* app_foc_revoke_current: every epoch handed out so far is void.          *)
RevokeRequest ==
    /\ s_current_request' = NoRequest
    /\ s_current_request_expired' = FALSE
    /\ request_age' = 0 /\ age' = Limit + 1

Revoke == RevokeRequest /\ s_epoch_newest' = FALSE

MaySubmit ==
    /\ s_current_source = "MOTION" /\ ~s_stop_pending /\ ~s_isr_inhibited
    /\ ~s_vtest_active /\ s_state \in Normal /\ s_epoch_newest

(* app_foc_submit_current, accepted.                                       *)
Submit(amp) ==
    /\ s_current_request' = [valid |-> TRUE, amp |-> amp]
    /\ request_age' = 0 /\ age' = 0
    /\ s_current_request_expired' = FALSE
    /\ s_state' = IF s_state = "READY" /\ amp # 0 THEN "RUN" ELSE s_state
    /\ UNCHANGED <<s_stop_pending, s_isr_inhibited, angleVars, s_vtest_active,
                   s_current_source, s_epoch_newest, refVars, drive, pc>>

(* app_foc_submit_current, as a motion step calls it.                      *)
SubmitCurrent(amp) == IF MaySubmit THEN Submit(amp) ELSE UNCHANGED authorityVars

(***************************************************************************)
(* Commands of the io task.                                                *)
(***************************************************************************)
MaySetSourceForced(source) ==
    /\ ~s_stop_pending /\ ~s_vtest_active
    /\ s_current_request.valid => s_current_request.amp = 0
    /\ \/ s_state = "OFF"
       \/ s_state = "READY" /\ s_i_d_ref = 0 /\ s_i_q_ref_cmd = 0 /\ s_i_q_ref = 0

MaySetSource(source) ==
    /\ ~s_stop_pending /\ ~s_vtest_active
    /\ source = "MOTION" => s_angle_src = "ENCODER"
    /\ s_current_request.valid => s_current_request.amp = 0
    /\ \/ s_state = "OFF"
       \/ s_state = "READY" /\ s_i_d_ref = 0 /\ s_i_q_ref_cmd = 0 /\ s_i_q_ref = 0

(* app_foc_set_current_source; app_motion.c reads the new epoch in the same *)
(* critical section when it is the one who asks.                           *)
SetCurrentSource(source, byMotion) ==
    /\ pc = "idle" /\ MaySetSource(source)
    /\ s_current_source' = source /\ RevokeRequest /\ s_epoch_newest' = byMotion
    /\ UNCHANGED <<stateVars, angleVars, s_vtest_active, refVars, drive, pc>>

ClearRefs == s_i_d_ref' = 0 /\ s_i_q_ref' = 0 /\ s_i_q_ref_cmd' = 0

ForgetAngle == s_theta_held_valid' = FALSE /\ s_enc_degraded_streak' = 0

(* app_foc_enable, its last critical section: the checks and the bridge are *)
(* module FocBridge's.                                                      *)
EnablePublish ==
    /\ pc = "idle" /\ s_state = "OFF" /\ ~s_stop_pending
    /\ s_state' = "READY" /\ s_isr_inhibited' = FALSE
    /\ s_angle_src' = "ENCODER" /\ ForgetAngle /\ ClearRefs /\ Revoke
    /\ UNCHANGED <<s_stop_pending, s_vtest_active, s_current_source, drive, pc>>

(* app_foc_disable: the pending flag falls before the critical section.    *)
DisableBegin ==
    /\ s_stop_pending' = FALSE /\ pc' = "disable"
    /\ UNCHANGED <<s_state, s_isr_inhibited, angleVars, s_vtest_active,
                   s_current_source, requestVars, refVars, drive>>

DisableCritical ==
    /\ pc = "disable" /\ pc' = "idle"
    /\ s_state' = "OFF" /\ s_isr_inhibited' = FALSE /\ s_vtest_active' = FALSE
    /\ s_angle_src' = "ENCODER" /\ ForgetAngle /\ ClearRefs /\ Revoke
    /\ UNCHANGED <<s_stop_pending, s_current_source, drive>>

Disable == pc = "idle" /\ DisableBegin

(* app_foc_request_stop, from a state a normal stop may start in.          *)
StopAccepted ==
    /\ s_state \in Normal /\ ~s_stop_pending /\ ~s_vtest_active
    /\ s_stop_pending' = TRUE /\ pc' = "idle" /\ Revoke
    /\ UNCHANGED <<s_state, s_isr_inhibited, angleVars, s_vtest_active,
                   s_current_source, refVars, drive>>

StopIgnored ==
    /\ s_state # "FAULT" /\ ~(s_state \in Normal /\ ~s_stop_pending /\ ~s_vtest_active)
    /\ pc' = "idle"
    /\ UNCHANGED <<stateVars, angleVars, s_vtest_active, s_current_source,
                   requestVars, refVars, drive>>

RequestStop ==
    /\ pc \in {"idle", "stop"}
    /\ StopAccepted \/ StopIgnored \/ (s_state = "FAULT" /\ DisableBegin)

(* app_motion_stop has left its lock and is about to request the stop.      *)
StopAsked ==
    /\ pc = "idle" /\ pc' = "stop"
    /\ UNCHANGED <<stateVars, angleVars, s_vtest_active, s_current_source,
                   requestVars, refVars, drive>>

(* app_foc_stop_step: a tick of the stop ramp.  The references shrink to    *)
(* zero and only then may the stage be switched off; a state that is no     *)
(* longer normal cancels the stop.                                          *)
StopStep ==
    /\ pc \in {"idle", "body"} /\ s_stop_pending
    /\ \/ /\ s_state \notin Normal
          /\ s_stop_pending' = FALSE /\ pc' = "body"
          /\ UNCHANGED <<s_state, s_isr_inhibited, angleVars, s_vtest_active,
                         s_current_source, requestVars, refVars, drive>>
       \/ /\ s_state \in Normal
          /\ \/ UNCHANGED s_i_d_ref /\ s_i_q_ref_cmd' = s_i_q_ref /\ UNCHANGED s_i_q_ref
             \/ ClearRefs
          /\ pc' = "body"
          /\ UNCHANGED <<stateVars, angleVars, s_vtest_active, s_current_source,
                         requestVars, drive>>
       \/ /\ s_state \in Normal /\ s_i_d_ref = 0 /\ s_i_q_ref = 0
          /\ DisableBegin

(* app_foc_run_body.                                                       *)
Body ==
    /\ \/ pc = "body" \/ (pc = "idle" /\ ~s_stop_pending)
    /\ pc' = "idle"
    /\ IF s_isr_inhibited /\ s_state \notin {"OFF", "FAULT"}
       THEN /\ s_state' = "FAULT"
            /\ UNCHANGED <<s_stop_pending, s_isr_inhibited, refVars>>
       ELSE /\ s_i_q_ref' = IF s_state \in Normal \cup {"CALIB"}
                               /\ \/ s_stop_pending
                                  \/ s_current_source = "DIRECT" /\ s_state # "CALIB"
                            THEN s_i_q_ref_cmd ELSE s_i_q_ref
            /\ s_state' = IF s_state = "READY" /\ (s_i_d_ref # 0 \/ s_i_q_ref_cmd # 0)
                          THEN "RUN" ELSE s_state
            /\ UNCHANGED <<s_stop_pending, s_isr_inhibited, s_i_d_ref, s_i_q_ref_cmd>>
    /\ UNCHANGED <<angleVars, s_vtest_active, s_current_source, requestVars, drive>>

(* app_foc_set_iq_ref and app_foc_set_id_ref, which only the direct source  *)
(* has.                                                                     *)
SetDirectRef ==
    /\ "direct" \in Others
    /\ pc = "idle" /\ ~s_stop_pending /\ s_current_source = "DIRECT" /\ s_state \in Normal
    /\ \E a \in Amps : \/ s_i_q_ref_cmd' = a /\ UNCHANGED s_i_d_ref
                       \/ s_i_d_ref' = a /\ UNCHANGED s_i_q_ref_cmd
    /\ UNCHANGED <<stateVars, angleVars, s_vtest_active, s_current_source,
                   requestVars, s_i_q_ref, drive, pc>>

(* app_foc_set_angle_source.                                               *)
SetAngleSource ==
    /\ "angle" \in Others
    /\ pc = "idle" /\ s_state \in Normal \cup {"CALIB"}
    /\ s_current_source = "MOTION" => s_state = "CALIB"
    /\ s_angle_src' \in {"ENCODER", "FORCED"}
    /\ UNCHANGED <<stateVars, s_theta_held_valid, s_enc_degraded_streak, s_vtest_active,
                   s_current_source, requestVars, refVars, drive, pc>>

(* app_foc_calib_begin.                                                    *)
CalibBegin ==
    /\ "calib" \in Others
    /\ pc = "idle" /\ ~s_stop_pending /\ s_state \in Normal /\ ~s_vtest_active
    /\ s_state' = "CALIB" /\ s_angle_src' = "FORCED" /\ ClearRefs /\ Revoke
    /\ UNCHANGED <<s_stop_pending, s_isr_inhibited, s_theta_held_valid,
                   s_enc_degraded_streak, s_vtest_active, s_current_source, drive, pc>>

(* app_foc_calib_set_excitation, _set_current and _use_trial_offset.       *)
CalibDrive ==
    /\ pc = "idle" /\ s_state = "CALIB"
    /\ \/ s_angle_src' = "FORCED" /\ UNCHANGED <<s_theta_held_valid, s_enc_degraded_streak>>
       \/ UNCHANGED angleVars
       \/ s_angle_src' = "ENCODER" /\ ForgetAngle
    /\ s_i_d_ref' \in Amps /\ s_i_q_ref' \in Amps /\ UNCHANGED s_i_q_ref_cmd
    /\ UNCHANGED <<stateVars, s_vtest_active, s_current_source, requestVars, drive, pc>>

(* app_foc_calib_end.                                                      *)
CalibEnd ==
    /\ pc = "idle" /\ s_state = "CALIB"
    /\ s_state' = "READY" /\ s_angle_src' = "ENCODER" /\ ForgetAngle /\ ClearRefs /\ Revoke
    /\ UNCHANGED <<s_stop_pending, s_isr_inhibited, s_vtest_active, s_current_source,
                   drive, pc>>

(* app_foc_apply_encoder_offset, which `cal encoder apply` reaches in any   *)
(* state but calibration.  The typed command is not repeated within the     *)
(* millisecond a streak of missing angles takes to become a fault.          *)
ApplyEncoderOffset ==
    /\ "offset" \in Others
    /\ pc = "idle" /\ s_state # "CALIB" /\ s_enc_degraded_streak = 0
    /\ ForgetAngle
    /\ UNCHANGED <<stateVars, s_angle_src, s_vtest_active, s_current_source,
                   requestVars, refVars, drive, pc>>

(* app_foc_current_vtest_start.                                            *)
VtestStart ==
    /\ "vtest" \in Others
    /\ pc = "idle" /\ ~s_stop_pending /\ s_state # "CALIB" /\ s_current_source # "MOTION"
    /\ s_vtest_active' = TRUE
    /\ UNCHANGED <<stateVars, angleVars, s_current_source, requestVars, refVars, drive, pc>>

VtestStop ==
    /\ s_vtest_active /\ s_vtest_active' = FALSE
    /\ UNCHANGED <<stateVars, angleVars, s_current_source, requestVars, refVars, drive, pc>>

(***************************************************************************)
(* The beat: app_foc_isr_step.  `injected' is the current the compensation *)
(* tables would add to a motion request.                                   *)
(***************************************************************************)
Grow == IF age > Limit THEN age ELSE age + 1

ElapseUnwrapped ==
    request_age' = (IF s_current_request.valid THEN request_age + 1 ELSE 0) /\ age' = Grow

Elapse ==
    /\ request_age' = IF s_current_request.valid THEN (request_age + 1) % Wrap ELSE 0
    /\ age' = Grow

Idle == drive' = "none"

(* The emergency path: a fault state, an outside request, a failed reading, *)
(* or a latched stop.                                                       *)
BeatEmergency ==
    /\ s_isr_inhibited' = TRUE
    /\ Elapse /\ Idle
    /\ UNCHANGED <<s_state, s_stop_pending, angleVars, s_vtest_active, s_current_source,
                   s_current_request, s_current_request_expired, s_epoch_newest,
                   refVars, pc>>

BeatIdle ==
    /\ ~s_isr_inhibited /\ s_state \in {"OFF", "FAULT"}
    /\ Elapse /\ Idle
    /\ UNCHANGED <<stateVars, angleVars, s_vtest_active, s_current_source,
                   s_current_request, s_current_request_expired, s_epoch_newest,
                   refVars, pc>>

(* No angle yet and none this beat: a zero vector, and a fault when it      *)
(* lasts.                                                                   *)
BeatDegraded ==
    /\ ~s_isr_inhibited /\ s_state \notin {"OFF", "FAULT"}
    /\ s_angle_src = "ENCODER" /\ ~s_theta_held_valid
    /\ s_enc_degraded_streak < DegradedMax
    /\ s_enc_degraded_streak' = s_enc_degraded_streak + 1
    /\ s_isr_inhibited' = (s_enc_degraded_streak' = DegradedMax)
    /\ Elapse /\ Idle
    /\ UNCHANGED <<s_state, s_stop_pending, s_angle_src, s_theta_held_valid,
                   s_vtest_active, s_current_source, s_current_request,
                   s_current_request_expired, s_epoch_newest, refVars, pc>>

ByMotion == /\ s_current_source = "MOTION" /\ s_state # "CALIB"
            /\ ~s_stop_pending /\ ~s_vtest_active

(* Who a nonzero current of this beat is for.                              *)
Driver == IF s_vtest_active THEN "vtest"
          ELSE IF s_state = "CALIB" THEN "calib"
          ELSE IF s_stop_pending THEN "stop"
          ELSE IF ByMotion THEN "motion" ELSE "direct"

(* The request is too old; once seen, it stays too old.                    *)
ExpiredUnlatched == s_current_request.valid /\ request_age' > Limit
Expired == s_current_request_expired \/ ExpiredUnlatched

(* The angle is new or held: the current loop runs.                        *)
BeatRun(injected) ==
    /\ ~s_isr_inhibited /\ s_state \notin {"OFF", "FAULT"}
    /\ Elapse
    /\ \/ s_angle_src = "FORCED" /\ UNCHANGED <<s_theta_held_valid, s_enc_degraded_streak>>
       \/ /\ s_angle_src = "ENCODER"
          /\ s_theta_held_valid' = TRUE /\ s_enc_degraded_streak' = 0
    /\ LET live == s_current_request.valid /\ ~Expired
           wanted == IF live THEN s_current_request.amp ELSE 0
           add == IF live THEN injected ELSE 0
       IN  IF ByMotion
           THEN /\ s_current_request_expired' = Expired
                /\ s_i_d_ref' = 0 /\ s_i_q_ref' = wanted
                /\ drive' = IF wanted + add # 0 THEN "motion" ELSE "none"
           ELSE /\ UNCHANGED <<s_current_request_expired, s_i_d_ref, s_i_q_ref>>
                /\ drive' = IF s_i_d_ref + s_i_q_ref # 0 \/ s_vtest_active
                            THEN Driver ELSE "none"
    /\ UNCHANGED <<stateVars, s_angle_src, s_vtest_active, s_current_source,
                   s_current_request, s_epoch_newest, s_i_q_ref_cmd, pc>>

Beat(injected) == BeatEmergency \/ BeatIdle \/ BeatDegraded \/ BeatRun(injected)

(* Everything the io task does to the authority.                           *)
TaskStep ==
    \/ EnablePublish \/ Disable \/ DisableCritical \/ RequestStop \/ StopStep \/ Body
    \/ SetDirectRef \/ SetAngleSource \/ CalibBegin \/ CalibDrive \/ CalibEnd
    \/ ApplyEncoderOffset \/ VtestStart \/ VtestStop

(* Any client in the place of app_motion.c.                                *)
AuthorityNext ==
    \/ TaskStep \/ StopAsked
    \/ \E source \in {"DIRECT", "MOTION"}, byMotion \in BOOLEAN :
          SetCurrentSource(source, byMotion)
    \/ \E amp \in Amps : SubmitCurrent(amp)
    \/ \E injected \in Amps : Beat(injected)

AuthoritySpec == AuthorityInit /\ [][AuthorityNext]_authorityVars

(* The lease these rules amount to.                                        *)
Lease == INSTANCE CurrentLease WITH
            held <- s_current_request.valid, load <- (drive = "motion")

(* Every motion current is under a lease: whatever the wrapped age of the   *)
(* request says, nothing older than Limit beats drives, and nothing revoked *)
(* (app_foc.c:577-602).                                                     *)
LeaseKept == Lease!Spec

(* The motion source is never executed with a forced angle, however source, *)
(* calibration and stop are interleaved (app_foc.c:977, 1127, 1195).        *)
MotionSeesRotor ==
    (s_current_source = "MOTION" /\ s_state \in Normal) => s_angle_src = "ENCODER"
===============================================================================
