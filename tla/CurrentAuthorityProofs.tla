------------------------ MODULE CurrentAuthorityProofs ------------------------
(***************************************************************************)
(* Theorems about the current authority, for every expiry, every width of   *)
(* the cycle counter and whoever else may use the motor current.            *)
(***************************************************************************)
EXTENDS CurrentAuthority, TLAPS

(* The types, in the groups that different steps disturb.                  *)
TypeStage ==
    /\ s_state \in {"OFF", "READY", "RUN", "CALIB", "FAULT"}
    /\ s_stop_pending \in BOOLEAN /\ s_isr_inhibited \in BOOLEAN
    /\ s_angle_src \in {"ENCODER", "FORCED"} /\ s_theta_held_valid \in BOOLEAN
    /\ s_vtest_active \in BOOLEAN /\ s_current_source \in {"DIRECT", "MOTION"}
    /\ s_epoch_newest \in BOOLEAN
    /\ pc \in {"idle", "disable", "stop", "body"} /\ drive \in Drivers
TypeRefs == s_i_d_ref \in Amps /\ s_i_q_ref \in Amps /\ s_i_q_ref_cmd \in Amps
TypeRequest ==
    /\ s_current_request \in [valid : BOOLEAN, amp : Amps]
    /\ s_current_request_expired \in BOOLEAN
TypeAges ==
    /\ request_age \in 0 .. Wrap - 1 /\ age \in 0 .. Limit + 1
    /\ s_enc_degraded_streak \in 0 .. DegradedMax

LEMMA TypeParts == AuthorityTypeOK <=> TypeStage /\ TypeRefs /\ TypeRequest /\ TypeAges
BY DEF AuthorityTypeOK, TypeStage, TypeRefs, TypeRequest, TypeAges

(* A request in force belongs to a motion source nothing has overridden;    *)
(* until an emergency is latched the stage is in a normal state too.        *)
RequestOwned ==
    s_current_request.valid =>
        /\ s_current_source = "MOTION" /\ ~s_stop_pending /\ ~s_vtest_active
        /\ ~s_isr_inhibited => s_state \in Normal

(* A streak of beats without an angle that lasted has latched an emergency. *)
StreakLatched == s_enc_degraded_streak = DegradedMax => s_isr_inhibited

(* The wrapped age of such a request is the true one, or, in the beats      *)
(* without an angle that do not look at it, past Limit by no more than the  *)
(* length of that streak: it cannot have come round unseen.                 *)
AgeTrue ==
    s_current_request.valid /\ ~s_current_request_expired /\ ~s_isr_inhibited =>
        \/ age <= Limit /\ request_age = age
        \/ age > Limit /\ request_age > Limit
                       /\ request_age <= Limit + s_enc_degraded_streak

StageInv == RequestOwned /\ StreakLatched /\ MotionSeesRotor
AuthorityInv == AuthorityTypeOK /\ StageInv /\ AgeTrue

LEMMA NoRequestType == NoRequest \in [valid : BOOLEAN, amp : Amps] /\ ~NoRequest.valid
BY DEF NoRequest, Amps

LEMMA AuthorityInvInit == AuthorityInit => AuthorityInv
<1> SUFFICES ASSUME AuthorityInit PROVE AuthorityInv
    OBVIOUS
<1>1. TypeStage /\ TypeRefs
    BY DEF AuthorityInit, TypeStage, TypeRefs, Drivers, Amps
<1>2. TypeRequest /\ ~s_current_request.valid
    BY NoRequestType DEF AuthorityInit, TypeRequest
<1>3. TypeAges
    BY ExpiryAssumption DEF AuthorityInit, TypeAges
<1>4. StageInv /\ AgeTrue
    BY <1>2, ExpiryAssumption
       DEF AuthorityInit, StageInv, RequestOwned, StreakLatched, MotionSeesRotor, Normal, AgeTrue
<1> QED
    BY <1>1, <1>2, <1>3, <1>4, TypeParts DEF AuthorityInv

(***************************************************************************)
(* The operations of the task.  They leave the request and its age alone or *)
(* revoke the request, and they never lengthen a streak.                    *)
(***************************************************************************)
LEMMA TaskRequest ==
    TaskStep => /\ \/ UNCHANGED <<s_current_request, request_age, age,
                                  s_current_request_expired>>
                   \/ RevokeRequest
                /\ UNCHANGED s_enc_degraded_streak \/ s_enc_degraded_streak' = 0
BY DEF TaskStep, EnablePublish, Disable, DisableBegin, DisableCritical, RequestStop, StopAccepted,
   StopIgnored, StopStep, Body, SetDirectRef, SetAngleSource, CalibBegin, CalibDrive, CalibEnd,
   ApplyEncoderOffset, VtestStart, VtestStop, requestVars, angleVars, Revoke, ForgetAngle

LEMMA TaskTypes == AuthorityTypeOK /\ TaskStep => AuthorityTypeOK'
<1> SUFFICES ASSUME AuthorityTypeOK, TaskStep PROVE AuthorityTypeOK'
    OBVIOUS
<1> USE TypeParts
<1>1. TypeStage'
    BY DEF TypeStage, TaskStep, EnablePublish, Disable, DisableBegin, DisableCritical,
           RequestStop, StopAccepted, StopIgnored, StopStep, Body, SetDirectRef,
           SetAngleSource, CalibBegin, CalibDrive, CalibEnd, ApplyEncoderOffset, VtestStart,
           VtestStop, stateVars, angleVars, requestVars, Revoke, ForgetAngle
<1>2. TypeRefs'
    BY DEF TypeRefs, Amps, TaskStep, EnablePublish, Disable, DisableBegin, DisableCritical,
           RequestStop, StopAccepted, StopIgnored, StopStep, Body, SetDirectRef,
           SetAngleSource, CalibBegin, CalibDrive, CalibEnd, ApplyEncoderOffset, VtestStart,
           VtestStop, refVars, ClearRefs
<1>3. TypeRequest'
    BY TaskRequest, NoRequestType DEF TypeRequest, RevokeRequest
<1>4. TypeAges'
    BY TaskRequest, ExpiryAssumption DEF TypeAges, RevokeRequest
<1> QED
    BY <1>1, <1>2, <1>3, <1>4
       DEF AuthorityTypeOK, TypeStage, TypeRefs, TypeRequest, TypeAges

(* What the owner of a request must not lose: no operation of the task      *)
(* overrides a motion source without revoking its request.                  *)
LEMMA TaskStage == AuthorityTypeOK /\ StageInv /\ TaskStep => StageInv'
<1> SUFFICES ASSUME AuthorityTypeOK, StageInv, TaskStep PROVE StageInv'
    OBVIOUS
<1> USE NoRequestType, ExpiryAssumption
    DEF StageInv, RequestOwned, StreakLatched, MotionSeesRotor, Normal,
        stateVars, angleVars, requestVars, refVars, Revoke, RevokeRequest, ForgetAngle
<1>1. CASE EnablePublish
    BY <1>1 DEF EnablePublish
<1>2. CASE Disable \/ DisableCritical
    BY <1>2 DEF Disable, DisableBegin, DisableCritical
<1>3. CASE RequestStop \/ StopStep
    BY <1>3 DEF RequestStop, StopAccepted, StopIgnored, StopStep, DisableBegin
<1>4. CASE Body
    BY <1>4 DEF Body
<1>5. CASE SetDirectRef \/ SetAngleSource
    BY <1>5 DEF SetDirectRef, SetAngleSource
<1>6. CASE CalibBegin \/ CalibDrive \/ CalibEnd
    BY <1>6 DEF CalibBegin, CalibDrive, CalibEnd
<1>7. CASE ApplyEncoderOffset
    BY <1>7 DEF ApplyEncoderOffset
<1>8. CASE VtestStart \/ VtestStop
    BY <1>8 DEF VtestStart, VtestStop
<1> QED
    BY <1>1, <1>2, <1>3, <1>4, <1>5, <1>6, <1>7, <1>8 DEF TaskStep

(* A streak is only cut short where there is no request to expire.         *)
LEMMA TaskAge == AuthorityInv /\ TaskStep => AgeTrue'
<1> SUFFICES ASSUME AuthorityInv, TaskStep PROVE AgeTrue'
    OBVIOUS
<1>1. CASE RevokeRequest
    BY <1>1, NoRequestType DEF RevokeRequest, AgeTrue
<1>2. CASE ~RevokeRequest
    <2>1. UNCHANGED <<s_current_request, request_age, age, s_current_request_expired>>
        BY <1>2, TaskRequest
    <2>2. \/ UNCHANGED s_enc_degraded_streak
          \/ s_current_request.valid => s_isr_inhibited
        BY <1>2 DEF AuthorityInv, StageInv, RequestOwned, Normal, TaskStep, EnablePublish, Disable,
           DisableBegin, DisableCritical, RequestStop, StopAccepted, StopIgnored, StopStep, Body,
           SetDirectRef, SetAngleSource, CalibBegin, CalibDrive, CalibEnd, ApplyEncoderOffset,
           VtestStart, VtestStop, angleVars, Revoke, ForgetAngle
    <2>3. s_isr_inhibited' = s_isr_inhibited
        BY <1>2 DEF TaskStep, EnablePublish, Disable, DisableBegin, DisableCritical, RequestStop,
           StopAccepted, StopIgnored, StopStep, Body, SetDirectRef, SetAngleSource, CalibBegin,
           CalibDrive, CalibEnd, ApplyEncoderOffset, VtestStart, VtestStop, stateVars, Revoke
    <2> QED
        BY <2>1, <2>2, <2>3 DEF AuthorityInv, AgeTrue
<1> QED
    BY <1>1, <1>2

(***************************************************************************)
(* The motion interrupt.                                                   *)
(***************************************************************************)
LEMMA SourcePreserves ==
    ASSUME NEW source \in {"DIRECT", "MOTION"}, NEW byMotion \in BOOLEAN,
           AuthorityInv, SetCurrentSource(source, byMotion)
    PROVE  AuthorityInv'
<1> USE TypeParts, NoRequestType DEF AuthorityInv, SetCurrentSource, RevokeRequest
<1>1. (TypeStage /\ TypeRefs)'
    BY DEF TypeStage, TypeRefs, stateVars, angleVars, refVars
<1>2. TypeRequest'
    BY DEF TypeRequest
<1>3. TypeAges'
    BY ExpiryAssumption DEF TypeAges, angleVars
<1>4. (StageInv /\ AgeTrue)'
    BY DEF StageInv, RequestOwned, StreakLatched, MotionSeesRotor, AgeTrue, MaySetSource,
           stateVars, angleVars
<1> QED
    BY <1>1, <1>2, <1>3, <1>4 DEF AuthorityTypeOK, TypeStage, TypeRefs, TypeRequest, TypeAges

LEMMA SubmitPreserves ==
    ASSUME NEW amp \in Amps, AuthorityInv, SubmitCurrent(amp)
    PROVE  AuthorityInv'
<1>1. CASE MaySubmit
    <2> USE <1>1 DEF AuthorityInv, SubmitCurrent, Submit
    <2>1. [valid |-> TRUE, amp |-> amp] \in [valid : BOOLEAN, amp : Amps]
        OBVIOUS
    <2>2. (TypeStage /\ TypeRefs)'
        BY TypeParts DEF TypeStage, TypeRefs, angleVars, refVars
    <2>3. TypeRequest'
        BY <2>1 DEF TypeRequest
    <2>4. TypeAges'
        BY TypeParts, ExpiryAssumption DEF TypeAges, angleVars
    <2>5. (StageInv /\ AgeTrue)'
        BY ExpiryAssumption
           DEF MaySubmit, StageInv, RequestOwned, StreakLatched, MotionSeesRotor, AgeTrue,
               Normal, angleVars
    <2> QED
        BY <2>2, <2>3, <2>4, <2>5 DEF AuthorityTypeOK, TypeStage, TypeRefs, TypeRequest, TypeAges
<1>2. CASE ~MaySubmit
    BY <1>2 DEF SubmitCurrent, authorityVars, stateVars, angleVars, requestVars, refVars,
       AuthorityInv, AuthorityTypeOK, StageInv, RequestOwned, StreakLatched, MotionSeesRotor, AgeTrue
<1> QED
    BY <1>1, <1>2

(***************************************************************************)
(* The beat.                                                               *)
(***************************************************************************)
LEMMA ElapseTypes ==
    ASSUME AuthorityTypeOK, Elapse
    PROVE  request_age' \in 0 .. Wrap - 1 /\ age' \in 0 .. Limit + 1
<1>1. (request_age + 1) % Wrap \in 0 .. Wrap - 1
    BY ExpiryAssumption, TypeParts DEF TypeAges
<1> QED
    BY <1>1, ExpiryAssumption, TypeParts DEF TypeAges, Elapse, Grow

(* A beat of a request that has not been found expired cannot bring its     *)
(* age round: what the code reads is the true age, or past Limit as it is.  *)
LEMMA AgeStep ==
    ASSUME AuthorityInv, Elapse, s_current_request.valid, ~s_current_request_expired,
           ~s_isr_inhibited
    PROVE  \/ age' <= Limit /\ request_age' = age'
           \/ age' > Limit /\ request_age' > Limit
                           /\ request_age' <= Limit + s_enc_degraded_streak + 1
<1>1. /\ s_enc_degraded_streak \in 0 .. DegradedMax - 1 /\ age \in 0 .. Limit + 1
      /\ request_age \in 0 .. Wrap - 1
    BY ExpiryAssumption, TypeParts DEF AuthorityInv, TypeAges, StageInv, StreakLatched
<1>2. request_age + 1 \in 0 .. Wrap - 1
    BY <1>1, ExpiryAssumption DEF AuthorityInv, AgeTrue
<1>3. (request_age + 1) % Wrap = request_age + 1
    BY <1>2, ExpiryAssumption
<1>4. request_age' = request_age + 1 /\ age' = Grow
    BY <1>3 DEF Elapse
<1> QED
    BY <1>1, <1>4, ExpiryAssumption DEF AuthorityInv, AgeTrue, Grow

LEMMA BeatTypes ==
    ASSUME NEW injected \in Amps, AuthorityTypeOK, Beat(injected)
    PROVE  AuthorityTypeOK'
<1>1. TypeStage'
    BY TypeParts DEF TypeStage, Drivers, Driver, Beat, BeatEmergency, BeatIdle, BeatDegraded,
       BeatRun, Idle, stateVars, angleVars
<1>2. (TypeRefs /\ TypeRequest)'
    <2>1. TypeRefs /\ TypeRequest /\ 0 \in Amps
        BY TypeParts DEF Amps
    <2>2. UNCHANGED s_current_request /\ s_current_request_expired' \in BOOLEAN
        BY <2>1 DEF TypeRequest, Beat, BeatEmergency, BeatIdle, BeatDegraded, BeatRun, Expired,
           ExpiredUnlatched
    <2>3. s_current_request.amp \in Amps
        BY <2>1 DEF TypeRequest
    <2> QED
        BY <2>1, <2>2, <2>3 DEF TypeRefs, TypeRequest, Beat, BeatEmergency, BeatIdle, BeatDegraded,
           BeatRun, refVars
<1>3. TypeAges'
    <2>1. Elapse /\ TypeAges
        BY TypeParts DEF Beat, BeatEmergency, BeatIdle, BeatDegraded, BeatRun
    <2>2. s_enc_degraded_streak' \in 0 .. DegradedMax
        BY <2>1, ExpiryAssumption DEF TypeAges, Beat, BeatEmergency, BeatIdle, BeatDegraded,
           BeatRun, angleVars
    <2> QED
        BY <2>1, <2>2, ElapseTypes DEF TypeAges
<1> QED
    BY <1>1, <1>2, <1>3 DEF AuthorityTypeOK, TypeStage, TypeRefs, TypeRequest, TypeAges

LEMMA BeatStage ==
    ASSUME NEW injected \in Amps, AuthorityInv, Beat(injected)
    PROVE  StageInv'
<1> USE DEF AuthorityInv, StageInv, RequestOwned, StreakLatched, MotionSeesRotor, Normal
<1>1. CASE BeatEmergency
    BY <1>1 DEF BeatEmergency, angleVars
<1>2. CASE BeatIdle
    BY <1>2 DEF BeatIdle, stateVars, angleVars
<1>3. CASE BeatDegraded
    BY <1>3 DEF BeatDegraded
<1>4. CASE BeatRun(injected)
    BY <1>4, ExpiryAssumption DEF BeatRun, stateVars
<1> QED
    BY <1>1, <1>2, <1>3, <1>4 DEF Beat

(* The loop runs for a request only if nothing overrides it.               *)
LEMMA OwnedIsByMotion ==
    ASSUME AuthorityInv, s_current_request.valid, ~s_isr_inhibited
    PROVE  ByMotion /\ s_state \in Normal
BY DEF AuthorityInv, StageInv, RequestOwned, ByMotion, Normal

LEMMA BeatAge ==
    ASSUME NEW injected \in Amps, AuthorityInv, Beat(injected)
    PROVE  AgeTrue'
<1> SUFFICES ASSUME s_current_request'.valid, ~s_current_request_expired', ~s_isr_inhibited'
             PROVE  \/ age' <= Limit /\ request_age' = age'
                    \/ age' > Limit /\ request_age' > Limit
                                    /\ request_age' <= Limit + s_enc_degraded_streak'
    BY DEF AgeTrue
<1>1. CASE BeatEmergency
    BY <1>1 DEF BeatEmergency
<1>2. CASE BeatIdle
    BY <1>2, OwnedIsByMotion DEF BeatIdle, Normal
<1>3. CASE BeatDegraded
    <2>1. /\ Elapse /\ s_current_request.valid /\ ~s_current_request_expired
          /\ ~s_isr_inhibited /\ s_enc_degraded_streak' = s_enc_degraded_streak + 1
        BY <1>3 DEF BeatDegraded
    <2>2. s_enc_degraded_streak \in Nat /\ Limit \in Nat
        BY TypeParts, ExpiryAssumption DEF AuthorityInv, TypeAges
    <2> QED
        BY <2>1, <2>2, AgeStep
<1>4. CASE BeatRun(injected)
    <2>1. /\ Elapse /\ s_current_request.valid /\ ~s_isr_inhibited
        BY <1>4 DEF BeatRun, stateVars
    <2>2. ~Expired
        BY <1>4, <2>1, OwnedIsByMotion DEF BeatRun
    <2>3. ~s_current_request_expired /\ ~(request_age' > Limit)
        BY <2>1, <2>2 DEF Expired, ExpiredUnlatched
    <2> QED
        BY <2>1, <2>3, AgeStep
<1> QED
    BY <1>1, <1>2, <1>3, <1>4 DEF Beat

(***************************************************************************)
(* The theorems.                                                           *)
(***************************************************************************)
LEMMA AuthorityInvStep == AuthorityInv /\ [AuthorityNext]_authorityVars => AuthorityInv'
<1> SUFFICES ASSUME AuthorityInv, [AuthorityNext]_authorityVars PROVE AuthorityInv'
    OBVIOUS
<1>1. CASE TaskStep
    BY <1>1, TaskTypes, TaskStage, TaskAge DEF AuthorityInv
<1>2. CASE \E source \in {"DIRECT", "MOTION"}, byMotion \in BOOLEAN :
              SetCurrentSource(source, byMotion)
    BY <1>2, SourcePreserves
<1>3. CASE \E amp \in Amps : SubmitCurrent(amp)
    BY <1>3, SubmitPreserves
<1>4. CASE \E injected \in Amps : Beat(injected)
    BY <1>4, BeatTypes, BeatStage, BeatAge DEF AuthorityInv
<1>5. CASE StopAsked \/ UNCHANGED authorityVars
    BY <1>5 DEF StopAsked, authorityVars, stateVars, angleVars, requestVars, refVars,
       AuthorityInv, AuthorityTypeOK, StageInv, RequestOwned, StreakLatched, MotionSeesRotor, AgeTrue
<1> QED
    BY <1>1, <1>2, <1>3, <1>4, <1>5 DEF AuthorityNext

LEMMA AuthorityInvHolds == AuthoritySpec => []AuthorityInv
BY AuthorityInvInit, AuthorityInvStep, PTL DEF AuthoritySpec

(* The variables of app_foc.c that decide about the current keep their      *)
(* types; the wrapped age of a request stays below the width it wraps at.   *)
THEOREM AuthorityTypeCorrect == AuthoritySpec => []AuthorityTypeOK
BY AuthorityInvHolds, PTL DEF AuthorityInv

(* app_foc_set_current_source, app_foc_set_angle_source and the calibration *)
(* never let the motion source run on a forced angle.                       *)
THEOREM MotionAlwaysSeesRotor == AuthoritySpec => []MotionSeesRotor
BY AuthorityInvHolds, PTL DEF AuthorityInv, StageInv

(* A beat drives for the motion source only under the lease.               *)
LEMMA BeatUnderLease ==
    ASSUME NEW injected \in Amps, AuthorityInv, Beat(injected), drive' = "motion"
    PROVE  s_current_request.valid /\ age' <= Limit
<1>1. BeatRun(injected)
    BY DEF Beat, BeatEmergency, BeatIdle, BeatDegraded, Idle
<1>2. ByMotion
    BY <1>1 DEF BeatRun, Driver
<1>3. s_current_request.valid /\ ~Expired
    BY <1>1, <1>2, TypeParts DEF BeatRun, AuthorityInv, TypeRequest, Amps
<1>4. Elapse /\ ~s_isr_inhibited /\ ~s_current_request_expired /\ ~(request_age' > Limit)
    BY <1>1, <1>3 DEF BeatRun, Expired, ExpiredUnlatched
<1> QED
    BY <1>3, <1>4, AgeStep

(* Every step is one of the lease.                                          *)
LEMMA LeaseStep == AuthorityInv /\ [AuthorityNext]_authorityVars => [Lease!Next]_(Lease!vars)
<1> SUFFICES ASSUME AuthorityInv, [AuthorityNext]_authorityVars
             PROVE  [Lease!Next]_(Lease!vars)
    OBVIOUS
<1>1. CASE TaskStep
    <2>1. UNCHANGED drive
        BY <1>1 DEF TaskStep, EnablePublish, Disable, DisableBegin, DisableCritical,
           RequestStop, StopAccepted, StopIgnored, StopStep, Body, SetDirectRef,
           SetAngleSource, CalibBegin, CalibDrive, CalibEnd, ApplyEncoderOffset,
           VtestStart, VtestStop
    <2> QED
        BY <1>1, <2>1, TaskRequest, NoRequestType
           DEF RevokeRequest, Lease!Next, Lease!Revoke, Lease!vars
<1>2. CASE \E source \in {"DIRECT", "MOTION"}, byMotion \in BOOLEAN :
              SetCurrentSource(source, byMotion)
    BY <1>2, NoRequestType DEF SetCurrentSource, RevokeRequest, Lease!Next, Lease!Revoke
<1>3. CASE \E amp \in Amps : SubmitCurrent(amp)
    BY <1>3 DEF SubmitCurrent, Submit, authorityVars, requestVars, Lease!Next, Lease!Renew,
       Lease!vars
<1>4. CASE \E injected \in Amps : Beat(injected)
    <2>1. PICK injected \in Amps : Beat(injected)
        BY <1>4
    <2>2. Elapse /\ UNCHANGED s_current_request
        BY <2>1 DEF Beat, BeatEmergency, BeatIdle, BeatDegraded, BeatRun
    <2>3. drive' = "motion" => s_current_request.valid /\ age' <= Limit
        BY <2>1, BeatUnderLease
    <2> QED
        BY <2>2, <2>3 DEF Elapse, Grow, Lease!Next, Lease!Beat, Lease!Older
<1>5. CASE StopAsked \/ UNCHANGED authorityVars
    BY <1>5 DEF StopAsked, authorityVars, requestVars, Lease!vars
<1> QED
    BY <1>1, <1>2, <1>3, <1>4, <1>5 DEF AuthorityNext

LEMMA LeaseInit == AuthorityInit => Lease!Init
BY NoRequestType DEF AuthorityInit, Lease!Init

(* The authority of app_foc.c implements the lease: no motion current       *)
(* without an accepted request of at most Limit beats, however often the    *)
(* request's measured age has come round.                                   *)
THEOREM AuthorityImplementsLease == AuthoritySpec => LeaseKept
BY LeaseInit, LeaseStep, AuthorityInvHolds, PTL DEF AuthoritySpec, LeaseKept, Lease!Spec
===============================================================================
