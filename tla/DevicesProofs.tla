------------------------- MODULE DevicesProofs ----------------------------
(***************************************************************************)
(* What an identification job opens is closed, and what it asks for keeps to *)
(* the promises of the current authority, for every limit of the authority   *)
(* and whoever else may use the motor current; and what is proved of each    *)
(* component alone holds in the run that puts them together.                *)
(***************************************************************************)
EXTENDS MCDevices, CurrentAuthorityProofs, EncoderSamplingProofs, CommProofs, StorageProofs

AllStages == (UNION {StagesOf[j] : j \in Jobs}) \cup {"IDLE"}

JobFn == job_state \in [Jobs -> AllStages]

(* The terminal keeps the jobs apart, but for a motor calibration that the  *)
(* debugger has started.                                                   *)
SlotInv == \A j \in Jobs \ {"motor"} : Busy(j) => s_active_job = j

FlagInv ==
    /\ s_suspended = (Busy("friction") \/ Busy("cogging"))
    /\ s_friction_suspended = Busy("friction")
    /\ s_output_tracking = Busy("cogging")

CalibInv == s_state = "CALIB" => Busy("motor") \/ Busy("rl")

(* A direct current asked for: wherever the task stands, but between the    *)
(* two halves of a disable, whose second half clears it.                   *)
Stirred == DirectAllowed /\ pc # "disable" /\ (s_i_q_ref_cmd # 0 \/ s_i_d_ref # 0)
DirectInv == Stirred => Busy("inertia")

JobsInv == JobFn /\ SlotInv /\ FlagInv /\ CalibInv /\ DirectInv

LEMMA InvImplies == JobsInv => BracketsMatch
BY DEF JobsInv, FlagInv, CalibInv, DirectInv, Stirred, BracketsMatch

LEMMA Stages ==
    /\ \A j \in Jobs : StagesOf[j] \subseteq AllStages
    /\ "IDLE" \in AllStages
BY DEF AllStages

LEMMA StagesAre ==
    /\ StagesOf["motor"] = {"RUN", "VERIFY"}
    /\ StagesOf["friction"] = {"SETTLING", "SAMPLING"}
    /\ StagesOf["inertia"] = {"SETTLE", "ACCEL", "MEASURE_POS", "NEG_SETTLE", "MEASURE_NEG"}
    /\ StagesOf["rl"] = {"ZERO_SETTLE", "ZERO_CAPTURE", "SETTLE", "RS", "LD_SETTLE", "LD",
                         "PI_SETTLE", "PI"}
    /\ StagesOf["cogging"] = {"SETTLE_FWD", "SWEEP_FWD", "STOP_FWD", "SETTLE_REV", "SWEEP_REV",
                              "STOP_REV"}
<1>1. /\ StagesOf["motor"] = {"RUN", "VERIFY"}
      /\ StagesOf["friction"] = {"SETTLING", "SAMPLING"}
    BY DEF StagesOf
<1>2. StagesOf["inertia"] = {"SETTLE", "ACCEL", "MEASURE_POS", "NEG_SETTLE", "MEASURE_NEG"}
    BY DEF StagesOf
<1>3. StagesOf["rl"] = {"ZERO_SETTLE", "ZERO_CAPTURE", "SETTLE", "RS", "LD_SETTLE", "LD",
                        "PI_SETTLE", "PI"}
    BY DEF StagesOf
<1>4. StagesOf["cogging"] = {"SETTLE_FWD", "SWEEP_FWD", "STOP_FWD", "SETTLE_REV", "SWEEP_REV",
                             "STOP_REV"}
    BY DEF StagesOf
<1> QED
    BY <1>1, <1>2, <1>3, <1>4

LEMMA NamedStages ==
    {"RUN", "VERIFY", "SETTLE", "ACCEL", "MEASURE_POS", "NEG_SETTLE", "MEASURE_NEG",
     "SETTLING", "SAMPLING", "SETTLE_FWD", "SWEEP_FWD", "STOP_FWD", "SETTLE_REV", "SWEEP_REV",
     "STOP_REV", "ZERO_SETTLE", "ZERO_CAPTURE", "RS", "LD_SETTLE", "LD", "PI_SETTLE", "PI"}
        \subseteq AllStages
<1>1. \A j \in Jobs : StagesOf[j] \subseteq AllStages
    BY Stages
<1>2. {"motor", "rl", "inertia", "friction", "cogging"} = Jobs
    BY DEF Jobs
<1> HIDE DEF AllStages
<1> QED
    BY <1>1, <1>2, StagesAre

(* What a job's new state does to the others: nothing.                      *)
LEMMA BecomesOne ==
    ASSUME NEW j \in Jobs, NEW stage \in AllStages, JobFn, Becomes(j, stage)
    PROVE  /\ JobFn'
           /\ job_state'[j] = stage
           /\ \A k \in Jobs \ {j} : job_state'[k] = job_state[k]
BY DEF Becomes, JobFn

(***************************************************************************)
(* The authority: which of its operations neither ask for a direct current  *)
(* nor open a calibration.                                                 *)
(***************************************************************************)
Calm == (Stirred' => Stirred) /\ (s_state' = "CALIB" => s_state = "CALIB")

LEMMA UnchangedCalm == UNCHANGED authorityVars => Calm
BY DEF authorityVars, stateVars, requestVars, refVars, Calm, Stirred, DirectAllowed

LEMMA TaskCalm ==
    EnablePublish \/ Disable \/ DisableCritical \/ RequestStop \/ StopStep \/ Body => Calm
<1>1. EnablePublish => Calm
    BY DEF EnablePublish, ClearRefs, Calm, Stirred
<1>2. DisableBegin => Calm
    BY DEF DisableBegin, Calm, Stirred
<1>3. DisableCritical => Calm
    BY DEF DisableCritical, Calm, Stirred, DirectAllowed, Normal
<1>4. RequestStop => Calm
    BY <1>2 DEF RequestStop, StopAccepted, StopIgnored, stateVars, refVars, Calm, Stirred,
       DirectAllowed
<1>5. StopStep => Calm
    BY <1>2 DEF StopStep, ClearRefs, stateVars, refVars, Calm, Stirred, DirectAllowed
<1>6. Body => Calm
    BY DEF Body, refVars, Calm, Stirred, DirectAllowed, Normal
<1> QED
    BY <1>1, <1>2, <1>3, <1>4, <1>5, <1>6 DEF Disable

LEMMA RequestCalm ==
    /\ \A amp \in Amps : SubmitCurrent(amp) => Calm
    /\ StopAsked => Calm
    /\ \A source \in {"DIRECT", "MOTION"}, byMotion \in BOOLEAN :
          SetCurrentSource(source, byMotion) => Calm
<1>1. ASSUME NEW amp \in Amps, SubmitCurrent(amp) PROVE Calm
    BY <1>1, UnchangedCalm DEF SubmitCurrent, Submit, MaySubmit, refVars, Calm, Stirred, DirectAllowed
<1>2. StopAsked => Calm
    BY DEF StopAsked, stateVars, refVars, Calm, Stirred, DirectAllowed
<1>3. ASSUME NEW source \in {"DIRECT", "MOTION"}, NEW byMotion \in BOOLEAN,
             SetCurrentSource(source, byMotion)
      PROVE  Calm
    BY <1>3 DEF SetCurrentSource, MaySetSource, stateVars, refVars, Calm, Stirred, DirectAllowed,
       Normal
<1> QED
    BY <1>1, <1>2, <1>3

LEMMA CalibCalm ==
    /\ CalibEnd => Calm /\ s_state' # "CALIB"
    /\ CalibDrive => Calm
    /\ CalibBegin => ~Stirred'
BY DEF CalibEnd, CalibDrive, CalibBegin, ClearRefs, stateVars, Calm, Stirred, DirectAllowed, Normal

LEMMA CloseCalm == CloseCalib => Calm /\ s_state' # "CALIB"
BY CalibCalm, UnchangedCalm DEF CloseCalib, authorityVars, stateVars

LEMMA BeatCalm == BeatEmergency \/ BeatRun(0) => Calm
<1>1. BeatEmergency => Calm
    BY DEF BeatEmergency, refVars, Calm, Stirred, DirectAllowed
<1>2. BeatRun(0) => Calm
    BY DEF BeatRun, ByMotion, stateVars, Calm, Stirred, DirectAllowed
<1> QED
    BY <1>1, <1>2

LEMMA SpeedCalm == SpeedAccepted => Calm
BY RequestCalm, UnchangedCalm DEF SpeedAccepted

LEMMA ReleaseCalm == Release \/ Stop => Calm
BY RequestCalm DEF Release, Stop, Amps

LEMMA DirectCalm ==
    /\ AskDirect(0) => ~Stirred' /\ UNCHANGED s_state
    /\ AskDirect(1) => UNCHANGED s_state
BY DEF AskDirect, stateVars, Stirred, DirectAllowed

(***************************************************************************)
(* The invariant, step by step.                                            *)
(***************************************************************************)
LEMMA JobsInvInit == JobsInit /\ AuthorityInit => JobsInv
<1> SUFFICES ASSUME JobsInit, AuthorityInit PROVE JobsInv
    OBVIOUS
<1>1. JobFn /\ \A j \in Jobs : ~Busy(j)
    BY Stages DEF JobsInit, JobFn, Busy
<1>2. {"friction", "cogging"} \subseteq Jobs
    BY DEF Jobs
<1>3. SlotInv /\ FlagInv
    BY <1>1, <1>2 DEF JobsInit, SlotInv, FlagInv, Busy
<1>4. CalibInv /\ DirectInv
    BY DEF AuthorityInit, CalibInv, DirectInv, Stirred
<1> QED
    BY <1>1, <1>3, <1>4 DEF JobsInv

(* A step that leaves the jobs and what they hold as they are.              *)
LEMMA BesideInv ==
    ASSUME JobsInv, Calm, UNCHANGED <<job_state, s_active_job, bracketVars>>
    PROVE  JobsInv'
BY DEF JobsInv, JobFn, SlotInv, FlagInv, CalibInv, DirectInv, Calm, Busy, bracketVars

(* A job goes on: from one of its stages to another.                        *)
LEMMA GoesOnInv ==
    ASSUME JobsInv, Calm, NEW j \in Jobs, Busy(j), NEW stage \in AllStages \ {"IDLE"},
           Becomes(j, stage), UNCHANGED <<s_active_job, bracketVars>>
    PROVE  JobsInv'
<1>1. JobFn' /\ \A k \in Jobs : Busy(k)' = Busy(k)
    BY BecomesOne DEF JobsInv, Busy
<1>2. {"motor", "rl", "inertia", "friction", "cogging"} = Jobs
    BY DEF Jobs
<1> QED
    BY <1>1, <1>2 DEF JobsInv, SlotInv, FlagInv, CalibInv, DirectInv, Calm, bracketVars

(* A job that holds no compensation ends; the calibration is closed if it    *)
(* may be its own.                                                         *)
LEMMA EndsInv ==
    ASSUME JobsInv, NEW j \in {"motor", "rl", "inertia"}, Becomes(j, "IDLE"),
           UNCHANGED bracketVars,
           s_active_job' = s_active_job \/ s_active_job = j,
           \/ j # "inertia" /\ Calm /\ s_state' # "CALIB"
           \/ j = "inertia" /\ ~Stirred' /\ UNCHANGED s_state
    PROVE  JobsInv'
<1>1. {"motor", "rl", "inertia", "friction", "cogging"} = Jobs
    BY DEF Jobs
<1>2. JobFn' /\ ~Busy(j)' /\ \A k \in Jobs \ {j} : Busy(k)' = Busy(k)
    BY <1>1, BecomesOne, Stages DEF JobsInv, Busy
<1>3. SlotInv'
    BY <1>1, <1>2 DEF JobsInv, SlotInv
<1>4. FlagInv'
    BY <1>1, <1>2 DEF JobsInv, FlagInv, bracketVars
<1>5. CalibInv' /\ DirectInv'
    BY <1>1, <1>2 DEF JobsInv, CalibInv, DirectInv, Calm
<1> QED
    BY <1>2, <1>3, <1>4, <1>5 DEF JobsInv

LEMMA MotorInv ==
    ASSUME JobsInv, MotorStep PROVE JobsInv'
<1>1. "motor" \in Jobs
    BY DEF Jobs
<1>2. CASE MotorFinish
    BY <1>2, CloseCalm, EndsInv DEF MotorFinish, MotorStep
<1>3. CASE MotorRun /\ UNCHANGED job_state
    BY <1>3, CalibCalm, BesideInv DEF MotorRun, MotorStep
<1>4. CASE MotorRun /\ Becomes("motor", "VERIFY")
    BY <1>1, <1>4, CalibCalm, NamedStages, GoesOnInv DEF MotorRun, MotorStep, Busy
<1>5. CASE MotorVerify
    BY <1>5, CalibCalm, BesideInv DEF MotorVerify, MotorStep
<1> QED
    BY <1>2, <1>3, <1>4, <1>5 DEF MotorStep, MotorRun

LEMMA RlInv ==
    ASSUME JobsInv, RlStep PROVE JobsInv'
<1>1. "rl" \in Jobs
    BY DEF Jobs
<1>2. CASE RlFinish
    BY <1>2, CloseCalm, EndsInv DEF RlFinish, RlStep
<1>3. CASE RlAdvance
  <2>1. PICK stage \in RlNext(job_state["rl"]) : Becomes("rl", stage)
      BY <1>3 DEF RlAdvance
  <2>2. stage \in AllStages \ {"IDLE"}
      BY NamedStages DEF RlNext
  <2> QED
      BY <1>1, <1>3, <2>1, <2>2, CalibCalm, GoesOnInv DEF RlAdvance, RlStep
<1> QED
    BY <1>2, <1>3 DEF RlStep

LEMMA InertiaInv ==
    ASSUME JobsInv, InertiaStep PROVE JobsInv'
<1>1. "inertia" \in Jobs
    BY DEF Jobs
<1>2. CASE InertiaEnd
    BY <1>2, DirectCalm, EndsInv DEF InertiaEnd, InertiaStep
<1>3. CASE InertiaRun
  <2>1. PICK stage \in {"SETTLE", "ACCEL", "MEASURE_POS", "NEG_SETTLE", "MEASURE_NEG"} :
            Becomes("inertia", stage)
      BY <1>3 DEF InertiaRun
  <2>2. UNCHANGED s_state
      BY <1>3, DirectCalm DEF InertiaRun, authorityVars, stateVars
  <2>3. /\ JobFn' /\ Busy("inertia")'
        /\ \A k \in Jobs : Busy(k)' = Busy(k)
      BY <1>1, <1>3, <2>1, NamedStages, BecomesOne DEF JobsInv, InertiaRun, Busy
  <2>4. {"motor", "rl", "inertia", "friction", "cogging"} = Jobs
      BY DEF Jobs
  <2> QED
      BY <2>2, <2>3, <2>4
         DEF JobsInv, SlotInv, FlagInv, CalibInv, DirectInv, InertiaStep, bracketVars
<1> QED
    BY <1>2, <1>3 DEF InertiaStep

(* The friction and the cogging job hold the terminal, so that neither gives *)
(* back what the other one has suspended.                                  *)
LEMMA Apart == ASSUME JobsInv PROVE ~(Busy("friction") /\ Busy("cogging"))
BY DEF JobsInv, SlotInv, Jobs

LEMMA MotionEndsInv ==
    ASSUME JobsInv, NEW j \in {"friction", "cogging"}, Busy(j), Becomes(j, "IDLE"), Calm,
           s_active_job' = s_active_job \/ s_active_job = j,
           s_suspended' = FALSE,
           j = "friction" => s_friction_suspended' = FALSE /\ UNCHANGED s_output_tracking,
           j = "cogging" => s_output_tracking' = FALSE /\ UNCHANGED s_friction_suspended
    PROVE  JobsInv'
<1>1. {"motor", "rl", "inertia", "friction", "cogging"} = Jobs
    BY DEF Jobs
<1>2. JobFn' /\ ~Busy(j)' /\ \A k \in Jobs \ {j} : Busy(k)' = Busy(k)
    BY <1>1, BecomesOne, Stages DEF JobsInv, Busy
<1>3. SlotInv'
    BY <1>1, <1>2 DEF JobsInv, SlotInv
<1>4. ASSUME j = "friction" PROVE FlagInv'
  <2>1. ~Busy("cogging") /\ ~Busy("friction")' /\ Busy("cogging")' = Busy("cogging")
      BY <1>1, <1>2, <1>4, Apart
  <2> QED
      BY <1>4, <2>1 DEF JobsInv, FlagInv, Busy
<1>5. ASSUME j = "cogging" PROVE FlagInv'
  <2>1. ~Busy("friction") /\ ~Busy("cogging")' /\ Busy("friction")' = Busy("friction")
      BY <1>1, <1>2, <1>5, Apart
  <2> QED
      BY <1>5, <2>1 DEF JobsInv, FlagInv, Busy
<1>6. CalibInv' /\ DirectInv'
    BY <1>1, <1>2 DEF JobsInv, CalibInv, DirectInv, Calm
<1> QED
    BY <1>2, <1>3, <1>4, <1>5, <1>6 DEF JobsInv

LEMMA FrictionEndInv ==
    ASSUME JobsInv, FrictionEnd \/ FrictionAbort,
           s_active_job' = s_active_job \/ s_active_job = "friction"
    PROVE  JobsInv'
BY ReleaseCalm, MotionEndsInv DEF FrictionEnd, FrictionAbort, FrictionClose

LEMMA CoggingEndInv ==
    ASSUME JobsInv, CoggingEnd, s_active_job' = s_active_job \/ s_active_job = "cogging"
    PROVE  JobsInv'
BY ReleaseCalm, MotionEndsInv DEF CoggingEnd

LEMMA FrictionInv ==
    ASSUME JobsInv, FrictionStep PROVE JobsInv'
<1>1. "friction" \in Jobs
    BY DEF Jobs
<1>2. CASE FrictionEnd
    BY <1>2, FrictionEndInv DEF FrictionStep
<1>3. CASE FrictionCommand
    BY <1>3, SpeedCalm, BesideInv DEF FrictionCommand, FrictionStep
<1>4. CASE FrictionMeasure
  <2>1. PICK stage \in {"SETTLING", "SAMPLING"} : Becomes("friction", stage)
      BY <1>4 DEF FrictionMeasure
  <2> QED
      BY <1>1, <1>4, <2>1, UnchangedCalm, NamedStages, GoesOnInv DEF FrictionMeasure, FrictionStep
<1> QED
    BY <1>2, <1>3, <1>4 DEF FrictionStep

LEMMA CoggingInv ==
    ASSUME JobsInv, CoggingStep PROVE JobsInv'
<1>1. "cogging" \in Jobs
    BY DEF Jobs
<1>2. CASE CoggingEnd
    BY <1>2, CoggingEndInv DEF CoggingStep
<1>3. CASE CoggingRun
  <2> DEFINE Sweeps == {"SWEEP_FWD", "SWEEP_REV", "STOP_FWD", "STOP_REV", "SETTLE_REV",
                        "SETTLE_FWD"}
  <2>1. PICK d \in {<<"SETTLE_FWD", "SWEEP_FWD">>, <<"SETTLE_REV", "SWEEP_REV">>,
                    <<"SWEEP_FWD", "STOP_FWD">>, <<"SWEEP_REV", "STOP_REV">>,
                    <<"STOP_FWD", "SETTLE_REV">>, <<"STOP_REV", "SETTLE_FWD">>} :
            job_state["cogging"] = d[1] /\ Becomes("cogging", d[2])
      BY <1>3 DEF CoggingRun
  <2>2. PICK stage \in Sweeps : Becomes("cogging", stage)
      BY <2>1
  <2>3. Busy("cogging")
      BY <2>1 DEF Busy
  <2>4. Calm
      BY <1>3, UnchangedCalm, SpeedCalm DEF CoggingRun
  <2> QED
      BY <1>1, <1>3, <2>2, <2>3, <2>4, NamedStages, GoesOnInv DEF CoggingRun, CoggingStep
<1> QED
    BY <1>2, <1>3 DEF CoggingStep

(* A job takes the free terminal; the debugger's motor calibration takes     *)
(* none.                                                                   *)
LEMMA StartsInv ==
    ASSUME JobsInv, NEW j \in Jobs, NEW stage \in AllStages \ {"IDLE"}, Becomes(j, stage),
           \/ s_active_job = "none" /\ s_active_job' = j
           \/ j = "motor" /\ UNCHANGED s_active_job,
           Stirred' => Stirred \/ j = "inertia",
           s_state' = "CALIB" => s_state = "CALIB" \/ j \in {"motor", "rl"},
           IF j \in {"friction", "cogging"} THEN s_suspended' = TRUE ELSE UNCHANGED s_suspended,
           IF j = "friction" THEN s_friction_suspended' = TRUE
                             ELSE UNCHANGED s_friction_suspended,
           IF j = "cogging" THEN s_output_tracking' = TRUE ELSE UNCHANGED s_output_tracking
    PROVE  JobsInv'
<1>1. {"motor", "rl", "inertia", "friction", "cogging"} = Jobs /\ "none" \notin Jobs
    BY DEF Jobs
<1>2. JobFn' /\ Busy(j)' /\ \A k \in Jobs \ {j} : Busy(k)' = Busy(k)
    BY BecomesOne DEF JobsInv, Busy
<1>3. s_active_job = "none" => \A k \in Jobs \ {"motor"} : ~Busy(k)
    BY <1>1 DEF JobsInv, SlotInv
<1>4. SlotInv'
    BY <1>1, <1>2, <1>3 DEF JobsInv, SlotInv
<1>5. CASE j \in {"friction", "cogging"}
  <2>1. ~Busy("friction") /\ ~Busy("cogging")
      BY <1>1, <1>3, <1>5
  <2>2. FlagInv'
      BY <1>1, <1>2, <1>5, <2>1 DEF JobsInv, FlagInv, Busy
  <2> QED
      BY <1>1, <1>2, <1>4, <1>5, <2>2 DEF JobsInv, CalibInv, DirectInv
<1>6. CASE j \notin {"friction", "cogging"}
  <2>1. FlagInv'
      BY <1>1, <1>2, <1>6 DEF JobsInv, FlagInv
  <2> QED
      BY <1>1, <1>2, <1>4, <1>6, <2>1 DEF JobsInv, CalibInv, DirectInv
<1> QED
    BY <1>5, <1>6

LEMMA MotorStartInv ==
    ASSUME JobsInv, MotorStart, UNCHANGED bracketVars,
           \/ s_active_job = "none" /\ s_active_job' = "motor"
           \/ UNCHANGED s_active_job
    PROVE  JobsInv'
BY CalibCalm, NamedStages, StartsInv DEF MotorStart, bracketVars, Jobs

LEMMA TerminalStartInv ==
    ASSUME JobsInv, TerminalStart PROVE JobsInv'
<1>1. PICK j \in Jobs : s_active_job = "none" /\ Started(j) /\ s_active_job' = j
    BY DEF TerminalStart
<1>2. CASE j = "motor"
    BY <1>1, <1>2, MotorStartInv DEF Started, Unbracketed
<1>3. CASE j = "rl"
    BY <1>1, <1>3, CalibCalm, NamedStages, StartsInv DEF Started, RlStart, Unbracketed, bracketVars
<1>4. CASE j = "inertia"
  <2>1. s_state' # "CALIB"
      BY <1>1, <1>4, DirectCalm DEF Started, InertiaStart, SetCurrentSource, stateVars, Normal
  <2> QED
      BY <1>1, <1>4, <2>1, NamedStages, StartsInv
         DEF Started, InertiaStart, Unbracketed, bracketVars
<1>5. CASE j = "friction"
  <2>1. FrictionStart
      BY <1>1, <1>5 DEF Started
  <2>2. Calm /\ Becomes(j, "SETTLING")
      BY <1>5, <2>1, UnchangedCalm DEF FrictionStart
  <2> QED
      BY <1>1, <1>5, <2>1, <2>2, NamedStages, StartsInv DEF FrictionStart, Calm
<1>6. CASE j = "cogging"
  <2>1. CoggingStart
      BY <1>1, <1>6 DEF Started
  <2>2. Calm /\ Becomes(j, "SETTLE_FWD")
      BY <1>6, <2>1, SpeedCalm DEF CoggingStart
  <2> QED
      BY <1>1, <1>6, <2>1, <2>2, NamedStages, StartsInv DEF CoggingStart, Calm
<1> QED
    BY <1>2, <1>3, <1>4, <1>5, <1>6 DEF Jobs

(* A job gives back what it holds when the terminal or the debugger ends it. *)
LEMMA AbortInv ==
    ASSUME JobsInv, NEW j \in Jobs, Abort(j), s_active_job' = s_active_job \/ s_active_job = j
    PROVE  JobsInv'
<1>1. CASE j = "motor"
    BY <1>1, CloseCalm, EndsInv DEF Abort, MotorFinish, Unbracketed
<1>2. CASE j = "rl"
    BY <1>2, CloseCalm, EndsInv DEF Abort, RlFinish, Unbracketed
<1>3. CASE j = "inertia"
    BY <1>3, DirectCalm, EndsInv DEF Abort, InertiaEnd, Unbracketed
<1>4. CASE j = "friction"
    BY <1>4, FrictionEndInv DEF Abort
<1>5. CASE j = "cogging"
    BY <1>5, CoggingEndInv DEF Abort
<1> QED
    BY <1>1, <1>2, <1>3, <1>4, <1>5 DEF Jobs

LEMMA TerminalRefusedInv ==
    ASSUME JobsInv, TerminalRefused PROVE JobsInv'
<1>1. CASE CoggingRefused
  <2>1. ~Busy("friction") /\ ~Busy("cogging")
      BY <1>1 DEF CoggingRefused, CoggingMayStart
  <2>2. Calm /\ UNCHANGED <<job_state, s_active_job, s_friction_suspended>>
      BY <1>1, UnchangedCalm DEF CoggingRefused, TerminalRefused
  <2>3. FlagInv'
      BY <1>1, <2>1, <2>2 DEF CoggingRefused, JobsInv, FlagInv, Busy
  <2> QED
      BY <2>2, <2>3 DEF JobsInv, JobFn, SlotInv, CalibInv, DirectInv, Calm, Busy
<1>2. CASE RlStartUndone /\ Unbracketed
  <2>1. Calm
      BY <1>2 DEF RlStartUndone, ClearRefs, stateVars, Calm, Stirred
  <2> QED
      BY <1>2, <2>1, BesideInv DEF RlStartUndone, Unbracketed, TerminalRefused
<1>3. CASE Abort("motor")
    BY <1>3, AbortInv DEF TerminalRefused, Jobs
<1> QED
    BY <1>1, <1>2, <1>3 DEF TerminalRefused

LEMMA TerminalDoneInv ==
    ASSUME JobsInv, TerminalDone PROVE JobsInv'
<1>1. Calm /\ UNCHANGED <<job_state, bracketVars>>
    BY UnchangedCalm DEF TerminalDone, Unbracketed
<1>2. SlotInv'
    BY <1>1 DEF TerminalDone, JobsInv, SlotInv, Busy
<1> QED
    BY <1>1, <1>2 DEF JobsInv, JobFn, FlagInv, CalibInv, DirectInv, Calm, Busy, bracketVars

LEMMA BesideJobsInv ==
    ASSUME JobsInv, HostCommand \/ HostStop \/ MotionTick \/ FocTask \/ JobBeat PROVE JobsInv'
<1>1. Calm
    BY SpeedCalm, ReleaseCalm, RequestCalm, UnchangedCalm, TaskCalm, BeatCalm
       DEF HostCommand, HostStop, MotionTick, FocTask, JobBeat, Amps
<1> QED
    BY <1>1, BesideInv DEF HostCommand, HostStop, MotionTick, FocTask, JobBeat, jobVars

LEMMA JobsInvStep == JobsInv /\ [JobsNext]_<<authorityVars, jobVars>> => JobsInv'
<1> SUFFICES ASSUME JobsInv, [JobsNext]_<<authorityVars, jobVars>> PROVE JobsInv'
    OBVIOUS
<1>1. CASE MotorStep \/ RlStep \/ InertiaStep \/ FrictionStep \/ CoggingStep
    BY <1>1, MotorInv, RlInv, InertiaInv, FrictionInv, CoggingInv
<1>2. CASE TerminalStart \/ TerminalRefused \/ TerminalDone
    BY <1>2, TerminalStartInv, TerminalRefusedInv, TerminalDoneInv
<1>3. CASE TerminalAbort
  <2>1. s_active_job \in Jobs
    <3>1. SUFFICES ASSUME s_active_job \notin Jobs PROVE FALSE
        OBVIOUS
    <3>2. /\ s_active_job # "motor" /\ s_active_job # "rl" /\ s_active_job # "inertia"
          /\ s_active_job # "friction"
        BY <3>1 DEF Jobs
    <3>3. Abort(s_active_job)
        BY <1>3 DEF TerminalAbort
    <3>4. CoggingEnd
        BY <3>2, <3>3, Zenon DEF Abort
    <3> QED
        BY <3>1, <3>4 DEF CoggingEnd, JobsInv, SlotInv, Jobs
  <2> QED
      BY <1>3, <2>1, AbortInv DEF TerminalAbort
<1>4. CASE DebugCal
  <2>1. CASE MotorStart
      BY <1>4, <2>1, MotorStartInv DEF DebugCal, Unbracketed
  <2>2. CASE MotorFinish
      BY <1>4, <2>2, CloseCalm, EndsInv DEF DebugCal, MotorFinish, Unbracketed
  <2> QED
      BY <1>4, <2>1, <2>2 DEF DebugCal
<1>5. CASE HostCommand \/ HostStop \/ MotionTick \/ FocTask \/ JobBeat
    BY <1>5, BesideJobsInv
<1>6. CASE UNCHANGED <<authorityVars, jobVars>>
    BY <1>6, UnchangedCalm, BesideInv DEF jobVars
<1> QED
    BY <1>1, <1>2, <1>3, <1>4, <1>5, <1>6 DEF JobsNext

(* Whatever order starts, aborts, failures, host commands and interrupts     *)
(* come in, and in whatever stage a job ends: no compensation stays          *)
(* suspended and no angle tracked for nobody, no calibration stays open, and  *)
(* no direct current stays asked for behind a job that is over              *)
(* (app_friction_identify.c:105, app_cogging_identify.c:101,                *)
(* app_inertia_identify.c:151).                                            *)
THEOREM BracketsAlwaysMatch == JobsSpec => []BracketsMatch
<1>1. JobsSpec => []JobsInv
    BY JobsInvInit, JobsInvStep, PTL DEF JobsSpec
<1> QED
    BY <1>1, InvImplies, PTL

(***************************************************************************)
(* The authority under the jobs.  What they do to it is what any client may  *)
(* do, but for two calls in one step.                                       *)
(***************************************************************************)
JobOnly == RlStartUndone \/ \E iq \in Amps : AskDirect(iq)
Authorised == [AuthorityNext]_authorityVars \/ JobOnly

LEMMA Callable ==
    /\ UNCHANGED authorityVars => Authorised
    /\ CalibBegin \/ CalibDrive \/ CalibEnd => Authorised
    /\ EnablePublish \/ Disable \/ DisableCritical \/ RequestStop \/ StopStep \/ Body => Authorised
    /\ StopAsked => Authorised
    /\ \A amp \in Amps : SubmitCurrent(amp) => Authorised
    /\ SetCurrentSource("MOTION", TRUE) \/ SetCurrentSource("DIRECT", FALSE) => Authorised
    /\ BeatEmergency \/ BeatRun(0) => Authorised
    /\ AskDirect(0) \/ AskDirect(1) \/ RlStartUndone => Authorised
<1>1. 0 \in Amps /\ 1 \in Amps
    BY DEF Amps
<1>2. BeatEmergency \/ BeatRun(0) => AuthorityNext
    BY <1>1 DEF AuthorityNext, Beat
<1>3. SetCurrentSource("MOTION", TRUE) \/ SetCurrentSource("DIRECT", FALSE) => AuthorityNext
    BY DEF AuthorityNext
<1>4. StopAsked \/ (\E amp \in Amps : SubmitCurrent(amp)) => AuthorityNext
    BY DEF AuthorityNext
<1>5. TaskStep => AuthorityNext
    BY DEF AuthorityNext
<1> QED
    BY <1>1, <1>2, <1>3, <1>4, <1>5 DEF Authorised, JobOnly, TaskStep

LEMMA SpeedCallable == SpeedAccepted \/ Release \/ Stop => Authorised
BY Callable DEF SpeedAccepted, Release, Stop, Amps

LEMMA CloseCallable == CloseCalib => Authorised
BY Callable DEF CloseCalib

LEMMA JobsAuthorised == JobsNext => Authorised
<1> SUFFICES ASSUME JobsNext PROVE Authorised
    OBVIOUS
<1>1. \A j : Started(j) => Authorised
    BY Callable, SpeedCallable DEF Started, MotorStart, RlStart, InertiaStart, FrictionStart,
       CoggingStart
<1>2. \A j : Abort(j) => Authorised
    BY Callable, SpeedCallable, CloseCallable DEF Abort, MotorFinish, RlFinish, InertiaEnd,
       FrictionAbort, CoggingEnd
<1>3. CASE MotorStep \/ RlStep \/ InertiaStep
    BY <1>3, Callable, CloseCallable DEF MotorStep, MotorFinish, MotorRun, MotorVerify, RlStep,
       RlFinish, RlAdvance, InertiaStep, InertiaEnd, InertiaRun
<1>4. CASE FrictionStep \/ CoggingStep
    BY <1>4, Callable, SpeedCallable DEF FrictionStep, FrictionEnd, FrictionCommand,
       FrictionMeasure, CoggingStep, CoggingEnd, CoggingRun
<1>5. CASE TerminalStart \/ TerminalRefused \/ TerminalAbort \/ TerminalDone \/ DebugCal
    BY <1>1, <1>2, <1>5, Callable, CloseCallable DEF TerminalStart, TerminalRefused,
       CoggingRefused, TerminalAbort, TerminalDone, DebugCal, MotorStart, MotorFinish
<1>6. CASE HostCommand \/ HostStop \/ MotionTick \/ FocTask \/ JobBeat
    BY <1>6, Callable, SpeedCallable DEF HostCommand, HostStop, MotionTick, FocTask, JobBeat, Amps
<1> QED
    BY <1>3, <1>4, <1>5, <1>6 DEF JobsNext

(* A request is under the newest epoch.                                     *)
EpochInv == s_current_request.valid => s_epoch_newest
LeaseInv == AuthorityInv /\ EpochInv

LEMMA LeaseInvInit == AuthorityInit => LeaseInv
BY AuthorityInvInit, NoRequestType DEF AuthorityInit, LeaseInv, EpochInv

LEMMA EpochStep ==
    ASSUME EpochInv, [AuthorityNext]_authorityVars
    PROVE  EpochInv'
<1> USE NoRequestType DEF EpochInv
<1>1. CASE TaskStep
  <2>1. Revoke \/ UNCHANGED <<s_current_request, s_epoch_newest>>
      BY <1>1 DEF TaskStep, EnablePublish, Disable, DisableBegin, DisableCritical, RequestStop,
         StopAccepted, StopIgnored, StopStep, Body, SetDirectRef, SetAngleSource, CalibBegin,
         CalibDrive, CalibEnd, ApplyEncoderOffset, VtestStart, VtestStop, requestVars
  <2> QED
      BY <2>1 DEF Revoke, RevokeRequest
<1>2. CASE \E source \in {"DIRECT", "MOTION"}, byMotion \in BOOLEAN :
              SetCurrentSource(source, byMotion)
    BY <1>2 DEF SetCurrentSource, RevokeRequest
<1>3. CASE \E amp \in Amps : SubmitCurrent(amp)
    BY <1>3 DEF SubmitCurrent, Submit, MaySubmit, authorityVars, requestVars
<1>4. CASE \E injected \in Amps : Beat(injected)
    BY <1>4 DEF Beat, BeatEmergency, BeatIdle, BeatDegraded, BeatRun
<1>5. CASE StopAsked \/ UNCHANGED authorityVars
    BY <1>5 DEF StopAsked, authorityVars, requestVars
<1> QED
    BY <1>1, <1>2, <1>3, <1>4, <1>5 DEF AuthorityNext

LEMMA JobOnlyRequest ==
    JobOnly => /\ RevokeRequest \/ UNCHANGED <<s_current_request, request_age, age,
                                               s_current_request_expired>>
               /\ UNCHANGED drive
BY DEF JobOnly, RlStartUndone, AskDirect, requestVars, Revoke

LEMMA JobOnlyInv ==
    ASSUME LeaseInv, JobOnly
    PROVE  LeaseInv'
<1> USE NoRequestType, ExpiryAssumption, TypeParts DEF LeaseInv, AuthorityInv
<1>1. CASE RlStartUndone
  <2> USE <1>1 DEF RlStartUndone, ForgetAngle, ClearRefs, Revoke, RevokeRequest
  <2>1. (TypeStage /\ TypeRefs)'
      BY DEF TypeStage, TypeRefs, Amps, stateVars
  <2>2. TypeRequest'
      BY DEF TypeRequest
  <2>3. TypeAges'
      BY DEF TypeAges
  <2>4. StageInv' /\ AgeTrue' /\ EpochInv'
      BY DEF StageInv, RequestOwned, StreakLatched, MotionSeesRotor, AgeTrue, EpochInv, stateVars
  <2> QED
      BY <2>1, <2>2, <2>3, <2>4 DEF AuthorityTypeOK, TypeStage, TypeRefs, TypeRequest, TypeAges
<1>2. CASE \E iq \in Amps : AskDirect(iq)
  <2>1. /\ UNCHANGED <<stateVars, angleVars, s_vtest_active, s_current_source, requestVars,
                       s_i_q_ref, drive, pc>>
        /\ s_i_q_ref_cmd' \in Amps /\ s_i_d_ref' \in Amps
      BY <1>2 DEF AskDirect, TypeRefs, Amps
  <2> USE <2>1 DEF stateVars, angleVars, requestVars
  <2>2. (TypeStage /\ TypeRefs)'
      BY DEF TypeStage, TypeRefs
  <2>3. TypeRequest' /\ TypeAges'
      BY DEF TypeRequest, TypeAges
  <2>4. StageInv' /\ AgeTrue' /\ EpochInv'
      BY DEF StageInv, RequestOwned, StreakLatched, MotionSeesRotor, AgeTrue, EpochInv
  <2> QED
      BY <2>2, <2>3, <2>4 DEF AuthorityTypeOK, TypeStage, TypeRefs, TypeRequest, TypeAges
<1> QED
    BY <1>1, <1>2 DEF JobOnly

LEMMA AuthorisedInv == LeaseInv /\ Authorised => LeaseInv'
BY AuthorityInvStep, EpochStep, JobOnlyInv DEF Authorised, LeaseInv

(***************************************************************************)
(* The devices together: in the run of MCDevices each of them behaves as its *)
(* own module says, so that what is proved of it alone holds there too.     *)
(***************************************************************************)
LEMMA DeviceSteps ==
    ASSUME [MCNext]_vars
    PROVE  /\ UNCHANGED subject
           /\ [UpdateNext]_updateVars /\ [StoreNext]_storeVars /\ [CanNext]_canVars
           /\ [SamplingNext]_samplingVars /\ [UsbNext]_usbVars
           /\ IF subject = "jobs" THEN [JobsNext]_<<authorityVars, jobVars>>
              ELSE [AuthorityNext]_authorityVars /\ UNCHANGED jobVars
BY DEF MCNext, vars

(* The update (boot.c, dfu.c, boot_meta.c), the store (app_param.c), the CAN   *)
(* service (app_can_service.c), the sampling (app_encoder.c) and the USB link *)
(* (app_usb_proto.c) each do there what their own specifications allow.      *)
LEMMA DevicesKeepSpecs ==
    MCSpec => UpdateSpec /\ StoreSpec /\ CanSpec /\ SamplingSpec /\ UsbSpec
<1>1. MCInit => UpdateInit /\ StoreInit /\ CanInit /\ SamplingInit /\ UsbInit
    BY DEF MCInit
<1> QED
    BY <1>1, DeviceSteps, PTL DEF MCSpec, UpdateSpec, StoreSpec, CanSpec, SamplingSpec, UsbSpec

(* The jobs, where they are the subject.                                    *)
JobsSubject == subject = "jobs" => JobsInv
LEMMA JobsSubjectHolds == MCSpec => []JobsSubject
<1>1. MCInit => JobsSubject
    BY JobsInvInit DEF MCInit, JobsSubject
<1>2. JobsSubject /\ [MCNext]_vars => JobsSubject'
    BY DeviceSteps, JobsInvStep DEF JobsSubject
<1> QED
    BY <1>1, <1>2, PTL DEF MCSpec

(* The authority, whoever moves it.                                         *)
LEMMA DevicesAuthorised == [MCNext]_vars => Authorised
BY DeviceSteps, JobsAuthorised, Callable DEF Authorised

LEMMA LeaseInvHolds == MCSpec => []LeaseInv
<1>1. MCInit => LeaseInv
    BY LeaseInvInit DEF MCInit
<1>2. LeaseInv /\ [MCNext]_vars => LeaseInv'
    BY DevicesAuthorised, AuthorisedInv
<1> QED
    BY <1>1, <1>2, PTL DEF MCSpec

(* Beside the other devices too the brackets of the jobs match.             *)
THEOREM JobBracketsAlwaysMatch == MCSpec => []JobBracketsMatch
<1>1. JobsSubject => JobBracketsMatch
    BY InvImplies DEF JobsSubject, JobBracketsMatch
<1> QED
    BY <1>1, JobsSubjectHolds, PTL

(***************************************************************************)
(* What a job leaves behind.                                               *)
(***************************************************************************)
Silent ==
    /\ ~motion_active'
    /\ \/ ~s_current_request'.valid \/ s_current_request'.amp = 0
       \/ pc' = "stop" \/ s_isr_inhibited'

(* A release that the authority refuses finds no request that may still be  *)
(* executed.                                                               *)
LEMMA ReleaseSilent == ASSUME LeaseInv, Release \/ Stop PROVE Silent
<1>1. CASE Stop
    BY <1>1 DEF Stop, StopAsked, Silent
<1>2. CASE Release /\ MaySubmit
    BY <1>2 DEF Release, SubmitCurrent, Submit, Silent
<1>3. CASE Release /\ ~MaySubmit
    BY <1>3 DEF Release, SubmitCurrent, MaySubmit, Silent, LeaseInv, AuthorityInv, StageInv,
       RequestOwned, EpochInv, authorityVars, stateVars, requestVars
<1> QED
    BY <1>1, <1>2, <1>3

(* Only these operations end a job that works through motion commands.       *)
MotionJobEnds == FrictionEnd \/ FrictionAbort \/ CoggingEnd

LEMMA OthersGoOn ==
    ASSUME JobFn, NEW j \in {"friction", "cogging"}, Busy(j),
           \/ UNCHANGED job_state
           \/ \E k \in Jobs : \E stage \in AllStages :
                 Becomes(k, stage) /\ (k # j \/ stage # "IDLE")
    PROVE  job_state'[j] # "IDLE"
<1>1. j \in Jobs
    BY DEF Jobs
<1>2. CASE UNCHANGED job_state
    BY <1>2 DEF Busy
<1>3. ASSUME NEW k \in Jobs, NEW stage \in AllStages, Becomes(k, stage),
             k # j \/ stage # "IDLE"
      PROVE  job_state'[j] # "IDLE"
    BY <1>1, <1>3, BecomesOne DEF Busy
<1> QED
    BY <1>2, <1>3

LEMMA MotionJobGoesOn ==
    ASSUME JobFn, NEW j \in {"friction", "cogging"}, Busy(j),
           FrictionStep \/ CoggingStep, ~MotionJobEnds
    PROVE  job_state'[j] # "IDLE"
<1>1. {"friction", "cogging"} \subseteq Jobs
    BY DEF Jobs
<1>2. CASE FrictionStep
  <2>1. \/ UNCHANGED job_state
        \/ \E stage \in {"SETTLING", "SAMPLING"} : Becomes("friction", stage)
      BY <1>2 DEF FrictionStep, MotionJobEnds, FrictionCommand, FrictionMeasure
  <2> QED
      BY <1>1, <2>1, NamedStages, OthersGoOn
<1>3. CASE CoggingStep
  <2>1. PICK d \in {<<"SETTLE_FWD", "SWEEP_FWD">>, <<"SETTLE_REV", "SWEEP_REV">>,
                    <<"SWEEP_FWD", "STOP_FWD">>, <<"SWEEP_REV", "STOP_REV">>,
                    <<"STOP_FWD", "SETTLE_REV">>, <<"STOP_REV", "SETTLE_FWD">>} :
            Becomes("cogging", d[2])
      BY <1>3 DEF CoggingStep, MotionJobEnds, CoggingRun
  <2>2. \E stage \in {"SWEEP_FWD", "SWEEP_REV", "STOP_FWD", "STOP_REV", "SETTLE_REV",
                      "SETTLE_FWD"} : Becomes("cogging", stage)
      BY <2>1
  <2> QED
      BY <1>1, <2>2, NamedStages, OthersGoOn
<1> QED
    BY <1>2, <1>3

LEMMA MotionJobEndsOnly ==
    ASSUME JobFn, [JobsNext]_<<authorityVars, jobVars>>, NEW j \in {"friction", "cogging"}, Busy(j),
           job_state'[j] = "IDLE"
    PROVE  MotionJobEnds
<1> SUFFICES ASSUME ~MotionJobEnds PROVE FALSE
    OBVIOUS
<1> DEFINE Idles(k) == \E stage \in AllStages : Becomes(k, stage)
<1>1. ~(UNCHANGED job_state) /\ \A k \in {"motor", "rl", "inertia"} : ~Idles(k)
    BY OthersGoOn DEF Jobs
<1>2. /\ "IDLE" \in AllStages
      /\ \A stage \in {"RUN", "VERIFY", "ZERO_SETTLE", "SETTLE", "ACCEL", "MEASURE_POS",
                       "NEG_SETTLE", "MEASURE_NEG"} : stage \in AllStages
      /\ \A stage \in {"SETTLING", "SETTLE_FWD"} : stage \in AllStages
    BY Stages, NamedStages
<1>3. ~MotorFinish /\ ~MotorRun /\ ~MotorStart
    BY <1>1, <1>2 DEF MotorFinish, MotorRun, MotorStart
<1>4. ~RlFinish /\ ~RlStart
    BY <1>1, <1>2 DEF RlFinish, RlStart
<1>5. ~RlAdvance
  <2>1. \A stage : RlNext(stage) \subseteq AllStages
      BY NamedStages DEF RlNext
  <2> QED
      BY <1>1, <2>1 DEF RlAdvance
<1>6. ~InertiaEnd /\ ~InertiaRun /\ ~InertiaStart
    BY <1>1, <1>2 DEF InertiaEnd, InertiaRun, InertiaStart
<1>7. ~(FrictionStart \/ CoggingStart)
    BY <1>2, OthersGoOn DEF FrictionStart, CoggingStart, Jobs
<1>8. \A k : ~Started(k) /\ ~Abort(k)
    BY <1>3, <1>4, <1>6, <1>7 DEF Started, Abort, MotionJobEnds
<1>9. ~(FrictionStep \/ CoggingStep)
    BY MotionJobGoesOn
<1>10. ~(MotorStep \/ RlStep \/ InertiaStep)
    BY <1>1, <1>3, <1>4, <1>5, <1>6 DEF MotorStep, RlStep, InertiaStep, MotorVerify
<1>11. ~(TerminalStart \/ TerminalRefused \/ TerminalAbort \/ TerminalDone \/ DebugCal)
    BY <1>1, <1>3, <1>8 DEF TerminalStart, TerminalRefused, CoggingRefused, RlStartUndone,
       TerminalAbort, TerminalDone, DebugCal
<1>12. ~(HostCommand \/ HostStop \/ MotionTick \/ FocTask \/ JobBeat)
    BY <1>1 DEF HostCommand, HostStop, MotionTick, FocTask, JobBeat, jobVars
<1> QED
    BY <1>1, <1>9, <1>10, <1>11, <1>12 DEF JobsNext, jobVars

LEMMA MotionJobSilent == ASSUME LeaseInv, MotionJobEnds PROVE Silent
BY ReleaseSilent DEF MotionJobEnds, FrictionEnd, FrictionAbort, CoggingEnd

(* However a friction or a cogging job ends, whoever has taken the source,   *)
(* stopped or shut the bridge meanwhile: no command stays active, and no      *)
(* current of it is left for the interrupt to execute (app_motion.c:542,     *)
(* 939).                                                                   *)
THEOREM JobsLeaveSilence == MCSpec => JobLeavesSilence
<1> DEFINE Left == \A j \in {"friction", "cogging"} : Busy(j) /\ job_state'[j] = "IDLE" => Silent
<1>1. LeaseInv /\ JobsSubject /\ [MCNext]_vars => [Left]_<<authorityVars, jobVars>>
  <2> SUFFICES ASSUME LeaseInv, JobsSubject, [MCNext]_vars,
                      NEW j \in {"friction", "cogging"}, Busy(j), job_state'[j] = "IDLE"
               PROVE  Silent
      OBVIOUS
  <2>1. CASE subject = "jobs"
      BY <2>1, DeviceSteps, MotionJobEndsOnly, MotionJobSilent DEF JobsSubject, JobsInv
  <2>2. CASE subject # "jobs"
      BY <2>2, DeviceSteps DEF jobVars, Busy
  <2> QED
      BY <2>1, <2>2
<1>2. [][Left]_<<authorityVars, jobVars>> => JobLeavesSilence
    BY PTL DEF JobLeavesSilence, Silent
<1> QED
    BY <1>1, <1>2, LeaseInvHolds, JobsSubjectHolds, PTL DEF MCSpec

(***************************************************************************)
(* The authority's promises hold under the jobs too.                        *)
(***************************************************************************)
(* What a job asks of the authority in one step revokes the lease or leaves  *)
(* it alone: a motion current is under a lease in every behaviour of the     *)
(* jobs (app_foc.c:577-602).                                                *)
THEOREM JobsKeepLease == MCSpec => LeaseKept
<1>1. MCInit => Lease!Init
    BY LeaseInit DEF MCInit
<1>2. LeaseInv /\ [MCNext]_vars => [Lease!Next]_(Lease!vars)
  <2> SUFFICES ASSUME LeaseInv, [MCNext]_vars PROVE [Lease!Next]_(Lease!vars)
      OBVIOUS
  <2>1. CASE [AuthorityNext]_authorityVars
      BY <2>1, LeaseStep DEF LeaseInv
  <2>2. CASE JobOnly
      BY <2>2, JobOnlyRequest, NoRequestType
         DEF RevokeRequest, Lease!Next, Lease!Revoke, Lease!vars
  <2> QED
      BY <2>1, <2>2, DevicesAuthorised DEF Authorised
<1> QED
    BY <1>1, <1>2, LeaseInvHolds, PTL DEF MCSpec, LeaseKept, Lease!Spec

(* No job lets the motion source run on a forced angle: the calibration      *)
(* bracket, closed or undone, gives the encoder back first (app_foc.c:1195,  *)
(* 1242).                                                                  *)
THEOREM JobsSeeRotor == MCSpec => []MotionSeesRotor
<1>1. LeaseInv => MotionSeesRotor
    BY DEF LeaseInv, AuthorityInv, StageInv
<1> QED
    BY <1>1, LeaseInvHolds, PTL

(***************************************************************************)
(* Types.                                                                  *)
(***************************************************************************)
(* What a step of the jobs writes besides the states of the jobs.           *)
JobMarks ==
    /\ command_pending \in BOOLEAN /\ motion_active \in BOOLEAN
    /\ s_active_job \in Jobs \cup {"none"}
    /\ s_suspended \in BOOLEAN /\ s_friction_suspended \in BOOLEAN
    /\ s_output_tracking \in BOOLEAN
JobsTyped == DOMAIN job_state = Jobs /\ JobsTypeOK

(* A job moves among its own stages.                                        *)
MovesWithin ==
    \/ UNCHANGED job_state
    \/ \E j \in Jobs : \E stage \in StagesOf[j] \cup {"IDLE"} : Becomes(j, stage)

LEMMA WithinStays ==
    ASSUME JobsTyped, MovesWithin, JobMarks'
    PROVE  JobsTyped'
<1>1. DOMAIN job_state' = Jobs /\ \A k \in Jobs : job_state'[k] \in StagesOf[k] \cup {"IDLE"}
  <2>1. CASE UNCHANGED job_state
      BY <2>1 DEF JobsTyped, JobsTypeOK
  <2>2. ASSUME NEW j \in Jobs, NEW stage \in StagesOf[j] \cup {"IDLE"}, Becomes(j, stage)
        PROVE  DOMAIN job_state' = Jobs /\ \A k \in Jobs : job_state'[k] \in StagesOf[k] \cup {"IDLE"}
      BY <2>2 DEF JobsTyped, JobsTypeOK, Becomes
  <2> QED
      BY <2>1, <2>2 DEF MovesWithin
<1> QED
    BY <1>1 DEF JobsTyped, JobsTypeOK, JobMarks

LEMMA JobMoves == JobsNext => MovesWithin
<1> SUFFICES ASSUME JobsNext PROVE MovesWithin
    OBVIOUS
<1>1. {"motor", "rl", "inertia", "friction", "cogging"} = Jobs
    BY DEF Jobs
<1>2. MotorFinish \/ MotorRun \/ MotorStart => MovesWithin
    BY <1>1, StagesAre DEF MotorFinish, MotorRun, MotorStart, MovesWithin
<1>3. RlFinish \/ RlStart => MovesWithin
    BY <1>1, StagesAre DEF RlFinish, RlStart, MovesWithin
<1>4. RlAdvance => MovesWithin
  <2>1. \A stage : RlNext(stage) \subseteq StagesOf["rl"]
      BY StagesAre DEF RlNext
  <2> QED
      BY <1>1, <2>1 DEF RlAdvance, MovesWithin
<1>5. InertiaEnd \/ InertiaRun \/ InertiaStart => MovesWithin
    BY <1>1, StagesAre DEF InertiaEnd, InertiaRun, InertiaStart, MovesWithin
<1>6. FrictionStart \/ FrictionEnd \/ FrictionAbort \/ FrictionCommand \/ FrictionMeasure
          => MovesWithin
    BY <1>1, StagesAre DEF FrictionStart, FrictionEnd, FrictionAbort, FrictionClose,
       FrictionCommand, FrictionMeasure, MovesWithin
<1>7. CoggingStart \/ CoggingEnd \/ CoggingRun => MovesWithin
  <2>1. ASSUME CoggingRun
        PROVE  \E stage \in StagesOf["cogging"] : Becomes("cogging", stage)
    <3>1. PICK d \in {<<"SETTLE_FWD", "SWEEP_FWD">>, <<"SETTLE_REV", "SWEEP_REV">>,
                      <<"SWEEP_FWD", "STOP_FWD">>, <<"SWEEP_REV", "STOP_REV">>,
                      <<"STOP_FWD", "SETTLE_REV">>, <<"STOP_REV", "SETTLE_FWD">>} :
              Becomes("cogging", d[2])
        BY <2>1 DEF CoggingRun
    <3> QED
        BY <3>1, StagesAre
  <2> QED
      BY <1>1, <2>1, StagesAre DEF CoggingStart, CoggingEnd, MovesWithin
<1>8. \A k : Started(k) \/ Abort(k) => MovesWithin
    BY <1>2, <1>3, <1>5, <1>6, <1>7 DEF Started, Abort
<1>9. CASE MotorStep \/ RlStep \/ InertiaStep \/ FrictionStep \/ CoggingStep
    BY <1>2, <1>3, <1>4, <1>5, <1>6, <1>7, <1>9
       DEF MotorStep, MotorVerify, RlStep, InertiaStep, FrictionStep, CoggingStep, MovesWithin
<1>10. CASE TerminalStart \/ TerminalRefused \/ TerminalAbort \/ TerminalDone \/ DebugCal
    BY <1>2, <1>8, <1>10 DEF TerminalStart, TerminalRefused, CoggingRefused, RlStartUndone,
       TerminalAbort, TerminalDone, DebugCal, MovesWithin
<1>11. CASE HostCommand \/ HostStop \/ MotionTick \/ FocTask \/ JobBeat
    BY <1>11 DEF HostCommand, HostStop, MotionTick, FocTask, JobBeat, jobVars, MovesWithin
<1> QED
    BY <1>9, <1>10, <1>11 DEF JobsNext

LEMMA MarksStep == ASSUME JobMarks, JobsNext PROVE JobMarks'
<1>1. SpeedAccepted \/ Release \/ Stop => motion_active' \in BOOLEAN
    BY DEF SpeedAccepted, Release, Stop
<1> DEFINE Bracketed == /\ command_pending' \in BOOLEAN /\ motion_active' \in BOOLEAN
                        /\ s_suspended' \in BOOLEAN /\ s_friction_suspended' \in BOOLEAN
                        /\ s_output_tracking' \in BOOLEAN
<1>2. Unbracketed => Bracketed
    BY DEF Unbracketed, bracketVars, JobMarks
<1>3. FrictionStart \/ FrictionEnd \/ FrictionAbort \/ FrictionCommand \/ FrictionMeasure
          => Bracketed
    BY <1>1 DEF FrictionStart, FrictionEnd, FrictionAbort, FrictionClose, FrictionCommand,
       FrictionMeasure, bracketVars, JobMarks
<1>4. CoggingStart \/ CoggingEnd \/ CoggingRun \/ CoggingRefused => Bracketed
    BY <1>1 DEF CoggingStart, CoggingEnd, CoggingRun, CoggingRefused, bracketVars, JobMarks
<1>5. \A k : Started(k) \/ Abort(k) => Bracketed
    BY <1>2, <1>3, <1>4 DEF Started, Abort
<1>6. CASE MotorStep \/ RlStep \/ InertiaStep
    BY <1>6 DEF MotorStep, RlStep, InertiaStep, bracketVars, JobMarks
<1>7. CASE FrictionStep \/ CoggingStep
    BY <1>3, <1>4, <1>7 DEF FrictionStep, CoggingStep, JobMarks
<1>8. CASE TerminalStart \/ TerminalRefused \/ TerminalAbort \/ TerminalDone \/ DebugCal
    BY <1>2, <1>4, <1>5, <1>8 DEF TerminalStart, TerminalRefused, TerminalAbort, TerminalDone,
       DebugCal, JobMarks
<1>9. CASE HostCommand \/ HostStop \/ MotionTick \/ FocTask \/ JobBeat
    BY <1>1, <1>9 DEF HostCommand, HostStop, MotionTick, FocTask, JobBeat, jobVars, bracketVars,
       JobMarks
<1> QED
    BY <1>6, <1>7, <1>8, <1>9 DEF JobsNext

LEMMA JobsTypedHolds == MCSpec => []JobsTyped
<1>1. MCInit => JobsTyped
    BY DEF MCInit, JobsInit, JobsTyped, JobsTypeOK
<1>2. JobsTyped /\ [MCNext]_vars => JobsTyped'
  <2> SUFFICES ASSUME JobsTyped, [MCNext]_vars PROVE JobsTyped'
      OBVIOUS
  <2>1. CASE UNCHANGED jobVars
      BY <2>1 DEF jobVars, bracketVars, JobsTyped, JobsTypeOK
  <2>2. CASE JobsNext
      BY <2>2, JobMoves, MarksStep, WithinStays DEF JobsTyped, JobsTypeOK, JobMarks
  <2> QED
      BY <2>1, <2>2, DeviceSteps
<1> QED
    BY <1>1, <1>2, PTL DEF MCSpec

(* The types of every subject hold in its behaviours, those of the authority *)
(* under the jobs as under its other clients, for every size and bound: no    *)
(* stage, frame, ring index, queue or measured age leaves its range in an    *)
(* interleaving of the io task with the interrupts (app_foc.c:577,           *)
(* app_can_service.c:92, drv_usb_cdc.c:405).                               *)
THEOREM DevicesTypesHold == MCSpec => []DevicesTypeOK
<1>1. LeaseInv => AuthorityTypeOK
    BY DEF LeaseInv, AuthorityInv
<1>2. JobsTyped => JobsTypeOK
    BY DEF JobsTyped
<1>3. /\ AuthorityTypeOK /\ JobsTypeOK /\ StoreTypeOK /\ CanTypeOK /\ SamplingTypeOK /\ UsbTypeOK
      => DevicesTypeOK
    BY DEF DevicesTypeOK
<1> QED
    BY <1>1, <1>2, <1>3, LeaseInvHolds, JobsTypedHolds, DevicesKeepSpecs, StoreTypeCorrect,
       CanTypeCorrect, SamplingTypeCorrect, UsbTypeCorrect, PTL
=============================================================================
