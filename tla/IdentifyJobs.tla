----------------------------- MODULE IdentifyJobs -----------------------------
(***************************************************************************)
(* The identification jobs of App/Control/Identify: what each of them opens *)
(* when it starts and has to close on every way out.  Motor (electrical     *)
(* angle) and rl (resistance, inductance, current loop) work inside the     *)
(* calibration bracket of app_foc.c, inertia on the direct current source,  *)
(* friction and cogging through motion commands with the compensations      *)
(* suspended.                                                              *)
(*                                                                         *)
(* All of them are stepped by the io task, one call per millisecond, and a  *)
(* call is one step here: the interrupts write nothing that a call reads     *)
(* twice.  Samples, points, retries, timeouts and fits decide which way a    *)
(* job goes on and when it fails; here it may take any of its ways at any   *)
(* time.  DONE, FAILED and IDLE differ in the result only and are "IDLE".   *)
(* A command that is refused without an effect is no step.                  *)
(*                                                                         *)
(* The motion controller is followed by whether a command is active, the    *)
(* current rules are module CurrentAuthority's.  The voltage test, direct    *)
(* references and angle sources of the bench are not used beside a job.     *)
(***************************************************************************)
EXTENDS CurrentAuthority

VARIABLES
    job_state,            \* what each job does
    command_pending,      \* friction: the next target is not accepted yet
    s_active_job,         \* the job that holds the terminal, or "none"
    motion_active,        \* s_motion.active of app_motion.c
    s_suspended,          \* app_cogging.c: no compensation is injected
    s_friction_suspended, \* app_motion.c: no friction feedforward
    s_output_tracking     \* app_motion.c: the output angle is followed finely

bracketVars == <<s_suspended, s_friction_suspended, s_output_tracking>>
jobVars == <<job_state, command_pending, s_active_job, motion_active, bracketVars>>

Jobs == {"motor", "rl", "inertia", "friction", "cogging"}

(* The states in which a job is busy.                                      *)
StagesOf ==
    [motor |-> {"RUN", "VERIFY"},
     rl |-> {"ZERO_SETTLE", "ZERO_CAPTURE", "SETTLE", "RS", "LD_SETTLE", "LD",
             "PI_SETTLE", "PI"},
     inertia |-> {"SETTLE", "ACCEL", "MEASURE_POS", "NEG_SETTLE", "MEASURE_NEG"},
     friction |-> {"SETTLING", "SAMPLING"},
     cogging |-> {"SETTLE_FWD", "SWEEP_FWD", "STOP_FWD", "SETTLE_REV", "SWEEP_REV",
                  "STOP_REV"}]

Busy(j) == job_state[j] # "IDLE"
Becomes(j, stage) == job_state' = [job_state EXCEPT ![j] = stage]

JobsTypeOK ==
    /\ \A j \in Jobs : job_state[j] \in StagesOf[j] \cup {"IDLE"}
    /\ command_pending \in BOOLEAN /\ motion_active \in BOOLEAN
    /\ s_active_job \in Jobs \cup {"none"}
    /\ s_suspended \in BOOLEAN /\ s_friction_suspended \in BOOLEAN
    /\ s_output_tracking \in BOOLEAN

JobsInit ==
    /\ job_state = [j \in Jobs |-> "IDLE"] /\ command_pending = FALSE
    /\ s_active_job = "none" /\ motion_active = FALSE
    /\ s_suspended = FALSE /\ s_friction_suspended = FALSE /\ s_output_tracking = FALSE

(***************************************************************************)
(* The motion commands of the jobs.                                        *)
(***************************************************************************)
(* app_motion_speed, accepted: an authorisation that still holds is used    *)
(* again, else the source is asked for.  It may be refused for reasons of   *)
(* the motion controller at any time.                                      *)
SpeedAccepted ==
    /\ ~s_stop_pending /\ s_state \in Normal
    /\ IF motion_active \/ (s_current_source = "MOTION" /\ s_epoch_newest)
       THEN UNCHANGED authorityVars ELSE SetCurrentSource("MOTION", TRUE)
    /\ motion_active' = TRUE

(* app_motion_release_output.                                              *)
Release == motion_active' = FALSE /\ SubmitCurrent(0)

(* app_motion_stop.                                                        *)
Stop == motion_active' = FALSE /\ StopAsked

(***************************************************************************)
(* Motor: the electrical angle.                                            *)
(***************************************************************************)
MotorStart == ~Busy("motor") /\ CalibBegin /\ Becomes("motor", "RUN")

CloseCalib == IF s_state = "CALIB" THEN CalibEnd ELSE UNCHANGED authorityVars

(* identify_finish: done, failed or aborted.                               *)
MotorFinish == Busy("motor") /\ Becomes("motor", "IDLE") /\ CloseCalib

(* identify_step_run drives a forced angle, then tries the offset it found  *)
(* without current; identify_step_verify probes with q current.             *)
MotorRun ==
    /\ job_state["motor"] = "RUN" /\ CalibDrive
    /\ \/ s_angle_src' = "FORCED" /\ UNCHANGED job_state
       \/ /\ s_angle_src' = "ENCODER" /\ ~s_theta_held_valid'
          /\ s_i_d_ref' = 0 /\ s_i_q_ref' = 0
          /\ Becomes("motor", "VERIFY")

MotorVerify ==
    /\ job_state["motor"] = "VERIFY"
    /\ UNCHANGED <<angleVars, s_i_d_ref, job_state>> /\ CalibDrive

MotorStep ==
    /\ pc = "idle" /\ (MotorFinish \/ MotorRun \/ MotorVerify)
    /\ UNCHANGED <<command_pending, s_active_job, motion_active, bracketVars>>

(***************************************************************************)
(* Rl: resistance, inductance and the current loop.                         *)
(***************************************************************************)
(* The trial offset that its start sets forgets the angle history; nothing  *)
(* looks at that before the forced angle ends.                             *)
RlStart ==
    /\ ~Busy("rl") /\ s_state = "READY" /\ CalibBegin
    /\ Becomes("rl", "ZERO_SETTLE")

(* A start that fails after calib_begin closes the bracket again.          *)
RlStartUndone ==
    /\ ~Busy("rl") /\ s_state = "READY" /\ ~s_stop_pending /\ ~s_vtest_active /\ pc = "idle"
    /\ s_angle_src' = "ENCODER" /\ ForgetAngle /\ ClearRefs /\ Revoke
    /\ UNCHANGED <<job_state, stateVars, s_vtest_active, s_current_source, drive, pc>>

RlFinish == Busy("rl") /\ Becomes("rl", "IDLE") /\ CloseCalib

(* The stages, with a new current where one is asked for.                  *)
RlNext(stage) ==
    CASE stage = "ZERO_SETTLE" -> {"ZERO_CAPTURE"}
      [] stage = "ZERO_CAPTURE" -> {"SETTLE"}
      [] stage = "SETTLE" -> {"RS"}
      [] stage = "RS" -> {"SETTLE", "LD_SETTLE"}
      [] stage = "LD_SETTLE" -> {"LD"}
      [] stage = "LD" -> {"LD_SETTLE", "PI_SETTLE"}
      [] stage = "PI_SETTLE" -> {"PI"}
      [] OTHER -> {"PI_SETTLE"}

RlCurrent(stage) == IF stage \in {"SETTLE", "PI_SETTLE", "PI"} THEN 1 ELSE 0

RlAdvance ==
    /\ Busy("rl") /\ UNCHANGED angleVars
    /\ \E stage \in RlNext(job_state["rl"]) :
          /\ Becomes("rl", stage)
          /\ IF stage \in {"ZERO_CAPTURE", "RS", "LD"}
             THEN UNCHANGED <<s_i_d_ref, s_i_q_ref>>
             ELSE s_i_d_ref' = RlCurrent(stage) /\ s_i_q_ref' = 0
    /\ CalibDrive

RlStep ==
    /\ pc = "idle" /\ (RlFinish \/ RlAdvance)
    /\ UNCHANGED <<command_pending, s_active_job, motion_active, bracketVars>>

(***************************************************************************)
(* Inertia: current steps on the direct source.                             *)
(***************************************************************************)
DirectAllowed == ~s_stop_pending /\ s_current_source = "DIRECT" /\ s_state \in Normal

(* app_foc_set_iq_ref(iq) and app_foc_set_id_ref(0).                       *)
AskDirect(iq) ==
    /\ IF DirectAllowed THEN s_i_q_ref_cmd' = iq /\ s_i_d_ref' = 0
       ELSE UNCHANGED <<s_i_q_ref_cmd, s_i_d_ref>>
    /\ UNCHANGED <<stateVars, angleVars, s_vtest_active, s_current_source,
                   requestVars, s_i_q_ref, drive, pc>>

InertiaStart ==
    /\ pc = "idle" /\ ~Busy("inertia") /\ s_state \in Normal /\ ~s_stop_pending
    /\ ~motion_active /\ ~s_vtest_active
    /\ \A j \in {"motor", "rl", "friction"} : ~Busy(j)
    /\ IF s_current_source = "DIRECT" THEN AskDirect(0)
       ELSE s_state = "READY" /\ SetCurrentSource("DIRECT", FALSE)
    /\ Becomes("inertia", "SETTLE")

InertiaLost == ~DirectAllowed \/ motion_active

(* inertia_fail, the end of the last run, and the abort.                   *)
InertiaEnd == Busy("inertia") /\ AskDirect(0) /\ Becomes("inertia", "IDLE")

(* One current step: up to speed, measured, reversed, measured again; a run *)
(* that is over or void makes way for the next.                            *)
InertiaRun ==
    /\ Busy("inertia") /\ ~InertiaLost
    /\ \/ job_state["inertia"] = "SETTLE" /\ Becomes("inertia", "ACCEL") /\ AskDirect(1)
       \/ /\ job_state["inertia"] = "ACCEL" /\ Becomes("inertia", "MEASURE_POS")
          /\ UNCHANGED authorityVars
       \/ /\ job_state["inertia"] = "MEASURE_POS" /\ Becomes("inertia", "NEG_SETTLE")
          /\ AskDirect(1)
       \/ /\ job_state["inertia"] = "NEG_SETTLE" /\ Becomes("inertia", "MEASURE_NEG")
          /\ UNCHANGED authorityVars
       \/ Becomes("inertia", "SETTLE") /\ AskDirect(0)

InertiaStep ==
    /\ pc = "idle" /\ (InertiaEnd \/ InertiaRun)
    /\ UNCHANGED <<command_pending, s_active_job, motion_active, bracketVars>>

(***************************************************************************)
(* Friction: speeds held by the motion controller.                          *)
(***************************************************************************)
FrictionStart ==
    /\ pc = "idle" /\ ~Busy("friction") /\ ~motion_active /\ s_state \in Normal
    /\ s_friction_suspended' = TRUE /\ s_suspended' = TRUE
    /\ command_pending' = TRUE /\ Becomes("friction", "SETTLING")
    /\ UNCHANGED <<s_output_tracking, motion_active, authorityVars>>

\* (command_pending is not read again before a start sets it.)
FrictionClose ==
    /\ s_friction_suspended' = FALSE /\ s_suspended' = FALSE
    /\ Becomes("friction", "IDLE") /\ command_pending' = FALSE
    /\ UNCHANGED s_output_tracking

(* Faulty: the command is dropped and its last request left alive.         *)
FrictionEndUnreleased ==
    /\ Busy("friction") /\ motion_active' = FALSE /\ UNCHANGED authorityVars
    /\ FrictionClose

(* identify_fail and the end of identify_fit.                              *)
FrictionEnd == Busy("friction") /\ Release /\ FrictionClose

FrictionAbort == Busy("friction") /\ Stop /\ FrictionClose

FrictionCommand ==
    /\ Busy("friction") /\ command_pending /\ SpeedAccepted
    /\ command_pending' = FALSE /\ UNCHANGED <<job_state, bracketVars>>

FrictionMeasure ==
    /\ Busy("friction") /\ ~command_pending /\ motion_active
    /\ IF job_state["friction"] = "SETTLING"
       THEN Becomes("friction", "SAMPLING") /\ UNCHANGED command_pending
       ELSE Becomes("friction", "SETTLING") /\ command_pending' = TRUE
    /\ UNCHANGED <<motion_active, bracketVars, authorityVars>>

FrictionStep ==
    /\ pc = "idle" /\ (FrictionEnd \/ FrictionCommand \/ FrictionMeasure)
    /\ UNCHANGED s_active_job

(***************************************************************************)
(* Cogging: sweeps in both directions.                                      *)
(***************************************************************************)
CoggingMayStart ==
    /\ pc = "idle" /\ ~Busy("cogging") /\ s_state \in Normal
    /\ ~s_stop_pending /\ ~s_vtest_active /\ ~motion_active
    /\ \A j \in {"motor", "rl", "friction", "inertia"} : ~Busy(j)

CoggingStart ==
    /\ CoggingMayStart /\ SpeedAccepted
    /\ s_suspended' = TRUE /\ s_output_tracking' = TRUE
    /\ Becomes("cogging", "SETTLE_FWD")
    /\ UNCHANGED <<s_friction_suspended, command_pending>>

(* Faulty: the refused start leaves the compensations suspended.           *)
CoggingRefusedSuspended ==
    /\ CoggingMayStart
    /\ s_suspended' = TRUE /\ s_output_tracking' = FALSE
    /\ UNCHANGED <<s_friction_suspended, command_pending, job_state, motion_active,
                   authorityVars>>

(* The first speed is refused: what the start has set is taken back.       *)
CoggingRefused ==
    /\ CoggingMayStart
    /\ s_suspended' = FALSE /\ s_output_tracking' = FALSE
    /\ UNCHANGED <<s_friction_suspended, command_pending, job_state, motion_active,
                   authorityVars>>

(* cogging_fail, cogging_finalize and the abort.                           *)
CoggingEnd ==
    /\ Busy("cogging") /\ Release
    /\ s_suspended' = FALSE /\ s_output_tracking' = FALSE
    /\ Becomes("cogging", "IDLE")
    /\ UNCHANGED <<s_friction_suspended, command_pending>>

(* Settled, swept (the standstill asked for may be refused), stopped, and   *)
(* the other direction or the next speed.                                  *)
CoggingRun ==
    /\ ~s_stop_pending /\ s_state \in Normal /\ motion_active
    /\ \/ \E d \in {<<"SETTLE_FWD", "SWEEP_FWD">>, <<"SETTLE_REV", "SWEEP_REV">>,
                    <<"SWEEP_FWD", "STOP_FWD">>, <<"SWEEP_REV", "STOP_REV">>} :
             /\ job_state["cogging"] = d[1] /\ Becomes("cogging", d[2])
             /\ UNCHANGED <<motion_active, authorityVars>>
       \/ \E d \in {<<"STOP_FWD", "SETTLE_REV">>, <<"STOP_REV", "SETTLE_FWD">>} :
             /\ job_state["cogging"] = d[1] /\ Becomes("cogging", d[2])
             /\ SpeedAccepted
    /\ UNCHANGED <<bracketVars, command_pending>>

CoggingStep ==
    /\ pc = "idle" /\ (CoggingEnd \/ CoggingRun)
    /\ UNCHANGED s_active_job

(***************************************************************************)
(* The terminal and the debugger.                                          *)
(***************************************************************************)
Unbracketed == UNCHANGED <<command_pending, motion_active, bracketVars>>

(* Aborting a job; one that is not busy is left alone.                     *)
Abort(j) ==
    CASE j = "motor" -> MotorFinish /\ Unbracketed
      [] j = "rl" -> RlFinish /\ Unbracketed
      [] j = "inertia" -> InertiaEnd /\ Unbracketed
      [] j = "friction" -> FrictionAbort
      [] OTHER -> CoggingEnd

Started(j) ==
    CASE j = "motor" -> s_state \in Normal /\ MotorStart /\ Unbracketed
      [] j = "rl" -> RlStart /\ Unbracketed
      [] j = "inertia" -> InertiaStart /\ Unbracketed
      [] j = "friction" -> FrictionStart
      [] OTHER -> CoggingStart

(* A typed command reaches the jobs only while none holds the terminal.    *)
TerminalStart == s_active_job = "none" /\ \E j \in Jobs : Started(j) /\ s_active_job' = j

(* The start fails: job_start and job_abort, which aborts a motor           *)
(* calibration that the debugger has started.                              *)
TerminalRefused ==
    /\ s_active_job = "none" /\ pc = "idle" /\ UNCHANGED s_active_job
    /\ \/ CoggingRefused
       \/ RlStartUndone /\ Unbracketed
       \/ s_state \in Normal /\ Busy("motor") /\ Abort("motor")

(* Ctrl-C, where it arrives, and the watchdog of the cogging command.      *)
TerminalAbort ==
    /\ pc = "idle" /\ s_active_job # "none" /\ Abort(s_active_job)
    /\ s_active_job' = "none"

(* The job's tick finds it over, prints and leaves the terminal.           *)
TerminalDone ==
    /\ pc = "idle" /\ s_active_job # "none" /\ ~Busy(s_active_job)
    /\ s_active_job' = "none"
    /\ UNCHANGED <<job_state, authorityVars>> /\ Unbracketed

DebugCal ==
    /\ pc = "idle" /\ (MotorStart \/ MotorFinish)
    /\ Unbracketed /\ UNCHANGED s_active_job

(***************************************************************************)
(* What goes on beside the jobs.                                           *)
(***************************************************************************)
(* A motion command of a host, and its withdrawal.                         *)
HostCommand ==
    /\ pc = "idle" /\ SpeedAccepted
    /\ UNCHANGED <<job_state, command_pending, s_active_job, bracketVars>>

HostStop == Stop /\ UNCHANGED <<job_state, command_pending, s_active_job, bracketVars>>

(* The motion interrupt asks for current, or finds its authority or the     *)
(* feedback gone and drops the command.                                    *)
MotionTick ==
    /\ motion_active
    /\ \/ UNCHANGED motion_active /\ \E amp \in Amps : SubmitCurrent(amp)
       \/ motion_active' = FALSE /\ (UNCHANGED authorityVars \/ SubmitCurrent(0))
    /\ UNCHANGED <<job_state, command_pending, s_active_job, bracketVars>>

(* Commands of a host and the tick of app_foc.c.                           *)
FocTask ==
    /\ EnablePublish \/ Disable \/ DisableCritical \/ RequestStop \/ StopStep \/ Body
    /\ UNCHANGED jobVars

(* The current interrupt, where it changes what a job meets: it executes a  *)
(* current or shuts the bridge.  A beat in OFF, or without an angle, leaves  *)
(* to the jobs what it found.                                              *)
JobBeat == (BeatEmergency \/ BeatRun(0)) /\ UNCHANGED jobVars

JobsNext ==
    \/ MotorStep \/ RlStep \/ InertiaStep \/ FrictionStep \/ CoggingStep
    \/ TerminalStart \/ TerminalRefused \/ TerminalAbort \/ TerminalDone \/ DebugCal
    \/ HostCommand \/ HostStop \/ MotionTick \/ FocTask
    \/ JobBeat

JobsSpec == JobsInit /\ AuthorityInit /\ [][JobsNext]_<<authorityVars, jobVars>>

(***************************************************************************)
(* Properties.                                                             *)
(***************************************************************************)
(* Whatever a job opens is closed again on each of its ways out, and no way *)
(* out of one job closes what another one needs: the compensations are      *)
(* suspended exactly for friction and cogging, the feedforward for friction, *)
(* the output angle is followed for cogging (app_friction_identify.c:105,   *)
(* app_cogging_identify.c:101), the calibration state has a job that will    *)
(* end it (app_foc.c:1242), and a direct current has the inertia job behind  *)
(* it (app_inertia_identify.c:151).                                        *)
BracketsMatch ==
    /\ s_suspended = (Busy("friction") \/ Busy("cogging"))
    /\ s_friction_suspended = Busy("friction")
    /\ s_output_tracking = Busy("cogging")
    /\ s_state = "CALIB" => Busy("motor") \/ Busy("rl")
    /\ (DirectAllowed /\ pc = "idle" /\ (s_i_q_ref_cmd # 0 \/ s_i_d_ref # 0))
          => Busy("inertia")

(* A job that worked through motion commands leaves none behind: when it    *)
(* ends no command is active, and what the interrupt may still execute is   *)
(* no current, unless a stop is about to be requested or the bridge is shut *)
(* (app_motion.c:542, 939).                                                *)
JobLeavesSilence ==
    [][\A j \in {"friction", "cogging"} :
          (Busy(j) /\ job_state'[j] = "IDLE") =>
             /\ ~motion_active'
             /\ \/ ~s_current_request'.valid \/ s_current_request'.amp = 0
                \/ pc' = "stop" \/ s_isr_inhibited']_<<authorityVars, jobVars>>
===============================================================================
