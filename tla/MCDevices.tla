----------------------------- MODULE MCDevices -----------------------------
(***************************************************************************)
(* One run for the components that share no state: in every behaviour one   *)
(* of them, the subject, moves (the jobs move the current authority too).   *)
(* The reachable states are the disjoint union of theirs; each property     *)
(* speaks of one of them.                                                  *)
(***************************************************************************)
EXTENDS IdentifyJobs, FirmwareUpdate, ParamStore, CanService, EncoderSampling, UsbLink

VARIABLE subject

Subjects == {"authority", "boot", "param", "can", "encoder", "jobs", "usb"}
vars == <<subject, authorityVars, jobVars, updateVars, storeVars, canVars, samplingVars, usbVars>>

MCInit ==
    /\ subject \in Subjects
    /\ AuthorityInit /\ JobsInit /\ UpdateInit /\ StoreInit /\ CanInit /\ SamplingInit
    /\ UsbInit
    /\ subject # "boot" => \A s \in Slots : slot[s] = "torn"

MCNext ==
    /\ UNCHANGED subject
    /\ \/ /\ subject = "authority" /\ AuthorityNext
          /\ UNCHANGED <<jobVars, updateVars, storeVars, canVars, samplingVars, usbVars>>
       \/ /\ subject = "boot" /\ UpdateNext
          /\ UNCHANGED <<jobVars, authorityVars, storeVars, canVars, samplingVars, usbVars>>
       \/ /\ subject = "param" /\ StoreNext
          /\ UNCHANGED <<jobVars, authorityVars, updateVars, canVars, samplingVars, usbVars>>
       \/ /\ subject = "can" /\ CanNext
          /\ UNCHANGED <<jobVars, authorityVars, updateVars, storeVars, samplingVars, usbVars>>
       \/ /\ subject = "encoder" /\ SamplingNext
          /\ UNCHANGED <<jobVars, authorityVars, updateVars, storeVars, canVars, usbVars>>
       \/ /\ subject = "jobs" /\ JobsNext
          /\ UNCHANGED <<updateVars, storeVars, canVars, samplingVars, usbVars>>
       \/ /\ subject = "usb" /\ UsbNext
          /\ UNCHANGED <<jobVars, authorityVars, updateVars, storeVars, canVars, samplingVars>>

MCSpec == MCInit /\ [][MCNext]_vars

\* The type invariants of the subjects.
DevicesTypeOK ==
    /\ AuthorityTypeOK /\ JobsTypeOK /\ StoreTypeOK /\ CanTypeOK /\ SamplingTypeOK
    /\ UsbTypeOK

(* The brackets of the identification jobs match wherever the jobs are the  *)
(* subject: the authority's other clients are not theirs                    *)
(* (app_friction_identify.c:105, app_cogging_identify.c:101).               *)
JobBracketsMatch == subject = "jobs" => BracketsMatch

=============================================================================
