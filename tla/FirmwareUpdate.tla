--------------------------- MODULE FirmwareUpdate ---------------------------
(***************************************************************************)
(* Boot and update over two image slots: the bootloader (main.c, boot.c,    *)
(* dfu.c and the sector writer of flash.c), the application's side of it   *)
(* (app_boot.c, the confirmation in app_logic.c), the mailbox that a hot    *)
(* reset keeps, and the power that may go at any moment.                   *)
(*                                                                         *)
(* A slot holds nothing that verifies ("torn"), a good image, which lives   *)
(* long enough to confirm itself, or a bad one, which does not.  An image   *)
(* takes two sectors: the first is programmed when it is full, the last     *)
(* when the download is finished.  The image logs are written and never     *)
(* decide anything: only their failure shows here.                         *)
(***************************************************************************)
EXTENDS BootLog

CONSTANTS
    BOOT_MAX_ATTEMPTS,  \* starts of a pending image (3)
    MaxFailures,        \* flash operations that fail
    LogCuts             \* whether the rewriting of a full log may be cut or fail

ASSUME UpdateAssumption ==
    /\ BOOT_MAX_ATTEMPTS \in Nat \ {0} /\ MaxFailures \in Nat /\ LogCuts \in BOOLEAN

Images == {"good", "bad"}
Whole(content) == content \in Images

VARIABLES
    control,        \* the boot control log
    slot,           \* what the two slots hold
    mailbox,        \* BOOT_MAILBOX_REQUEST_DFU in the general purpose registers
    mode,           \* what runs: "boot", "fallback" (of boot_decide), "dfu", "app"
    running,        \* the slot of the application that runs, or the target of a download
    s_session,      \* the download: [active, image, sectors]
    s_reset_at_ms,  \* a reset is due after a download
    allow_timeout,  \* an idle bootloader goes back to the application
    saved,          \* the last record whose save succeeded
    starts,         \* starts of a bad image in a row, with a good one beside it
    failures,       \* flash operations failed so far
    ran             \* an application was started once

updateVars == <<control, slot, mailbox, mode, running, s_session, s_reset_at_ms, allow_timeout,
          saved, starts, failures, ran>>

NoSession == [active |-> FALSE, image |-> "torn", sectors |-> 0]
StartsCap == BOOT_MAX_ATTEMPTS + MaxFailures + 1

UpdateInit ==
    /\ control = <<>> /\ saved = NoRecord
    /\ slot \in {[s \in Slots |-> "torn"], [s \in Slots |-> IF s = 0 THEN "good" ELSE "torn"]}
    /\ mailbox = FALSE /\ mode = "boot" /\ running = NoSlot
    /\ s_session = NoSession /\ s_reset_at_ms = FALSE /\ allow_timeout = FALSE
    /\ starts = 0 /\ failures = 0 /\ ran = FALSE

(***************************************************************************)
(* Saving a control record, and losing power.                               *)
(***************************************************************************)
SaveDone(r) ==
    /\ control' = Saved(control, r) /\ saved' = Numbered(control, r)
    /\ UNCHANGED failures

(* A write that fails leaves a torn record.                                *)
SaveFailed ==
    /\ failures < MaxFailures /\ failures' = failures + 1
    /\ \/ ~Full(control) /\ control' = Append(control, Torn)
       \/ Full(control) /\ LogCuts /\ control' \in CutShort(control)
    /\ UNCHANGED saved

NoSave == UNCHANGED <<control, saved, failures>>

(* The machine starts again: the variables of the program are gone.        *)
Restart == mode' = "boot" /\ running' = NoSlot /\ s_session' = NoSession
           /\ s_reset_at_ms' = FALSE /\ allow_timeout' = FALSE

(* Power goes while the log is written, or at any other moment.            *)
CutLog ==
    /\ LogCuts \/ ~Full(control)
    /\ control' \in CutShort(control)
PowerGone == Restart /\ mailbox' = FALSE /\ UNCHANGED <<saved, starts, failures, ran>>

PowerCut ==
    /\ PowerGone /\ UNCHANGED slot
    /\ UNCHANGED control \/ (mode # "dfu" /\ CutLog)

HotReset == Restart /\ UNCHANGED <<control, slot, mailbox, saved, starts, failures, ran>>

(***************************************************************************)
(* The bootloader.                                                          *)
(***************************************************************************)
ctl == LoadOrDefault(control)
Other(s) == 1 - s

(* boot_jump.                                                              *)
Start(s) ==
    /\ mode' = "app" /\ running' = s /\ ran' = TRUE
    /\ starts' = IF slot[s] = "bad" /\ slot[Other(s)] = "good"
                 THEN (IF starts < StartsCap THEN starts + 1 ELSE starts) ELSE 0
    /\ UNCHANGED <<slot, mailbox, s_session, s_reset_at_ms, allow_timeout>>

(* The slot a download overwrites (main).                                  *)
ActiveSlot == ctl.active
TargetSlot == IF Whole(slot[ctl.active]) THEN Other(ctl.active) ELSE ctl.active

(* dfu_run.                                                                *)
EnterDfu ==
    /\ mode' = "dfu" /\ running' = TargetSlot
    /\ allow_timeout' = Whole(slot[ctl.active])
    /\ s_session' = NoSession /\ s_reset_at_ms' = FALSE
    /\ NoSave /\ UNCHANGED <<slot, starts, ran>>

BootDfuRequested == mode = "boot" /\ mailbox /\ mailbox' = FALSE /\ EnterDfu

(* boot_decide: the pending image is tried while it has attempts left; the  *)
(* result of a save is not looked at.                                      *)
AttemptsUnbounded == TRUE
AttemptsLeft == ctl.attempts + 1 <= BOOT_MAX_ATTEMPTS
PendingTried == ctl.pending # NoSlot /\ Whole(slot[ctl.pending]) /\ AttemptsLeft

BootPending ==
    /\ mode = "boot" /\ ~mailbox /\ PendingTried
    /\ SaveDone([ctl EXCEPT !.attempts = @ + 1]) \/ SaveFailed
    /\ Start(ctl.pending)

(* boot_clear_pending.                                                     *)
ClearPending == SaveDone([ctl EXCEPT !.pending = NoSlot, !.attempts = 0])

BootGiveUpPending ==
    /\ mode = "boot" /\ ~mailbox /\ ctl.pending # NoSlot /\ ~PendingTried
    /\ ClearPending \/ SaveFailed
    /\ mode' = "fallback"
    /\ UNCHANGED <<slot, mailbox, running, s_session, s_reset_at_ms, allow_timeout, starts, ran>>

Fallback == ~mailbox /\ (mode = "fallback" \/ (mode = "boot" /\ ctl.pending = NoSlot))

BootActive == Fallback /\ Whole(slot[ctl.active]) /\ NoSave /\ Start(ctl.active)

BootOther ==
    /\ Fallback /\ ~Whole(slot[ctl.active]) /\ Whole(slot[Other(ctl.active)])
    /\ \/ SaveDone(Record(Other(ctl.active), NoSlot, 0, FALSE, 0))
       \/ SaveFailed
    /\ Start(Other(ctl.active))

BootNothing ==
    /\ Fallback /\ ~Whole(slot[0]) /\ ~Whole(slot[1])
    /\ UNCHANGED mailbox /\ EnterDfu

(***************************************************************************)
(* A download.                                                              *)
(***************************************************************************)
Downloaded(image) == IF slot[running] = image THEN image ELSE "torn"

FlashFails == failures < MaxFailures /\ failures' = failures + 1

(* Block 0 with a header for this slot: also when a download was under way. *)
DownloadFirst(image) ==
    /\ mode = "dfu"
    /\ \/ /\ s_session' = [active |-> TRUE, image |-> image, sectors |-> 1]
          /\ slot' = [slot EXCEPT ![running] = Downloaded(image)]
          /\ UNCHANGED failures
       \/ /\ s_session' = NoSession
          /\ slot' \in {slot, [slot EXCEPT ![running] = "torn"]} /\ FlashFails
    /\ allow_timeout' = FALSE
    /\ UNCHANGED <<control, mailbox, mode, running, s_reset_at_ms, saved, starts, ran>>

(* The last block stays in the buffer.                                     *)
DownloadNext ==
    /\ mode = "dfu" /\ s_session.active /\ s_session.sectors = 1
    /\ s_session' = [s_session EXCEPT !.sectors = 2]
    /\ UNCHANGED <<control, slot, mailbox, mode, running, s_reset_at_ms, allow_timeout,
                   saved, starts, failures, ran>>

(* A block out of order, a header for the other slot, an abort.            *)
DownloadFail ==
    /\ mode = "dfu" /\ s_session' = NoSession /\ allow_timeout' = FALSE
    /\ UNCHANGED <<control, slot, mailbox, mode, running, s_reset_at_ms, saved, starts,
                   failures, ran>>

(* tud_dfu_manifest_cb: the buffer is written and what the flash holds is   *)
(* verified; a corrupt download ("torn") or a short one is refused.         *)
Complete == s_session.active /\ s_session.sectors = 2 /\ Whole(s_session.image)

(* boot_slot_commit.                                                       *)
Commit(s) == SaveDone([ctl EXCEPT !.pending = s, !.attempts = 0, !.confirmed = FALSE])

Manifest ==
    /\ mode = "dfu" /\ Complete
    /\ slot' = [slot EXCEPT ![running] = s_session.image]
    /\ \/ Commit(running) /\ s_reset_at_ms' = TRUE
       \/ SaveFailed /\ UNCHANGED s_reset_at_ms
    /\ s_session' = NoSession
    /\ UNCHANGED <<mailbox, mode, running, allow_timeout, starts, ran>>

ManifestCut ==
    /\ mode = "dfu" /\ Complete
    /\ slot' = [slot EXCEPT ![running] = s_session.image]
    /\ PowerGone /\ CutLog

ManifestRefused ==
    /\ mode = "dfu" /\ ~Complete /\ s_session' = NoSession /\ allow_timeout' = FALSE
    /\ UNCHANGED <<control, slot, mailbox, mode, running, s_reset_at_ms, saved, starts,
                   failures, ran>>

DfuReset == mode = "dfu" /\ (s_reset_at_ms \/ allow_timeout) /\ HotReset

(***************************************************************************)
(* The application.                                                         *)
(***************************************************************************)
Confirmed(s) == Record(s, NoSlot, 0, TRUE, 0)
AlreadyConfirmed(s) ==
    /\ Load(control) # NoRecord
    /\ ctl.active = s /\ ctl.pending = NoSlot /\ ctl.confirmed

(* boot_confirm_running_slot: nothing is written when nothing changes.      *)
SaveConfirmed(s) ==
    \/ AlreadyConfirmed(s) /\ NoSave
    \/ ~AlreadyConfirmed(s) /\ (SaveDone(Confirmed(s)) \/ SaveFailed)

(* app_boot_confirm, two seconds after the start, again until it succeeds.  *)
Confirm ==
    /\ mode = "app" /\ slot[running] = "good"
    /\ SaveConfirmed(running)
    /\ UNCHANGED <<slot, mailbox, mode, running, s_session, s_reset_at_ms, allow_timeout,
                   starts, ran>>

(* app_boot_request_dfu: goes on when the confirmation fails.              *)
RequestDfu ==
    /\ mode = "app" /\ slot[running] = "good"
    /\ SaveConfirmed(running)
    /\ mailbox' = TRUE /\ Restart
    /\ UNCHANGED <<slot, starts, ran>>

(* app_boot_set_active, `dfu slot a|b' on the bench: of good images only.   *)
SetActive(s) ==
    /\ mode = "app" /\ slot[running] = "good" /\ slot[s] = "good"
    /\ SaveDone(Record(s, NoSlot, 0, FALSE, 0)) \/ SaveFailed
    /\ UNCHANGED <<slot, mailbox, mode, running, s_session, s_reset_at_ms, allow_timeout,
                   starts, ran>>

(* A bad image hangs until it is reset.                                    *)
BadImageReset == mode = "app" /\ slot[running] = "bad" /\ HotReset

UpdateNext ==
    \/ PowerCut
    \/ BootDfuRequested \/ BootPending \/ BootGiveUpPending \/ BootActive \/ BootOther
    \/ BootNothing
    \/ \E image \in Images \cup {"torn"} : DownloadFirst(image)
    \/ DownloadNext \/ DownloadFail \/ Manifest \/ ManifestCut \/ ManifestRefused \/ DfuReset
    \/ Confirm \/ RequestDfu \/ BadImageReset
    \/ \E s \in Slots : SetActive(s)

UpdateSpec == UpdateInit /\ [][UpdateNext]_updateVars

(***************************************************************************)
(* Properties.                                                              *)
(***************************************************************************)
(* An update never takes the last image away: once an application was       *)
(* started, some slot verifies for ever, at whatever point power goes, a    *)
(* write fails or a download is broken off (main.c:42, boot.c:112,          *)
(* dfu.c:75).                                                               *)
NeverBricked == ran => \E s \in Slots : Whole(slot[s])

(* A bad image beside a good one is started BOOT_MAX_ATTEMPTS times at most *)
(* and once more for every record that could not be written (boot.c:123).  *)
BadImageGivesWay == starts <= BOOT_MAX_ATTEMPTS + failures

(* What the next start reads is the last record whose save succeeded, over  *)
(* the wrap of the sequence number and after torn records: power that goes  *)
(* costs at most the unfinished record (boot_meta.c:225, design 60).       *)
PowerCutLosesLastOnly == Load(control) = saved
===============================================================================
