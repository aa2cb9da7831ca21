---------------------------- MODULE MCCanService ----------------------------
(***************************************************************************)
(* The CAN service with a history of what its documents count as traffic:   *)
(* control frames for this node that decode, and keys on the terminal.      *)
(***************************************************************************)
EXTENDS CanService

VARIABLE valid_silence  \* while armed: periods since the last of these

HistoryInit == CanInit /\ valid_silence = 0

HearsValid == Hooked /\ Head(fifo).kind = "valid"

HistoryNext ==
    \/ IsrReceive /\ valid_silence' = IF HearsValid THEN 0 ELSE valid_silence
    \/ TerminalFeeds /\ valid_silence' = 0
    \/ Tick /\ valid_silence' = IF s_wd_armed /\ valid_silence < SilenceCap
                                THEN valid_silence + 1 ELSE valid_silence
    \/ /\ \/ \E kind \in Kinds, probe \in BOOLEAN : BusFrame(kind, probe)
          \/ BusOff \/ IsrEnter \/ IsrExit
          \/ ServiceInit \/ ServiceDrain \/ StepBegin \/ Poll \/ ProcessRx
          \/ WatchdogRead \/ WatchdogDecide \/ WatchdogFire \/ TerminalBlocks
       /\ UNCHANGED valid_silence

HistorySpec == HistoryInit /\ [][HistoryNext]_<<canVars, valid_silence>>

(* App/Comm/can/Src/app_can_service.c:49 of s_last_control_cycles: the last *)
(* valid control frame.  A silence of such frames and of keys longer than   *)
(* the timeout raises COMM_TIMEOUT, whatever else is on the bus.            *)
ValidSilenceRaises ==
    s_wd_armed /\ valid_silence > Timeout + BlockMax + 1 => raised
=============================================================================
