----------------------------- MODULE CanService -----------------------------
(***************************************************************************)
(* The receive path and the communication watchdog of the CAN node: the     *)
(* controller's FIFO and interrupt (Driver/hpm_impl/drv_mcan.c), the ring   *)
(* of App/Platform/Src/app_can.c and the queue and the 1 kHz step of        *)
(* App/Comm/can/Src/app_can_service.c.                                      *)
(*                                                                         *)
(* The interrupt preempts the io task between any two of its steps.  A tick *)
(* is a period of that task, which runs once in it unless it is blocked: a  *)
(* terminal command may wait for seconds in the same task.  What a frame    *)
(* does when it is executed is the subject of the other modules; this one   *)
(* follows which frames are executed, when and in which order, and when     *)
(* silence is noticed.  One frame at a time may be the probe, whose age is  *)
(* measured.  Counters of the statistics are left out.                      *)
(***************************************************************************)
EXTENDS Integers, SequencesExt

CONSTANTS
    FifoSize,       \* elements of the controller's receive FIFO
    RingSize,       \* APP_CAN_RX_BUF_SIZE (16)
    QueueSize,      \* CAN_RX_QUEUE_SIZE (32), one of them never used
    RxBudget,       \* CAN_RX_BUDGET_PER_STEP (8)
    Timeout,        \* comm_timeout_ms in periods of the task (100)
    BlockMax        \* periods that the io task may be blocked

(* A frame of the types 1 to 7 for this node that decodes, one that does not, *)
(* and any other.                                                          *)
Kinds == {"valid", "invalid", "foreign"}

ASSUME CanAssumption ==
    /\ {FifoSize, RingSize, RxBudget, Timeout} \subseteq Nat \ {0}
    /\ QueueSize \in Nat \ {0, 1} /\ BlockMax \in Nat

Frames == [kind : Kinds, probe : BOOLEAN]
NoFrame == [kind |-> "none", probe |-> FALSE]

VARIABLES
    fifo, flags,    \* the controller: received frames, pending interrupt events
    on_bus,         \* it takes part in the bus
    isr,            \* the interrupt: "idle", or receiving
    isr_events,     \* the events it has fetched
    s_rx_ring, s_rxq,
    taken,          \* the frame the service took last in this step
    s_wd_armed, s_wd_fired,
    silence,        \* while armed: periods since s_last_control_cycles was stamped
    late, fed,      \* the watchdog's check: it was late at its first reading;
                    \* the stamp changed since
    raised,         \* COMM_TIMEOUT was raised since the last stamp
    can_pc,         \* where the io task stands
    rx_done,        \* frames taken in this step of the service
    stepped,        \* the io task had its turn in this period
    blocked,        \* periods it will be blocked
    probe_age

busVars == <<fifo, flags, on_bus>>
isrVars == <<isr, isr_events>>
wdVars == <<s_wd_armed, s_wd_fired, silence, raised>>
taskVars == <<can_pc, rx_done, late, stepped, blocked>>
canVars == <<busVars, isrVars, s_rx_ring, s_rxq, taken, wdVars, taskVars, fed, probe_age>>

(* Everything received that is still to be executed.                       *)
Pipeline == s_rxq \o s_rx_ring \o fifo
Probed(frames) == \E i \in DOMAIN frames : frames[i].probe

(* A frame is taken at the latest in the step that reaches the end of the    *)
(* queue, and each of these steps may be followed by a blocking command.    *)
StepsToServe == (QueueSize - 1 + RxBudget - 1) \div RxBudget
AgeMax == StepsToServe * (BlockMax + 1)
SilenceCap == Timeout + BlockMax + 2

CanTypeOK ==
    /\ Len(fifo) <= FifoSize /\ Len(s_rx_ring) <= RingSize /\ Len(s_rxq) < QueueSize
    /\ \A i \in DOMAIN Pipeline : Pipeline[i] \in Frames
    /\ flags \subseteq {"NEW_MSG", "BUS_OFF"} /\ isr_events \subseteq {"NEW_MSG", "BUS_OFF"}
    /\ on_bus \in BOOLEAN /\ isr \in {"idle", "receive"}
    /\ taken \in Frames \cup {NoFrame}
    /\ {s_wd_armed, s_wd_fired, raised, late, fed, stepped} \subseteq BOOLEAN
    /\ silence \in 0 .. SilenceCap /\ rx_done \in 0 .. RxBudget /\ blocked \in 0 .. BlockMax
    /\ can_pc \in {"boot", "drain", "idle", "poll", "rx", "wd", "wd_stamp", "wd_fire"}
    /\ probe_age \in 0 .. AgeMax + 1

CanInit ==
    /\ fifo = <<>> /\ flags = {} /\ on_bus = TRUE
    /\ isr = "idle" /\ isr_events = {}
    /\ s_rx_ring = <<>> /\ s_rxq = <<>> /\ taken = NoFrame
    /\ s_wd_armed = FALSE /\ s_wd_fired = FALSE /\ silence = 0 /\ raised = FALSE
    /\ can_pc = "boot" /\ rx_done = 0 /\ late = FALSE /\ stepped = FALSE /\ blocked = 0
    /\ fed = FALSE /\ probe_age = 0

(***************************************************************************)
(* The controller.                                                         *)
(***************************************************************************)
(* A frame that finds the FIFO full is lost.                               *)
BusFrame(kind, probe) ==
    /\ on_bus /\ (probe => ~Probed(Pipeline))
    /\ \/ /\ Len(fifo) < FifoSize
          /\ fifo' = Append(fifo, [kind |-> kind, probe |-> probe])
          /\ flags' = flags \cup {"NEW_MSG"}
          /\ probe_age' = IF probe THEN 0 ELSE probe_age
       \/ Len(fifo) = FifoSize /\ UNCHANGED <<fifo, flags, probe_age>>
    /\ UNCHANGED <<on_bus, isrVars, s_rx_ring, s_rxq, taken, wdVars, taskVars, fed>>

(* Nothing but a new initialisation brings the controller back.             *)
BusOff ==
    /\ on_bus /\ on_bus' = FALSE /\ flags' = flags \cup {"BUS_OFF"}
    /\ UNCHANGED <<fifo, isrVars, s_rx_ring, s_rxq, taken, wdVars, taskVars, fed, probe_age>>

(***************************************************************************)
(* The interrupt.                                                          *)
(***************************************************************************)
(* mcan_isr_handler: the flags are cleared before the FIFO is read.         *)
IsrEnter ==
    /\ isr = "idle" /\ flags # {}
    /\ isr_events' = flags /\ flags' = {} /\ isr' = "receive"
    /\ UNCHANGED <<fifo, on_bus, s_rx_ring, s_rxq, taken, wdVars, taskVars, fed, probe_age>>

Hooked == can_pc # "boot"

(* can_rx_isr_hook: a frame for this node counts before it is decoded, so   *)
(* one that will be rejected counts too.                                   *)
Feeds(frame) == frame.kind # "foreign"

(* A stamp that forgets that the timeout was reported.                      *)
StampKeepsFired ==
    /\ s_wd_armed' = TRUE /\ s_wd_fired' = s_wd_fired /\ silence' = 0 /\ raised' = FALSE
    /\ fed' = (can_pc = "wd_stamp")

Stamp ==
    /\ s_wd_armed' = TRUE /\ s_wd_fired' = FALSE /\ silence' = 0 /\ raised' = FALSE
    /\ fed' = (can_pc = "wd_stamp")

(* can_irq_handler, one turn of its loop: the ring keeps the oldest.        *)
IsrReceive ==
    /\ isr = "receive" /\ "NEW_MSG" \in isr_events /\ fifo # <<>>
    /\ fifo' = Tail(fifo)
    /\ s_rx_ring' = IF Len(s_rx_ring) < RingSize THEN Append(s_rx_ring, Head(fifo))
                    ELSE s_rx_ring
    /\ IF Hooked /\ Feeds(Head(fifo)) THEN Stamp ELSE UNCHANGED <<wdVars, fed>>
    /\ UNCHANGED <<flags, on_bus, isrVars, s_rxq, taken, taskVars, probe_age>>

IsrExit ==
    /\ isr = "receive" /\ ("NEW_MSG" \notin isr_events \/ fifo = <<>>)
    /\ isr' = "idle" /\ isr_events' = {}
    /\ s_rx_ring' = IF "BUS_OFF" \in isr_events THEN <<>> ELSE s_rx_ring
    /\ UNCHANGED <<busVars, s_rxq, taken, wdVars, taskVars, fed, probe_age>>

(***************************************************************************)
(* The io task.                                                            *)
(***************************************************************************)
(* app_can_service_init, up to the two registrations, and the discarding of *)
(* what has come before them.                                              *)
ServiceInit ==
    /\ can_pc = "boot" /\ isr = "idle"
    /\ s_rxq' = <<>> /\ can_pc' = "drain"
    /\ s_wd_armed' = FALSE /\ s_wd_fired' = FALSE /\ silence' = 0 /\ raised' = FALSE
    /\ UNCHANGED <<busVars, isrVars, s_rx_ring, taken, rx_done, late, stepped, blocked,
                   fed, probe_age>>

ServiceDrainNothing ==
    /\ can_pc = "drain" /\ isr = "idle"
    /\ can_pc' = "idle" /\ stepped' = TRUE
    /\ UNCHANGED <<busVars, isrVars, s_rx_ring, s_rxq, taken, wdVars, rx_done, late, blocked,
                   fed, probe_age>>

ServiceDrain ==
    /\ can_pc = "drain" /\ isr = "idle"
    /\ IF s_rx_ring = <<>> THEN can_pc' = "idle" /\ stepped' = TRUE /\ UNCHANGED s_rx_ring
       ELSE s_rx_ring' = Tail(s_rx_ring) /\ UNCHANGED <<can_pc, stepped>>
    /\ UNCHANGED <<busVars, isrVars, s_rxq, taken, wdVars, rx_done, late, blocked, fed,
                   probe_age>>

StepBegin ==
    /\ can_pc = "idle" /\ isr = "idle" /\ ~stepped /\ blocked = 0
    /\ can_pc' = "poll"
    /\ UNCHANGED <<busVars, isrVars, s_rx_ring, s_rxq, taken, wdVars, rx_done, late, stepped,
                   blocked, fed, probe_age>>

(* A queue whose full test is one off overwrites its oldest frames.         *)
PollWraps ==
    /\ can_pc = "poll" /\ isr = "idle"
    /\ IF s_rx_ring = <<>> THEN can_pc' = "rx" /\ rx_done' = 0 /\ UNCHANGED <<s_rx_ring, s_rxq>>
       ELSE /\ s_rx_ring' = Tail(s_rx_ring)
            /\ s_rxq' = IF Len(s_rxq) = QueueSize - 1
                        THEN <<Head(s_rx_ring)>> \o Tail(s_rxq)
                        ELSE Append(s_rxq, Head(s_rx_ring))
            /\ UNCHANGED <<can_pc, rx_done>>
    /\ UNCHANGED <<busVars, isrVars, taken, wdVars, late, stepped, blocked, fed, probe_age>>

(* app_can_poll and can_rx_callback: the whole ring moves to the queue, which *)
(* drops what it has no room for.                                          *)
Poll ==
    /\ can_pc = "poll" /\ isr = "idle"
    /\ IF s_rx_ring = <<>> THEN can_pc' = "rx" /\ rx_done' = 0 /\ UNCHANGED <<s_rx_ring, s_rxq>>
       ELSE /\ s_rx_ring' = Tail(s_rx_ring)
            /\ s_rxq' = IF Len(s_rxq) = QueueSize - 1 THEN s_rxq
                        ELSE Append(s_rxq, Head(s_rx_ring))
            /\ UNCHANGED <<can_pc, rx_done>>
    /\ UNCHANGED <<busVars, isrVars, taken, wdVars, late, stepped, blocked, fed, probe_age>>

(* can_process_rx: at most the budget.                                     *)
ProcessRx ==
    /\ can_pc = "rx" /\ isr = "idle"
    /\ IF s_rxq = <<>> \/ rx_done = RxBudget
       THEN can_pc' = "wd" /\ rx_done' = 0 /\ taken' = NoFrame /\ UNCHANGED s_rxq
       ELSE taken' = Head(s_rxq) /\ s_rxq' = Tail(s_rxq) /\ rx_done' = rx_done + 1
            /\ UNCHANGED can_pc
    /\ UNCHANGED <<busVars, isrVars, s_rx_ring, wdVars, late, stepped, blocked, fed, probe_age>>

(* can_watchdog_step reads the counter and the stamp, in the order the       *)
(* compiler chose; the interrupt may stamp in between.                      *)
WatchdogRead ==
    /\ can_pc = "wd" /\ isr = "idle"
    /\ IF s_wd_armed THEN can_pc' = "wd_stamp" /\ late' = (silence > Timeout)
       ELSE can_pc' = "idle" /\ UNCHANGED late
    /\ stepped' = TRUE
    /\ UNCHANGED <<busVars, isrVars, s_rx_ring, s_rxq, taken, wdVars, rx_done, blocked, fed,
                   probe_age>>

(* A stamp newer than the counter makes the difference a huge number.       *)
Elapsed == IF fed THEN {late, TRUE} ELSE {late}

WatchdogDecide ==
    /\ can_pc = "wd_stamp" /\ isr = "idle"
    /\ \E over \in Elapsed :
         IF over /\ ~s_wd_fired THEN can_pc' = "wd_fire" /\ UNCHANGED late
         ELSE can_pc' = "idle" /\ late' = FALSE
    /\ fed' = FALSE
    /\ UNCHANGED <<busVars, isrVars, s_rx_ring, s_rxq, taken, wdVars, rx_done, stepped,
                   blocked, probe_age>>

(* The mark and app_fault_raise, with the controlled stop it asks for.       *)
WatchdogFire ==
    /\ can_pc = "wd_fire" /\ isr = "idle"
    /\ s_wd_fired' = TRUE /\ raised' = TRUE /\ can_pc' = "idle" /\ late' = FALSE
    /\ UNCHANGED <<busVars, isrVars, s_rx_ring, s_rxq, taken, s_wd_armed, silence, rx_done,
                   stepped, blocked, fed, probe_age>>

(* app_can_service_feed_watchdog: a key on the terminal counts as traffic.   *)
TerminalFeeds ==
    /\ can_pc = "idle" /\ isr = "idle" /\ stepped /\ Stamp
    /\ UNCHANGED <<busVars, isrVars, s_rx_ring, s_rxq, taken, taskVars, probe_age>>

(* A terminal command waits, foc off for up to three seconds.               *)
TerminalBlocks ==
    /\ can_pc = "idle" /\ isr = "idle" /\ stepped /\ blocked = 0
    /\ blocked' \in 1 .. BlockMax
    /\ UNCHANGED <<busVars, isrVars, s_rx_ring, s_rxq, taken, wdVars, can_pc, rx_done, late,
                   stepped, fed, probe_age>>

(* The next period begins: interrupts are served and the task had its turn,  *)
(* or is blocked, or has not started the service.                          *)
Tick ==
    /\ isr = "idle" /\ flags = {}
    /\ can_pc = "boot" \/ (can_pc = "idle" /\ (stepped \/ blocked > 0))
    /\ blocked' = IF stepped \/ blocked = 0 THEN blocked ELSE blocked - 1
    /\ stepped' = FALSE
    /\ silence' = IF s_wd_armed /\ silence < SilenceCap THEN silence + 1 ELSE silence
    /\ probe_age' = IF ~Probed(Pipeline) THEN 0
                    ELSE IF probe_age <= AgeMax THEN probe_age + 1 ELSE probe_age
    /\ UNCHANGED <<busVars, isrVars, s_rx_ring, s_rxq, taken, s_wd_armed, s_wd_fired, raised,
                   can_pc, rx_done, late, fed>>

CanNext ==
    \/ \E kind \in Kinds, probe \in BOOLEAN : BusFrame(kind, probe)
    \/ BusOff \/ IsrEnter \/ IsrReceive \/ IsrExit
    \/ ServiceInit \/ ServiceDrain \/ StepBegin \/ Poll \/ ProcessRx
    \/ WatchdogRead \/ WatchdogDecide \/ WatchdogFire
    \/ TerminalFeeds \/ TerminalBlocks \/ Tick

CanSpec == CanInit /\ [][CanNext]_canVars

(***************************************************************************)
(* Properties.                                                             *)
(***************************************************************************)
(* Frames are executed in the order in which they came, none of them twice, *)
(* whatever the three buffers drop and bus-off clears (the claim under the  *)
(* ring, the queue and the budget of 8).                                    *)
Channel == INSTANCE LossyFifo WITH Message <- Frames, chan <- Pipeline, out <- taken
FramesInOrder == Channel!Spec

(* A command is executed within AgeMax periods of its arrival or never: not  *)
(* a frame that arrived before the service, none that the controller keeps  *)
(* back, and of those held up behind a blocking command no older ones.      *)
CommandsFresh ==
    can_pc \notin {"boot", "drain"} /\ Probed(Pipeline) => probe_age <= AgeMax

(* Once a frame for this node or a key has armed the watchdog, a silence of  *)
(* both longer than the timeout raises COMM_TIMEOUT, however the interrupt's *)
(* stamps fall between the watchdog's reads and writes.  The documents and   *)
(* comments promise this of valid frames; the hook cannot tell, and this is  *)
(* the part that holds (see ValidSilenceRaises in MCCanService).            *)
AddressedSilenceRaises ==
    s_wd_armed /\ silence > Timeout + BlockMax + 1 => raised

(* docs/can-protocol_v0.1.1.md, 6.3: the timeout comes after 100 ms without  *)
(* a control frame, so it is not raised while frames keep coming.           *)
TimeoutMeansSilence == can_pc = "wd_fire" => late
===============================================================================
