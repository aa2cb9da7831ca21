------------------------------ MODULE UsbLink ------------------------------
(***************************************************************************)
(* The request channel of the USB interface: the bulk endpoints             *)
(* (Driver/hpm_impl/drv_usb_cdc.c), the service of the io task              *)
(* (App/Comm/usb/Src/app_usb_proto.c) and a host that pairs answers with    *)
(* requests by their number (Gui/core/src/session.rs).                      *)
(*                                                                         *)
(* A frame is two cells and a packet one or both; a frame of which a cell   *)
(* is missing fails its checksum.  What a command does is the subject of    *)
(* other modules.  The numbers of the requests do not come round here: 256   *)
(* would have to be sent while one answer is on its way.  The USB interrupt  *)
(* preempts the service between any two of its steps.  The statistics are    *)
(* left out.                                                               *)
(***************************************************************************)
EXTENDS Integers, Sequences

CONSTANTS
    RingCells,      \* USB_BULK_RX_RING_SIZE (1024 bytes), one of them never used
    ReadMax,        \* PROTO_SERVICE_READ_MAX (256 bytes)
    ReadRetries,    \* READ_RETRIES (2)
    HostPatience,   \* time-outs of the host while the io task is blocked
    MaxRequests, MaxResets      \* bounds of the exploration

ASSUME UsbAssumption ==
    /\ {ReadMax, MaxRequests} \subseteq Nat \ {0}
    /\ RingCells \in Nat \ {0, 1} /\ {ReadRetries, HostPatience, MaxResets} \subseteq Nat

Requests == 1 .. MaxRequests
Telemetry == MaxRequests + 1
Nothing == 0
Cells == [req : Requests, half : {1, 2}]
NoCell == [req |-> Nothing, half |-> 1]

VARIABLES
    s_configured,
    rx_ring, rx_head, rx_tail,
    s_tx_buf, s_tx_busy,
    tx_stalled,     \* the transfer began more than 50 ms ago
    in_flight,      \* the controller holds a transfer of the buffer
    usb_pc,         \* where the service stands
    chunk,          \* the cells it has read
    parser,         \* the frame whose first cell it has
    s_pending,      \* s_pending_frame
    is_open,        \* the host has a session
    sent,           \* requests it has sent
    waiting,        \* it waits for the answer to the last of them
    tries_left,
    waited,         \* time-outs since the service last began
    wire_out,       \* cells it has sent that are not received
    newest,         \* the newest request executed,
    twice,          \* and whether it, or an older one, was executed again
    reset_cut,      \* a bus reset fell between load and store of the tail
    lost,           \* the ring or the controller has lost something,
    unanswered,     \* and a request was left without an answer
    resets

ringVars == <<rx_ring, rx_head, rx_tail>>
txVars == <<s_tx_buf, s_tx_busy, tx_stalled, in_flight>>
serviceVars == <<usb_pc, chunk, parser, s_pending>>
sessionVars == <<is_open, sent, waiting, tries_left, waited, wire_out>>
lossVars == <<lost, unanswered>>
historyVars == <<newest, twice, reset_cut, lossVars, resets>>
usbVars == <<s_configured, ringVars, txVars, serviceVars, sessionVars, historyVars>>

UsbTypeOK ==
    /\ {s_configured, s_tx_busy, tx_stalled, in_flight, is_open, waiting, twice, reset_cut,
        lost, unanswered} \subseteq BOOLEAN
    /\ rx_ring \in [0 .. RingCells - 1 -> Cells \cup {NoCell}]
    /\ {rx_head, rx_tail} \subseteq 0 .. RingCells - 1
    /\ {s_tx_buf, s_pending} \subseteq Requests \cup {Telemetry, Nothing}
    /\ usb_pc \in {"idle", "read", "parse"}
    /\ Len(chunk) <= ReadMax /\ parser \in Requests \cup {Nothing}
    /\ {sent, newest} \subseteq Requests \cup {Nothing}
    /\ tries_left \in 0 .. ReadRetries + 1 /\ waited \in 0 .. HostPatience
    /\ Len(wire_out) <= 2 /\ resets \in 0 .. MaxResets

UsbInit ==
    /\ s_configured = TRUE
    /\ rx_ring = [i \in 0 .. RingCells - 1 |-> NoCell] /\ rx_head = 0 /\ rx_tail = 0
    /\ s_tx_buf = Nothing /\ s_tx_busy = FALSE /\ tx_stalled = FALSE /\ in_flight = FALSE
    /\ usb_pc = "idle" /\ chunk = <<>> /\ parser = Nothing /\ s_pending = Nothing
    /\ is_open = TRUE /\ sent = 0 /\ waiting = FALSE /\ tries_left = 0
    /\ waited = 0 /\ wire_out = <<>>
    /\ newest = Nothing /\ twice = FALSE /\ reset_cut = FALSE /\ resets = 0
    /\ lost = FALSE /\ unanswered = FALSE

(***************************************************************************)
(* The USB interrupt and the controller.                                   *)
(***************************************************************************)
Ring(i) == i % RingCells
Used == Ring(rx_head - rx_tail + RingCells)
Lesser(a, b) == IF a < b THEN a ELSE b

(* usbd_bulk_out, usb_bulk_ring_push: what does not fit is dropped.         *)
BulkOut(count) ==
    /\ s_configured /\ count <= Len(wire_out)
    /\ LET kept == Lesser(count, RingCells - 1 - Used) IN
       /\ rx_ring' = [i \in DOMAIN rx_ring |->
                        IF Ring(i - rx_head + RingCells) < kept
                        THEN wire_out[Ring(i - rx_head + RingCells) + 1] ELSE rx_ring[i]]
       /\ rx_head' = Ring(rx_head + kept) /\ lost' = (lost \/ kept < count)
    /\ wire_out' = SubSeq(wire_out, count + 1, Len(wire_out))
    /\ UNCHANGED <<s_configured, rx_tail, txVars, serviceVars, is_open, sent, waiting,
                   tries_left, waited, newest, twice, reset_cut, unanswered, resets>>

(* Session::wait_response: another frame is dropped, and waited on.          *)
Matches(answer) == answer = sent

(* usbd_bulk_in: a transfer ends, into a read of the waiting host.           *)
BulkIn ==
    /\ s_configured /\ in_flight /\ waiting /\ wire_out = <<>>
    /\ in_flight' = FALSE /\ s_tx_busy' = FALSE /\ tx_stalled' = FALSE /\ s_tx_buf' = Nothing
    /\ \/ Matches(s_tx_buf) /\ waiting' = FALSE /\ tries_left' = 0
       \/ ~Matches(s_tx_buf) /\ UNCHANGED <<waiting, tries_left>>
    /\ UNCHANGED <<s_configured, ringVars, serviceVars, is_open, sent, waited, wire_out,
                   historyVars>>

(* USBD_EVENT_ERROR: the transfer is lost, and its end is never reported.    *)
TransferLost ==
    /\ s_configured /\ in_flight
    /\ in_flight' = FALSE /\ s_tx_buf' = Nothing /\ lost' = TRUE
    /\ UNCHANGED <<s_configured, s_tx_busy, tx_stalled, ringVars, serviceVars, sessionVars,
                   newest, twice, reset_cut, unanswered, resets>>

(* 50 ms pass in which nobody reads.                                        *)
TransferStalls ==
    /\ s_tx_busy /\ ~tx_stalled /\ ~(in_flight /\ waiting)
    /\ tx_stalled' = TRUE
    /\ UNCHANGED <<s_configured, s_tx_buf, s_tx_busy, in_flight, ringVars, serviceVars,
                   sessionVars, historyVars>>

(* What USBD_EVENT_RESET does to the indices of the ring.                   *)
HeadCleared == rx_head' = 0 /\ rx_tail' = rx_tail
IndicesCleared == rx_head' = 0 /\ rx_tail' = 0

(* USBD_EVENT_RESET: parser and pending answer stay.  The host's handle is    *)
(* gone with the device.                                                    *)
Reset ==
    /\ s_configured /\ resets < MaxResets
    /\ s_configured' = FALSE /\ resets' = resets + 1
    /\ s_tx_buf' = Nothing /\ s_tx_busy' = FALSE /\ tx_stalled' = FALSE /\ in_flight' = FALSE
    /\ is_open' = FALSE /\ waiting' = FALSE /\ tries_left' = 0 /\ wire_out' = <<>>
    /\ UNCHANGED <<sent, waited, lossVars>>

BusReset ==
    /\ Reset /\ IndicesCleared
    /\ UNCHANGED <<rx_ring, serviceVars, newest, twice, reset_cut>>

Configured ==
    /\ ~s_configured /\ s_configured' = TRUE
    /\ UNCHANGED <<ringVars, txVars, serviceVars, sessionVars, historyVars>>

(***************************************************************************)
(* The service of the io task, once in a period.                           *)
(***************************************************************************)
(* hpm_usb_bulk_write without waiting: the end of a stalled transfer is not   *)
(* awaited, and its buffer is used again.                                   *)
CanWrite == s_configured /\ (~s_tx_busy \/ tx_stalled)

Write(frame) ==
    /\ CanWrite
    /\ s_tx_buf' = frame /\ s_tx_busy' = TRUE /\ tx_stalled' = FALSE /\ in_flight' = TRUE

(* app_usb_proto_service begins with the answer left over from before.       *)
Service ==
    /\ usb_pc = "idle" /\ usb_pc' = "read" /\ waited' = 0
    /\ \/ s_pending # Nothing /\ Write(s_pending) /\ s_pending' = Nothing
       \/ ~(s_pending # Nothing /\ CanWrite) /\ UNCHANGED <<s_pending, txVars>>
    /\ UNCHANGED <<s_configured, ringVars, chunk, parser, is_open, sent, waiting, tries_left,
                   wire_out, historyVars>>

(* hpm_usb_bulk_read.  Packets that come meanwhile only add behind what it    *)
(* reads.                                                                  *)
Readable == Lesser(ReadMax - Len(chunk), Used)
FirstCells(count) == [i \in 1 .. count |-> rx_ring[Ring(rx_tail + i - 1)]]

ReadRing ==
    /\ usb_pc = "read" /\ usb_pc' = "parse"
    /\ chunk' = chunk \o FirstCells(Readable) /\ rx_tail' = Ring(rx_tail + Readable)
    /\ UNCHANGED <<s_configured, rx_ring, rx_head, txVars, parser, s_pending, sessionVars,
                   historyVars>>

(* A bus reset falls into the loop: between the copy of a cell and the store  *)
(* of the new tail, before or after its load.  The loop goes on.            *)
ResetInRead ==
    /\ usb_pc = "read" /\ Reset /\ rx_head' = 0
    /\ \E count \in 1 .. Readable :
        chunk' = chunk \o FirstCells(count) /\ rx_tail' \in {Ring(rx_tail + count), Ring(1)}
    /\ reset_cut' = TRUE
    /\ UNCHANGED <<rx_ring, usb_pc, parser, s_pending, newest, twice>>

(* The answer is sent or, when the endpoint is busy, kept in the place of an  *)
(* earlier one.                                                            *)
AnswerFirst(answer) ==
    \/ Write(answer) /\ UNCHANGED s_pending
    \/ ~CanWrite /\ UNCHANGED txVars
       /\ s_pending' = IF s_pending = Nothing THEN answer ELSE s_pending
Answer(answer) ==
    \/ Write(answer) /\ UNCHANGED s_pending
    \/ ~CanWrite /\ s_pending' = answer /\ UNCHANGED txVars

(* proto_handle_frame: the command is executed, and answered.               *)
HandleFrame(req) ==
    /\ newest' = req /\ twice' = (twice \/ req <= newest)
    /\ Answer(req)

(* proto_rx_byte: a cell that does not continue the frame begun ends it, and  *)
(* is lost with it.                                                        *)
Continues(cell) == cell.req = parser /\ cell.half = 2

Parse ==
    /\ usb_pc = "parse" /\ chunk # <<>> /\ chunk' = Tail(chunk)
    /\ \/ /\ parser = Nothing
          /\ parser' = IF Head(chunk).half = 1 THEN Head(chunk).req ELSE Nothing
          /\ UNCHANGED <<txVars, s_pending, newest, twice>>
       \/ /\ parser # Nothing /\ Continues(Head(chunk))
          /\ parser' = Nothing /\ HandleFrame(parser)
       \/ /\ parser # Nothing /\ ~Continues(Head(chunk))
          /\ parser' = Nothing
          /\ UNCHANGED <<txVars, s_pending, newest, twice>>
    /\ UNCHANGED <<s_configured, ringVars, usb_pc, sessionVars, reset_cut, lossVars, resets>>

(* proto_stream_flush: a batch that is full is sent or dropped.             *)
Stream ==
    /\ usb_pc = "parse" /\ chunk = <<>> /\ usb_pc' = "idle"
    /\ Write(Telemetry) \/ UNCHANGED txVars
    /\ UNCHANGED <<s_configured, ringVars, chunk, parser, s_pending, sessionVars, historyVars>>

(***************************************************************************)
(* The host.                                                               *)
(***************************************************************************)
(* An attempt of Session::request, with a number of its own.               *)
Send(attempts) ==
    /\ sent < MaxRequests /\ sent' = sent + 1
    /\ waiting' = TRUE /\ tries_left' = attempts - 1
    /\ wire_out' = <<[req |-> sent + 1, half |-> 1], [req |-> sent + 1, half |-> 2]>>

(* A read is tried again after a time-out, a write is not.                  *)
Ask(attempts) ==
    /\ is_open /\ ~waiting /\ Send(attempts)
    /\ UNCHANGED <<s_configured, ringVars, txVars, serviceVars, is_open, waited, historyVars>>

(* 500 ms pass in which the host reads all that comes.  In that time the      *)
(* service leaves nothing undone, unless the io task is blocked; a transfer   *)
(* that has not ended by then has stalled.                                  *)
Quiet == usb_pc = "idle" /\ Used = 0 /\ s_pending = Nothing

HostTimesOut ==
    /\ waiting /\ wire_out = <<>> /\ ~in_flight
    /\ \/ Quiet /\ unanswered' = TRUE /\ UNCHANGED waited
       \/ ~Quiet /\ waited < HostPatience /\ waited' = waited + 1 /\ UNCHANGED unanswered
    /\ tx_stalled' = s_tx_busy
    /\ \/ tries_left > 0 /\ Send(tries_left)
       \/ tries_left = 0 /\ waiting' = FALSE
          /\ UNCHANGED <<sent, tries_left, wire_out>>
    /\ UNCHANGED <<s_configured, ringVars, s_tx_buf, s_tx_busy, in_flight, serviceVars, is_open,
                   newest, twice, reset_cut, lost, resets>>

UsbNext ==
    \/ \E count \in 1 .. 2 : BulkOut(count)
    \/ BulkIn \/ TransferLost \/ TransferStalls \/ BusReset \/ Configured
    \/ Service \/ ReadRing \/ ResetInRead \/ Parse \/ Stream
    \/ HostTimesOut
    \/ \E attempts \in {1, ReadRetries + 1} : Ask(attempts)

UsbSpec == UsbInit /\ [][UsbNext]_usbVars

(***************************************************************************)
(* Properties.                                                             *)
(***************************************************************************)
(* A request is left without an answer only after a transfer or a cell was    *)
(* lost: neither telemetry that holds the endpoint when the answer is ready,   *)
(* nor a later answer in the place of a pending one, nor a stalled transfer    *)
(* drops the answer that the host waits for (app_usb_proto.c:926, 1060).     *)
UnansweredMeansLost == unanswered => lost

(* Requests are executed in the order in which they were sent and at most     *)
(* once, whatever the ring drops and resets clear, unless a bus reset, which  *)
(* writes both indices, fell between load and store of the tail              *)
(* (drv_usb_cdc.c:405, 811): then the ring counts as full of what it held     *)
(* before.                                                                 *)
ExecutedOnce == twice => reset_cut
=============================================================================
