# TLA+ models of the HPM53M1 G6618 motor controller

The repository is the firmware of a field-oriented motor controller (HPM5361, FreeRTOS), its boot
loader, and a desktop client. This directory holds TLA+ models of the firmware's control logic, the
TLC runs that check them on small instances, and proofs of their safety properties that hold
for every value of the constants.

What makes this code hard is not its arithmetic but its scheduling: one 1 ms task does everything
that is slow, three interrupts preempt it between any two instructions, and safety rests on a dozen
flags both sides write. Host tests run one side at a time. The models run both.

## 1. The system

### 1.1 Contexts

| context | source | does |
|---|---|---|
| `io` task, 1 ms | `app_rtos_tasks.c:46`, `app_io_step` in `app_logic.c:376` | encoder, slow ADC, `app_fault_process`, `app_fault_tick`, `app_fault_wdog_service`, `app_foc_run_once`, identification jobs, debug tick, CAN service, USB protocol, terminal, boot confirmation - in this order |
| `diag` task | `app_rtos_tasks.c` | reads and prints only |
| ADC interrupt, 30 kHz | `app_foc_isr_step` | encoder sample, emergency gate, current loop, trip, time budget |
| ADC watchdog interrupt | `app_fault_on_wdog` | raises OC_FAST of a phase; the driver then disables that channel |
| motion timer, 15 kHz | `app_motion_tick` | submits a current request |
| CAN receive interrupt | `app_can_service.c:64` | feeds the time-out stamp |
| debugger | any time | may write 1 to the registered emergency-stop word |

Interrupts do not preempt each other. They preempt the task except inside
`intf_sys_irq_save/restore`.

### 1.2 Components

State, operations, interactions and what makes each correct. `PROJECT.json` lists all of them with
their files and status.

| component | state | operations | correct when |
|---|---|---|---|
| fault manager, `app_fault.c` | active, latched and injected sets, `state`, debounce counters, watchdog marks and budget, pending stop request, policy | tick, watchdog service, raise (task and interrupts), clear, inject, policy, action switch, stop consumed or refused | no latched fault is lost, TRIP closes the gate, STOP never does, each stop is requested once and for a reason, watchdogs are re-armed within a budget |
| FOC state machine, `app_foc.c` | `s_state`, stop and its timer, emergency flags, disabled fast path | enable, disable, controlled stop, fault stop, waiting disable, calibration bracket, 1 ms step, interrupt | an emergency shuts the bridge and stays, a stop ends, the state agrees with the bridge |
| inverter, `app_3phase_inverter.c` | enabled and gate-power flags; pins, PWM, force-low | enable, disable, soft disable, emergency stop, gate power | only enable makes the bridge live |
| current loop, `app_foc_current.c` | trip latch, voltage test, regulator | step, reset, voltage test | a trip holds until reset |
| current authority, `app_foc.c` | source, epoch, request and its expiry, angle source, references | set source, submit, direct references, calibration, beat | no current without a request of at most 500 us, motion never on a forced angle |
| motion, `app_motion.c` | command and mode, hold, vernier fallback, angle calibration, feedback age | command, stop, calibrate, 15 kHz tick | no current on blind feedback, a withdrawn command falls silent, a lost authority drops the command |
| CAN receive path, `drv_mcan.c`, `app_can.c`, `app_can_service.c` | hardware FIFO, ring of 16, queue of 32, stamp, armed, fired | interrupt, poll, eight frames per period, time-out | frames in order and fresh, silence is noticed, traffic is not mistaken for silence |
| USB protocol, `app_usb_proto.c`, `drv_usb_cdc.c` | receive ring, one transfer, parser, pending answer | packets, transfer ends, bus reset, service | a request is executed at most once, and its answer is not dropped on the way |
| terminal | parser, one foreground job | commands | every command runs in the task, one job at a time |
| encoder sampling, `drv_spi.c`, `algo_encoder_snapshot.c`, `app_encoder.c` | DMA route, frame FIFOs, snapshot, pair | trigger, fetch, push, pair, read with retries | a reader never uses a torn sample, a pair is of one edge |
| analog | frames, RMS windows, watchdog channels | sample, re-arm | a stall is noticed |
| identification, five jobs | phase of each; calibration bracket, suspended compensation, tracking, motion command | start, step, finish, abort | whatever way a job ends, what it has opened, suspended or claimed is given back, and the motor falls silent |
| parameters, cogging tables | two flash sectors | load, store, erase, save, clear | an acknowledged value is stored, a mishap loses values and never mixes them |
| boot and update | control log, image slots, mailbox | decide, confirm, download, switch | a bad image gives way, the last image is never lost |
| algorithms | filters, ramps, regulators | step | numeric, not modelled |
| drivers, board, wrappers | registers | - | seen only through their effects |
| desktop client, `session.rs` | number, tries left | request, retry, time-out | a request gets its own answer unless something was lost |

### 1.3 What is hard

`PROJECT.json` has the hazards, each at its line. In one list: unsplit read-modify-writes shared
with interrupts (`app_fault.c:227`, `:157`, `:521`; `drv_hrpwm.c:1161`); ring indices that a bus
reset writes under a running read (`drv_usb_cdc.c:405`); flags cleared after a wait
(`app_foc.c:850`, `:846`); output order in enable (`:824`); a stop with two deadlines (`:719`) that
can be refused (`app_fault.c:789`); disabled checks (`app_foc.c:685`); the 500 us expiry over a
wrapping counter (`:579`); a hold that sends the old current again without a look at the authority
(`app_motion.c:299`); a hold, a fallback and a feed-forward that each bridge a lost sample with
limits of their own; a stamp newer than now (`app_can_service.c:309`) and stamps from frames that will be rejected
(`:74`); three buffers in a row that
drop different ends; seqlock retries and frames of different edges; flash sectors rewritten in place
under power cuts; attempts and confirmations counted across resets.

## 2. Modules

| module | models | lines of C |
|---|---|---|
| `FaultManager` | `app_fault.c`, all contexts | 866 |
| `FocBridge` | `app_foc.c` with `app_3phase_inverter.c`, and the stop and power commands of terminal, USB and debug | 1351 + 260 |
| `CurrentLease` | abstract: what the authority promises its client | |
| `CurrentAuthority` | the source, epoch, request and reference rules of `app_foc.c`, task and beat | part of 1351 |
| `MotionControl` | `app_motion.c` and the switches of `app_cogging.c`, on top of `CurrentAuthority` | 1467 |
| `BootLog` | the append-only records of `boot_meta.c` | 290 |
| `FirmwareUpdate` | boot loader, download, `app_boot.c`, on top of `BootLog` | about 900 |
| `KeyValue` | abstract: a store of keys | |
| `ParamStore` | `app_param.c`, `app_cogging_store.c`, `drv_flash.c` | about 500 |
| `LossyFifo` | abstract: a channel that loses and does not reorder | |
| `CanService` | receive path and watchdog of the CAN node | about 500 |
| `EncoderSampling` | triggered SPI, snapshot, pair | about 700 |
| `UsbLink` | the bulk channel of `drv_usb_cdc.c`, the service of `app_usb_proto.c`, the host session of `session.rs` | about 450 |
| `IdentifyJobs` | the five jobs of `App/Control/Identify`, the terminal's job slot and the debugger's calibration commands, on top of `CurrentAuthority` | about 3000 |
| `MCFaultManager`, `MCFocBridge` | constants of their runs | |
| `MCFaultInputs` | constraint of the fault manager's run: one kind of input at a time | |
| `MCCanService` | the CAN service with a history of the valid frames | |
| `MCDevices` | one run over the components that share no state, and the jobs over the authority | |
| `FaultManagerProofs`, `FocBridgeProofs`, `CurrentAuthorityProofs`, `MotionControlProofs`, `EncoderSamplingProofs` | theorems of the module they are named after | |
| `CommProofs` | theorems of `CanService` and `UsbLink` | |
| `StorageProofs` | theorems of `FirmwareUpdate` over `BootLog`, and of `ParamStore` | |
| `DevicesProofs` | theorems of `IdentifyJobs` and of the composition `MCDevices` | |

The modules keep the names of the code. An operator whose comment announces a plausible bug
("Faulty:", "a stamp that forgets ...", "a queue whose full test is one off ...") and that no
specification uses is the next definition with that bug put in; replacing the definition by it must
make a named property fail, which shows that the property says something about the code.

`MotionControl` extends `CurrentAuthority`, so that controller and stage are checked and proved
together; `CurrentAuthority` alone is open to any client the interface allows. `FocBridge` and
`CurrentAuthority` split `app_foc.c` by subject: what the bridge does, and who may ask for current.
They meet in the states and in `app_foc_stop`, which both model.

### 2.1 FaultManager

`pc` walks through one period of the task: `tick, slow, vbus, ov_request, uv, uv_request, adc, enc,
drop, drop_store, drop_fast, drop_fast_store, eval, eval_store, wdog, wdog_hit, foc, cmd`. The
task's `fault_raise` is a subroutine with labels of its own (`raise ... raise_record`), because
`active |= code` and `latched |= code` are loads and stores that an interrupt can separate: `reg`
is the register between them, and `newState` the state `fault_eval_state` has computed and not yet
stored. `fault_raise` inside an interrupt is one step (`RaiseAtOnce`). `Clear` is one step because
the code takes the interrupt lock around check and reset.

The plant moves three abstract inputs: the bus level (`normal`, `under`, `over` - above the first
threshold - and `trip` - above the second), the phases above the RMS limit (`slowOver`), the phases
outside the watchdog window (`rawOut`). `armed` is the driver's interrupt enable of a channel, which
the driver clears after the callback (`drv_adc.c:314`).

Left out: event counters, snapshot contents, the derate factor, the threshold setters, the observer
mirrors.

### 2.2 FocBridge

The task's operations are sequences of steps cut where an interrupt can fall: disable (flags, then
gate and outputs in the order of the soft or the full path, then the reset), enable (guards, release
of the forced phases, 12 V on, settle, PWM start, reset, publish), `driver power on`, `foc off` (soft
stop, wait that pumps the fault tick and the stop, waiting disable). `BridgeLive` is what matters
outside: PWM running, 12 V on, phases not forced low. `s_enabled` is what the code believes.

The interrupt is one step: gate, idle beat or loop, and the exit with the overrun check that
disables the fast path. The fault manager is present through its interface only (`latched` as the
classes STOP and TRIP, `fault_state`, the stop request and the escalation); its inner interleavings
are FaultManager's subject. `TakeStopRequest` is `app_foc_request_fault_stop` with its four ways out:
refused, nothing to stop, a stop already under way, and `app_foc_request_stop`. A request that finds a
stop under way is dropped, also when FAULT has overtaken that stop in the same period: the code keeps
FAULT there, and `StopRequestServed` accepts it because the bridge is dead.

Boot is as in the code: `app_debug_inverter_init` has enabled the bridge at 50 % duty for its self
test (`INVERTER_TEST_ENABLE`), and `app_foc_init` then sets OFF without touching it.

Left out: references beyond zero/nonzero, the angle source, streak counters (only whether they are
confirmed), the current source (the motion interrupt may submit whenever the state allows it), the
three phases one by one, the watchdog service inside the waiting disable.

### 2.3 CurrentAuthority and MotionControl

A current is 0 or 1. An epoch is only ever compared with the newest one, so it is represented by
`s_epoch_newest`. `request_age` is the age the code measures, modulo `Wrap` as the 32-bit cycle
counter; `age` is the true one, which the abstract `CurrentLease` speaks of. Operations that leave
their critical section between two writes (disable, stop, direct references) take two steps of `pc`;
everything else is atomic because it is written inside `intf_sys_irq_save/restore` or runs in an
interrupt. A beat is one action per outcome: gated, without an angle, in calibration, direct, motion.

A tick of the motion interrupt sees a frame (`pair`, `rotor` alone, or `none`, which stands for every
rejected sample) and takes one of the ends of `app_motion_step`: rejection with hold or abort,
calibration, decoding or bridging of the vernier, and the torque law, which is only zero or not.
`blind` and `withdrawn` are history: ticks since accepted feedback, beats since the command ended.
The commands of terminal, USB and CAN are the same `app_motion_*` calls and one action each.

Left out: gains, ramps, trajectories, notch filters, impedance gains beyond "out of range", the
numbers of the two angles.

Observed:
* the latch of an expired request is evaluated only in healthy beats;
* a beat of the vernier that mismatches rebases the continuous angle although the comment above it
  (`app_motion.c:1173`) excludes it, and the fallback keeps its turn across rotor wraps;
* an impedance command whose gains are out of range and a loss of authority submit no zero: the last
  request lives on for its 500 us, which is why `WithdrawnFallsSilent` allows `Limit` beats;
* friction identification is meant to exclude external motion commands
  (`docs/superpowers/specs/2026-10-15-friction-feedforward-design.md:97`); only the terminal checks,
  CAN frames and USB control commands call `app_motion_*` unchecked.

### 2.4 BootLog and FirmwareUpdate

A log is the sequence of its used slots, a half-written record is `Torn`, sequence numbers are taken
modulo `SeqWrap`. A slot holds a good image, a bad one (it never confirms and hangs until reset) or
nothing that verifies. Power may go between any two steps and inside the writing of a record; a write
may fail. `saved`, `starts`, `ran` are history. `LogCuts` says whether the rewriting of a *full* log may
be cut as well: without it every property holds, with it `PowerCutLosesLastOnly` fails, which is run
`BootLogLost`.

Assumed: the bench command `dfu slot` selects good images only (`app_boot_set_active` to a bad image
starts it without counting attempts). Observed: a failed confirmation before ENTER_DFU does not stop
the request, so the download may overwrite the slot the bootloader does not know to be running;
ENTER_DFU checks the motor when the command arrives and resets 50 ms later without looking again.

### 2.5 ParamStore

Both sectors are erased and programmed piece by piece, from an image in memory; erasing and
programming may fail, or report success and leave rubbish; power may go at any step. `Stored` is the
refinement mapping to `KeyValue`: during the write-back the slots still to be programmed count with
the image, so that a mishap there costs exactly the keys not yet written. `KeyValue` also promises that
a put is acknowledged only when its key holds it; `Told` maps the acknowledgement to a store that
returned 0, which is where the read-back of the code matters. Observed: the store reads
back its own slot only, so a neighbour programmed badly is noticed at its next load.

### 2.6 CanService

Three buffers in a row: the controller's FIFO, the ring that keeps the oldest and drops the newest,
and the queue. The interrupt is three actions, the task's period `poll`, `rx`, `wd`, `wd_stamp`,
`wd_fire`, between any two of which it may fall. A `Tick` is a period of 1 ms; a terminal command may
block the task for `BlockMax` of them. One frame at a time is the probe whose age is measured.

What feeds the watchdog is a disagreement between the code and its documents. The hook stamps every
frame of the types 1 to 7 for this node, in the interrupt and before anything is decoded
(`app_can_service.c:64-78`). The documents and comments speak of valid frames: the stamp is that of the
"last valid control frame" (`app_can_service.c:49`), the first valid control frame arms the watchdog
(`app_can_service.h:52`, `docs/can-protocol_v0.1.1.md:255`), and frames of this node that passed
validation feed it (`docs/superpowers/specs/2026-11-02-dm-can-protocol-design.md:454`). A frame is
therefore `valid`, `invalid` (for this node, but not decodable) or `foreign`. `AddressedSilenceRaises` is
the part that the code keeps: a silence of frames for this node, of either kind, and of keys raises
COMM_TIMEOUT. `ValidSilenceRaises`, over the history variable `valid_silence` of `MCCanService`, is what
the documents say, and the run `CanInvalidFeeds` refutes it: invalid frames alone keep the time-out away.

Observed: `suspend_watchdog` and `flush_rx`
have no caller; after bus-off nothing initialises the controller again; the time-out in cycles is
computed in 32 bits and wraps for more than 8.9 s; a refused controlled stop is ignored.

### 2.7 EncoderSampling

One PWM edge starts the conversion and one SPI frame per encoder. An angle is the number of the edge
that latched it, so that "same instant" is an equality. The interrupt is the steps fetch, push,
output; the task copies the snapshot in two goes and may be interrupted between them; the motion
interrupt copies the pair and then takes its age. Assumed from the timing of the hardware: a frame
(3 us) is shorter than an edge period (33 us), the interrupt is at most `Backlog` edges late.

Observed: after rejected jumps the reference angle is not re-based, so a real step of the shaft is
rejected until the streak limit; `app_encoder_read` takes the time before it copies, so its age may
wrap.

### 2.8 IdentifyJobs

The task calls each job once per millisecond; a call is one step. A running job may take any of its
ways out at any call (finish, failure, lost authority, abort), because samples, time-outs and fits
are numeric; DONE, FAILED and IDLE are one phase, since nothing but the display tells them apart. The
motion controller is present as `motion_active` only. What the jobs hold is kept exactly: the
calibration bracket and the direct source of `app_foc.c`, the suspension of the cogging and friction
compensation, output tracking, and the motion command. The terminal's foreground slot starts a job and
aborts it; the host may command and stop motion at any time, the debugger may calibrate.

`JobBracketsMatch`: outside its own run a job has left nothing suspended, tracked or claimed, after a
refused start too. `JobLeavesSilence`: a job that ends leaves no living motion command and no direct
current.

Observed:
* the start checks are not symmetric: friction identification looks at no other job. That no two jobs
  overlap is the work of the terminal's slot, not of the jobs;
* while a job runs the terminal drops all input, Ctrl-C included (`app_terminal.c:226`), although
  `app_terminal_job.h:9` and the printed hint promise an abort by key;
* `rl save` does not check again that PWM frequency and pole pairs are those of the measurement
  (`app_current_identify.c:791`);
* a pending friction command is retried for 100 ms without a look at the state
  (`app_friction_identify.c:162`): a host that clears a fault and enables in that time starts it;
* an inertia start that fails after it has claimed the direct source is not a step of the model: the
  source stays claimed there, which none of the properties is about;
* the motor and the resistance job know their calibration bracket by the state alone
  (`app_motor_identify.c:199`), not by a flag of their own.

### 2.9 UsbLink

A frame is two cells and a packet carries one or both, so that a frame may arrive in two packets, a full
ring cuts it, and the parser is left in the middle. The USB interrupt (packet, end of a transfer, bus
reset, lost transfer) falls between any two steps of the service, and a bus reset also into the loop of
`hpm_usb_bulk_read`, between load and store of the tail. Time enters in two places: a transfer nobody
takes stalls after 50 ms and its buffer is used again; the host gives up after 500 ms, in which the
service has run to its end unless the io task is blocked (`HostPatience` times in a row). The host is the
session of `session.rs`: a new number for each attempt, retries for reads, no retry for writes.

`UnansweredMeansLost`: telemetry that holds the endpoint, the single place for a pending answer, and the
re-use of a stalled buffer never drop the answer the host waits for; something must have been lost by
the controller or by a full ring. `ExecutedOnce`: requests are executed in order and at most once,
except after a bus reset inside the read loop.

Observed:
* the exception is real: the comment of the ring (`drv_usb_cdc.c:317`) says that only the interrupt
  writes the head and only the task the tail, but the reset writes both (`:405`); if it falls between
  load and store of the tail, the tail is left ahead of the head and the ring counts as full of what it
  held before, requests already executed included;
* parser and pending answer survive a bus reset, so the first frame after it may be eaten, and an old
  answer is sent;
* a pending answer is tried before anything else, but an answer to a newer request may overtake it again
  and again while the endpoint is busy at each start of a service: numbers are told apart only as long
  as fewer than 256 requests pass in that time, which the model assumes;
* a new session starts at number 0 again, so an answer left over from the last one could be taken for
  its first; sessions run over TCP today, where each connection is new.

Left out: the CDC port of the terminal, streams beyond "a batch or none", the statistics, a transfer that
the controller refuses to start (it refuses an unconfigured endpoint only).

### 2.10 MCDevices

`CurrentAuthority`, `FirmwareUpdate`, `ParamStore`, `CanService`, `EncoderSampling` and `UsbLink`
share no variable; `IdentifyJobs` has the authority's and its own. `MCDevices` picks one of them as
the `subject` of a behaviour and lets only it move (the jobs with the authority): the state space is
the disjoint union of theirs, each property speaks of one of them, and each is explored as
completely as in a run of its own.

## 3. Runs

Passing runs:

| run | question | bounds | states |
|---|---|---|---|
| `FaultInputs` | Do conditions, debounce, latch and gate stay consistent when the fast trip interrupts the tick anywhere, and do bus levels, stops, injection, a policy edit, the action switch and clears leave gate and stop request right? | 1 phase, slow debounce 2, bus debounce 1, stall after 1, settling 1; signals or operator, see below | 310 017 |
| `FaultWdog` | Is the watchdog re-armed within its budget and every hit served, from power-on? | 2 phases, wait 1, budget 1, settling 1, CAN time-out | 354 936 |
| `FocStage` | Does every controlled stop end, served or escalated; is the bridge dead whenever emergency flags, FAULT or the disabled path say so, and does FAULT always get there? | deadlines 1 < 2 < 3, both fault classes, all emergency sources, power, calibration, voltage test, action switch | 294 340 |
| `Motion` | Is motion current bounded by fresh feedback, a living command and a valid authority, with ticks, commands, calibration and beats interleaved? | expiry 1 beat of a 3-beat counter, hold 2, fallback 1, 1 calibration sample, three modes, one table | 403 220 |
| `Devices` | Authority, boot and update, parameter store, CAN receive path, encoder sampling, USB request channel and identification jobs, one per behaviour (`MCDevices`). | see below | 764 384 |

Runs that TLC must refute, each a statement of the repository that the code does not keep:

| run | statement | what happens |
|---|---|---|
| `FaultLatchLost` | `app_fault.h:149`, a latched fault is kept until cleared | a fast trip latched between the task's load and store of `latched` is lost (`app_fault.c:227`) |
| `FaultRearmUnwatched` | `app_fault.h:263`, re-arming keeps each phase protected | a hit between the re-enable and the clearing of its mark leaves the channel off for good (`app_fault.c:619`) |
| `FocReadyUnpowered` | `app_foc.h:32`, READY means the bridge is enabled | an emergency during enable is erased by its last step: READY with the supply off (`app_foc.c:850`) |
| `FocWaitLive` | `app_foc.c:820`, the bridge is off while enable waits | after an emergency the PWM still runs, and enable has released the phases and turned the supply on (`app_foc.c:824`) |
| `BootLogLost` | `docs/superpowers/specs/2026-11-07-ota-dfu-design.md:60`, a power cut loses the unfinished record at most | the full log is erased before the new record is programmed: a cut there loses every record (`boot_meta.c:112`) |
| `CanFalseTimeout` | `docs/can-protocol_v0.1.1.md:255`, the time-out comes after 100 ms without a control frame | a frame between the two reads of the watchdog makes the stamp newer than the counter; the difference wraps and COMM_TIMEOUT is raised (`app_can_service.c:309`) |
| `CanInvalidFeeds` | `app_can_service.c:49`, the stamp is that of the last valid control frame | frames for this node that do not decode stamp it too, and no COMM_TIMEOUT comes however long the valid frames stay away (`app_can_service.c:74`) |

Bounds. Counters in the code saturate or are compared with a threshold, so a threshold of 1 or 2
already separates "not yet", "just now" and "since some time". One phase suffices where
phases do not interact; the watchdog run has two because the service loop visits them in turn and an
interrupt of the other phase can fall in between. The three stop deadlines only need to be
distinct and ordered as in the code (120 < 220 < 2000). The fault runs split by operation, not by
state: each has all the steps of the task, and offers the environment the operations its
properties are about. `FaultInputs` has two such environments under one `CONSTRAINT`
(`MCFaultInputs!OneKindOfInput`): overload, stalled frames and encoder bursts on one side, the bus, the
operator and the policy on the other, never traces of both at once (a behaviour changes sides after a
clear); the fast trip and the clear go with either. All combinations together have more than ten
million states. TLC warns of a constraint under liveness: it could hide a fair behaviour. Here the
task crosses it only by sensing a stalled frame or a burst, and at the same step may sense none, so a
fair behaviour can always go on inside. What mixes both sides is not model-checked for these
properties; where `FaultManagerProofs` proves one of them, the proof covers it.

`Devices`: the request expires after 2 beats of a counter of 6, so that it expires, stays expired
and its measured age comes round; the control log has 3 records and sequence numbers modulo 8, so
that it fills, is rewritten and wraps; 3 attempts as in the code and one failing operation; two
slots for three keys, so that the sector is full, and one mishap per behaviour (two would only
repeat the first, since the sector is rewritten in between); FIFO and ring of 1 and queue of 2 so
that each overflows alone and together, a budget of 1, a time-out of 1 and one blocked period; three
edges, an interrupt up to two edges late, two retries; a USB ring of five cells, which three
requests overflow, two cells per read, four requests with one retry, two time-outs while the task is
blocked and one bus reset. `Motion`: each limit is the smallest that has a tick or beat before it,
at it and after it; the authority's other users of the current are left to `Devices` and the proofs.

Observed while modelling and kept as notes rather than runs:
* a `TRIP` raised by an interrupt while the tick evaluates can be overwritten until the next tick
  (`app_fault.c:157`); `TripLatchReachesGate` shows that it comes back unless the latch was lost too;
* a watchdog hit during settling is ignored but its channel is disabled (`app_fault.c:570`);
* `enable` clears the emergency-stop word last, although `app_foc.h:138` gives that to `disable`
  (`app_foc.c:846`); `EmergencyHolds` follows the bridge and not this word;
* after boot the state is OFF over a switching bridge (`app_debug_inverter.c:69`);
* a stop or disable can take an emergency from READY to OFF without FAULT (`app_foc.c:736`);
* `s_emergency_active` makes later emergencies of the interrupt no-ops, so it must imply dead
  outputs: that is exactly `EmergencyInv` below.

### Fairness

`MotionControl` and the subjects of `MCDevices` are checked for safety only and state no fairness.

`FaultManager`: weak fairness of the task's own steps (the scheduler runs it, nothing in the period
blocks) and strong fairness of `NextPeriod` (each service handles a bounded number of commands per
period, so the command phase ends). Interrupts, plant and operator owe nothing.

`FocBridge`: the same for the task (`Continue`, `NextPeriod`), and weak fairness of a gated beat of
the interrupt, without an overrun: the converter keeps triggering. Overruns, trips and bad samples
are never owed, so no property can lean on one.

## 4. Proofs

Checked with TLAPS for every value of the constants that satisfies the modules' named assumptions
(positive thresholds, at least one phase, ordered stop deadlines, inputs within their sets).

`FaultManagerProofs`:
* `TypeCorrect` - inductive as it stands, one lemma per part of the period.
* `TaskLatchNeverLost` - with `LatchInv`: between load and store of the latched set the register holds
  every code only the task latches, because interrupts add codes of their own only. This is the
  part of `app_fault.h:149` that the code does keep: over-voltage, under-voltage, frame loss,
  encoder, overload and CAN time-out are never lost, OC_FAST and OC_TRIP can be.
* `WdogBudgetHolds` - with `WdogInv`: a marked phase is disarmed except between re-enable and
  clearing of its mark.
* `StopRequestAlwaysBacked` - with `StopInv`: the tick requests a stop only after it has latched the
  code itself; uses `LatchInv`.
* `FaultEntryAlwaysJustified` - with `EntryInv`: a FAULT computed but not stored stays justified,
  because interrupts only add reasons (`TripMonotone`).
* `TripAlwaysGatesAtRest` - with `GateInv` and `FlowInv`. An action can become TRIP without any code
  being raised (second over-voltage level, refused stop, action switch, policy edit), so the gate
  lags behind until an evaluation; `FlowInv` says at which places of the period one is still due, and
  none is due where the task rests.
* `ActiveAlwaysTracks` - with `TrackInv`: an active bit may differ from its debounce counter only
  between the count and the drop of the same tick, place by place; the set loaded for the drop differs
  from the register only by codes that interrupts raise, which the drop does not touch.

`FocBridgeProofs`: all seven theorems come from one invariant `IInv == TypeOK /\ StopInv /\ BridgeInv`.
None of the bridge properties is inductive as stated, since `driver power on` may turn the supply on
at any moment of OFF: each is strengthened from "the bridge is not live" to `OutputsHeld` (forced low
or PWM stopped). `EnableFromOff` ties the steps of enable to OFF, so that a controlled stop, a
calibration or the FAULT entry cannot meet them; `DisabledInv` says that the fast path is disabled
only with an emergency in place, which makes the missing gate harmless. `StopRequestAlwaysServed` is an
action property: only taking the request and an operator's clear withdraw it (`RequestWrites`). A
request taken in OFF finds the outputs held, since there the code refuses it for an enabled bridge; one
dropped because a stop is pending finds that stop running in READY or RUN, or FAULT, where `FaultInv` says
the outputs are held (`TakeServes`).

`CurrentAuthorityProofs`: `AuthorityInv` is the conjunction of `AuthorityTypeOK`, `StageInv` and `AgeTrue`.
`AuthorityImplementsLease` is the refinement `AuthoritySpec => Lease!Spec`. A step of a beat that
drives for the motion source must find `age <= Limit`, while the code compares the *wrapped* age.
`AgeTrue` closes the gap: as long as the request is neither expired nor dropped, the measured age is
the true one, because a healthy beat looks at least every `DegradedMax` beats and
`Limit + DegradedMax < Wrap` (`ExpiryAssumption`; 500 us and 32 beats against 8.9 s). `StageInv` adds
that a request in force has its owner, that the streak limit latches and that the motion source sees
the rotor; the last one is `MotionAlwaysSeesRotor`.

`MotionControlProofs`: `MotionIsClient` shows that every step of motion, tasks and beats is a step the
authority allows a client, so the lease carries over (`MotionUnderLease`). The other properties come
from one invariant over both modules: a command in hold has a request no older than the tick that
renewed it, the feed-forward is off once the hold has run out, a withdrawn command's last request is
at least as old as the withdrawal, a calibration has no active command. `BlindCurrentBounded` and
`WithdrawnFallsSilent` then follow from the lease: the request expires, and nobody renews it with
current.

`EncoderSamplingProofs`: `ReadAlwaysWhole` rests on `ReaderInv`: as long as the generation is the one
read first, the words copied so far are those in force, and every sample published in between makes
the generations differ. `PairAlwaysCoherent` rests on `CoherentInv`: the newest frame in a FIFO with no
transfer running is that of the last edge, and an edge after the rotor's fetch leaves the output's
frame in transfer, so that the fetch of the output then yields nothing instead of a newer angle.

`CommProofs`, the CAN node: `AddressedSilenceAlwaysRaises` rests on `BoundInv`, the longest silence (of
frames for this node, valid or not, and of keys) that can be unreported at each place of the task: the timeout after a check, one period more for every period that
has passed since, blocked periods included. `MarkInv` is the point of the interleaving: a stamp between
decision and mark resets the mark, and the task then sets mark and fault together.
`FramesAlwaysInOrder` is the second refinement, `CanSpec => Channel!Spec`: each action moves a frame
from one buffer to the next, which leaves their concatenation alone, or loses a stretch of it (a frame
that finds the next buffer full, the ring cleared after a bus-off, the queue cleared at the start). The
sequence operators are wrapped (`Cat`, `Add`, `Foremost`, `Rest`), since the prover rewrites the built-in
ones before it can use the equations. The run has buffers of one or two frames; here the sizes are
arbitrary.

`CommandsAlwaysFresh` bounds the time from the arrival of a command to its execution, blocked periods
included: `AgeMax` periods, the steps that a full queue takes at `RxBudget` frames a step. Its invariant
`FreshInv` says for every place of the watched frame how old it may be. In the FIFO it is of this period,
since the interrupt is due (`ServedSoon`); in the ring it has waited for at most one step (`RingLimit`);
in the queue, a frame at place `i` is taken in the step `m` with `i <= room + m * RxBudget`, and is in
time then (`InTime`). The proof found an error of the model: the precedence of the guard of `BusFrame` let
frames arrive on a node that was bus-off. The guard now is that of the hardware.

`CommProofs`, the USB link. A cell has a number, twice its request and one more for the second half;
parser, chunk, ring and wire together are one sequence of numbers (`Numbers`). `OrderInv`: it rises
strictly, between what has been executed (`Floor`) and what the host is about to send (`Sending`). Each
action takes from the sequence, adds at its end or moves a stretch from one buffer to the next, and the
arithmetic of the indices appears in a few lemmas only (`UsedIs`, `ArrivalAdds`, `ReadMoves`). This gives
`RequestsOnce`; only a reset between load and store of the tail breaks it, which the property excepts and
where the code is exposed. `ExactInv` adds that until something is lost the sequence has no gap, and
`AnswerInv` that the answer the host waits for is then pending or being sent. `AnswersReachHost` follows: a
host that gives up with the service at rest and nothing lost would have to have sent a request that
neither waits nor was executed nor has its answer on the way.

`StorageProofs`. Reading the log is a recursion over its records, and the library's induction takes a
predicate, which the provers cannot instantiate. So `SetInduction` states it for a *set* of numbers, from
the well-foundedness of `<`; `Load` is a recursive function, and the lemmas on it (what `Load` finds after
one more record) are proved by that induction.
* `NextStartReadsSaved` - what is appended has the number after the newest record, so the scan prefers
  it, also where the number wraps (`NextIsNewer`); a torn record is passed over (`TornLoads`); so the
  record that is read stays the one saved last (`LogFollows`).
* `SomeImageForEver` - with `ImageInv`: a download overwrites one slot while the other verifies. It
  holds also where the log is lost, since the loader tries both slots.
* `BadImageNotKept` - with `GiveWayInv`: each start of a bad pending image has been written down as
  an attempt or its record failed, and no step leaves a bad image active beside a good one.
* `StoreKeepsKeys` is the third refinement, `StoreSpec => Persistent!Spec`. `StoreInv` carries what the
  sector, the copy in RAM and the step of the rewriting have to do with each other: a key is in one slot
  at most, the copy is the sector but for the slot of the call, and behind the cursor nothing is written
  back yet.

The first and the third have the hypothesis `~LogCuts`, as the run has: no power cut between the erasure
of a *full* log and the record that follows. There the code loses record and attempts, which is the
finding of the run `BootLogLost`; without the hypothesis both statements are false.

`DevicesProofs`: `BracketsAlwaysMatch` covers the five jobs over the current authority. The
brackets alone are not inductive: a friction job that starts while a cogging job runs would end up
owning the same suspension. `SlotInv` keeps them apart - every job but the motor calibration, which
the debugger may start, holds the terminal's slot. `DirectInv` weakens "a direct current has the
inertia job behind it" by the point between the two halves of a disable, whose second half clears the
reference. The steps of the authority need only one fact here (`Calm`): none of them opens a
calibration or puts up a direct current.
`JobsLeaveSilence` is an action property: a friction or cogging job that ends leaves no active command
and no current that the interrupt may still execute. A job ends by asking for zero current; when the
authority refuses that, there must be nothing to silence. This needs `EpochInv`, an invariant of the
authority that the runs never had to name: a request in force is under the newest epoch, so a refusal
(source lost, stage shut, request revoked) means that no request is in force.

A step of the jobs is either a step the authority allows any client or one of two the client interface
does not have (`JobOnly`: a resistance identification whose start is undone, and the zero direct
reference). `Authorised` says so for all of them, `AuthorisedInv` that both keep the authority's
invariant. From it follow `JobsKeepLease` - a `JobOnly` step revokes the request or leaves it alone, so it
maps to `Lease!Revoke` or a stutter - and `JobsSeeRotor`.

`DevicesKeepSpecs` connects the composition with the parts: a behaviour of `MCDevices` is one of
`FirmwareUpdate`, `ParamStore`, `CanService`, `EncoderSampling` and `UsbLink`, so every theorem about them
holds there. `DevicesTypesHold` collects their types. The types are the place where the bounds of the
exploration meet the argument: that `generation` stays within twice the edges, say, is `CountInv` (an edge
is converted and published at most once), and that no age of a handed pair is negative is `RotorInv`.

Every invariant, action property and refinement that a passing run checks is proved. Only model-checked:
the liveness properties (`TripLatchReachesGate`, `StopRequestTaken`, `WdogHitServiced`, `StopEnds`,
`FaultShutsBridge`, `EmergencyReported`), since the prover handles neither fairness nor ENABLED. The other
way round, `LiveAlwaysReported` (a live bridge is reported as enabled) is only proved: its run would repeat
what `FaultBridgeDown` and `DisabledPathSafe` already explore. What the floating-point algorithms compute is
out of reach of both tools.

## 5. Plan

Done: all modules of section 2 with runs, and proofs of every safety property the runs check; three
refinements (`CurrentLease`, `LossyFifo`, `KeyValue`), all proved.

Left, in this order:
1. The force mask of the driver (`drv_hrpwm.c:1161`), a read-modify-write of task and interrupt that
   `FocBridge` takes as one step.
2. The USB reset for an update (`app_usb_proto.c:725`), which does not look at the FOC state again:
   `FirmwareUpdate` would have to hold that state.
3. Safety halves of the liveness properties that can be proved: how many periods a stop, a latched TRIP
   and a gated fault take at most, with a counter of the periods.
4. The stall detection and the watchdog thresholds of the analog measurement.

## 6. Not modelled

The map covers a small share of the implementation's lines, and most of the rest is out of reach or
has nothing to check: numeric code (`Algorithm/`, the current regulator, trajectories, fits of the
identification), whose correctness is about floating-point values; register sequences (`drv_*.c`,
board files), whose meaning is in the reference manual; terminal and GUI text (`terminal/`, `usb/`
formatting, the Flutter application), which turns lines into the calls that are modelled here; tables
of names and limits; interface structures and wrappers that forward one call; vendor SDK; build and
test scripts; code without callers (`app_debug_cmd_handle`, `app_debug_motor.c`). Everything else that
is missing is in the plan above or under "left out" of its module.

## 7. Running

    tlc -workers 2 -config FaultWdog.cfg MCFaultManager
    tlc -workers 2 -config FocStage.cfg MCFocBridge
    tlc -workers 2 -config Motion.cfg MotionControl
    tlc -workers 2 -config Devices.cfg MCDevices
    tlapm FaultManagerProofs.tla
    tlapm FocBridgeProofs.tla
    tlapm CurrentAuthorityProofs.tla
    tlapm MotionControlProofs.tla
    tlapm EncoderSamplingProofs.tla
    tlapm CommProofs.tla
    tlapm StorageProofs.tla
    tlapm DevicesProofs.tla
