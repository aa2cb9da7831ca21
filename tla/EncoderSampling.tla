-------------------------- MODULE EncoderSampling --------------------------
(***************************************************************************)
(* The synchronous sampling of the two encoders.  One PWM edge starts the  *)
(* conversion of the currents and, through two DMA channels, one SPI frame *)
(* per encoder.  The current interrupt fetches the frames                  *)
(* (drv_spi.c spi_trig_fetch_impl), pushes the rotor's into the snapshot   *)
(* (algo_encoder_snapshot.c) and publishes the pair of both                *)
(* (app_encoder.c app_encoder_sync_sample).  The io task copies the        *)
(* snapshot word by word and may be interrupted; the motion interrupt      *)
(* copies the pair with interrupts off and then looks at its age.          *)
(* An angle is the number of the edge that latched it.                     *)
(***************************************************************************)
EXTENDS Integers, SequencesExt

CONSTANTS
    MaxEdges,       \* PWM edges of a behaviour: the bound of the model
    Backlog,        \* edges the interrupt may be late, the depth of the FIFOs
    FailLimit,      \* ALGO_ENCODER_FAIL_LIMIT_DEFAULT (3)
    MaxAge,         \* APP_ENCODER_OUTPUT_MAX_AGE_US in edges (2)
    MaxRetries      \* copies the io task tries (8)

ASSUME SamplingAssumption ==
    /\ MaxEdges \in Nat /\ Backlog \in Nat \ {0} /\ FailLimit \in Nat \ {0}
    /\ MaxAge \in Nat /\ MaxRetries \in Nat \ {0}

VARIABLES
    edge,           \* PWM edges so far
    route,          \* per encoder: "off", "routed" to its DMA channel, "armed"
    wire,           \* the frame in transfer, 0 for none
    rxFifo,         \* frames received and not fetched
    adc,            \* "idle", "converting" or "pending"
    sampler,        \* the current interrupt: "idle", "fetch", "push", "output"
    fetched,        \* in it: the rotor's frame, when it began, where the edge stood
    generation,     \* of the snapshot
    sample,         \* the snapshot
    pair,           \* s_encoder_pair
    reader,         \* the copy of the snapshot in the io task
    seen,           \* samples published since that copy began
    handed          \* what the motion interrupt took last
hwVars == <<edge, route, wire, rxFifo, adc>>
samplerVars == <<sampler, fetched, generation, sample, pair>>
userVars == <<reader, seen, handed>>
samplingVars == <<hwVars, samplerVars, userVars>>

Encoders == {"rotor", "output"}
Edges == 0 .. MaxEdges
Samples == [raw : Edges, seq : Edges, valid : BOOLEAN, fail : 0 .. MaxEdges]
NoSample == [raw |-> 0, seq |-> 0, valid |-> FALSE, fail |-> 0]
NoFetch == [rotor |-> 0, stamp |-> 0, at |-> 0, rc |-> "refused"]
NoReader == [pc |-> "idle", gen |-> 0, tries |-> 0, copy |-> NoSample]
NothingHanded == [pc |-> "idle", rotor |-> 0, output |-> 0, stamp |-> 0,
                  ok |-> FALSE, late |-> 0]

SamplingTypeOK ==
    /\ edge \in Edges
    /\ route \in [Encoders -> {"off", "routed", "armed"}]
    /\ wire \in [Encoders -> Edges]
    /\ \A e \in Encoders : Len(rxFifo[e]) <= Backlog /\ Range(rxFifo[e]) \subseteq Edges
    /\ adc \in {"idle", "converting", "pending"}
    /\ sampler \in {"idle", "fetch", "push", "output"}
    /\ fetched \in [rotor : Edges, stamp : Edges, at : Edges, rc : {"accepted", "refused"}]
    /\ generation \in 0 .. 2 * MaxEdges
    /\ sample \in Samples
    /\ pair \in [rotor : Edges, output : Edges, stamp : Edges, valid : BOOLEAN]
    /\ reader \in [pc : {"idle", "first", "second", "check", "done"},
                   gen : 0 .. 2 * MaxEdges, tries : 0 .. MaxRetries, copy : Samples]
    /\ seen \subseteq Samples
    /\ handed \in [pc : {"idle", "copied"}, rotor : Edges, output : Edges,
                   stamp : Edges, ok : BOOLEAN, late : Edges]

SamplingInit ==
    /\ edge = 0
    /\ route = [e \in Encoders |-> "off"]
    /\ wire = [e \in Encoders |-> 0]
    /\ rxFifo = [e \in Encoders |-> <<>>]
    /\ adc = "idle"
    /\ sampler = "idle"
    /\ fetched = NoFetch
    /\ generation = 0
    /\ sample = NoSample
    /\ pair = [rotor |-> 0, output |-> 0, stamp |-> 0, valid |-> FALSE]
    /\ reader = NoReader
    /\ seen = {}
    /\ handed = NothingHanded

----------------------------------------------------------------------------
\* The hardware: PWM, DMA, SPI and converter.

\* A trigger starts a frame on every encoder that is routed.  A frame (3 us)
\* is over before the next edge (33 us).
Edge ==
    /\ edge < MaxEdges
    /\ \A e \in Encoders : wire[e] = 0 /\ Len(rxFifo[e]) < Backlog
    /\ edge' = edge + 1
    /\ wire' = [e \in Encoders |-> IF route[e] = "off" THEN 0 ELSE edge + 1]
    /\ adc' = IF adc = "pending" THEN "pending" ELSE "converting"
    /\ UNCHANGED <<route, rxFifo, samplerVars, userVars>>

\* The interrupt needs less from the rotor's frame to the output's than a frame
\* takes, so none both starts and ends in between.
FrameDone(e) ==
    /\ wire[e] # 0
    /\ sampler \in {"push", "output"} => wire[e] <= fetched.at
    /\ rxFifo' = [rxFifo EXCEPT ![e] = Append(@, wire[e])]
    /\ wire' = [wire EXCEPT ![e] = 0]
    /\ UNCHANGED <<edge, route, adc, samplerVars, userVars>>

Converted ==
    /\ adc = "converting"
    /\ adc' = "pending"
    /\ UNCHANGED <<edge, route, wire, rxFifo, samplerVars, userVars>>

----------------------------------------------------------------------------
\* Starting, in the io task.

\* app_encoder_sync_start and app_encoder_output_start: arm the SPI (what stood
\* in the FIFOs goes), connect the trigger; when the second fails, the first is
\* taken back and the encoder stays off.
Route(e) ==
    /\ sampler = "idle"
    /\ route[e] = "off"
    /\ e = "output" => route["rotor"] # "routed"    \* one after the other
    /\ route' = [route EXCEPT ![e] = "routed"]
    /\ rxFifo' = [rxFifo EXCEPT ![e] = <<>>]
    /\ UNCHANGED <<edge, wire, adc, samplerVars, userVars>>

\* The flag that lets the interrupt fetch comes last.
Arm(e) ==
    /\ sampler = "idle"
    /\ route[e] = "routed"
    /\ route' = [route EXCEPT ![e] = "armed"]
    /\ pair' = IF e = "output" THEN [pair EXCEPT !.valid = FALSE] ELSE pair
    /\ UNCHANGED <<edge, wire, rxFifo, adc, sampler, fetched, generation, sample, userVars>>

----------------------------------------------------------------------------
\* The current interrupt.

SampleBegin ==
    /\ adc = "pending"
    /\ sampler = "idle"
    /\ adc' = "idle"
    /\ IF route["rotor"] = "armed"
       THEN /\ sampler' = "fetch"
            /\ fetched' = [fetched EXCEPT !.stamp = edge]
       ELSE UNCHANGED <<sampler, fetched>>
    /\ UNCHANGED <<edge, route, wire, rxFifo, generation, sample, pair, userVars>>

\* spi_trig_fetch_impl: the newest frame that is complete, none (0) when there
\* is none, and none when another is still in transfer; the FIFO is emptied.
Fetch(e) == IF wire[e] # 0 \/ rxFifo[e] = <<>> THEN 0 ELSE Last(rxFifo[e])
Emptied(e) == [rxFifo EXCEPT ![e] = <<>>]

\* The rotor's fetch waits 8 us for a frame in transfer, then gives it up.
FetchRotor ==
    /\ sampler = "fetch"
    /\ fetched' = [fetched EXCEPT !.rotor = Fetch("rotor"), !.at = edge]
    /\ rxFifo' = Emptied("rotor")
    /\ sampler' = "push"
    /\ UNCHANGED <<edge, route, wire, adc, generation, sample, pair, userVars>>

\* algo_encoder_snapshot_push: without a frame the sample is invalid but keeps
\* its angle; a jump against the last accepted angle holds the sample until
\* there were FailLimit of them; otherwise it is accepted.
Failing == [sample EXCEPT !.valid = FALSE, !.fail = @ + 1]
Held == [sample EXCEPT !.valid = @ /\ sample.fail + 1 < FailLimit, !.fail = @ + 1]
Accepted == [raw |-> fetched.rotor, seq |-> sample.seq + 1, valid |-> TRUE, fail |-> 0]
Publish(s) ==
    /\ sample' = s
    /\ generation' = generation + 2
    /\ seen' = IF reader.pc \in {"idle", "done"} THEN seen ELSE seen \union {s}

Push(jumped) ==
    /\ sampler = "push"
    /\ jumped => fetched.rotor # 0 /\ sample.seq > 0        \* prev_valid
    /\ Publish(CASE fetched.rotor = 0 -> Failing
                 [] fetched.rotor # 0 /\ jumped -> Held
                 [] OTHER -> Accepted)
    /\ IF route["output"] = "armed"
       THEN /\ sampler' = "output"
            /\ fetched' = [fetched EXCEPT
                 !.rc = IF fetched.rotor = 0 \/ jumped THEN "refused" ELSE "accepted"]
       ELSE sampler' = "idle" /\ fetched' = NoFetch
    /\ UNCHANGED <<hwVars, pair, reader, handed>>

\* The output's frame is not waited for.  The pair is valid when it was there
\* and the rotor's was accepted.
PairValidHeld(output) == output # 0 /\ sample.valid
PairValid(output) == output # 0 /\ fetched.rc = "accepted"
FetchOutput ==
    /\ sampler = "output"
    /\ LET output == Fetch("output") IN
       pair' = [rotor |-> sample.raw, output |-> output, stamp |-> fetched.stamp,
                valid |-> PairValid(output)]
    /\ rxFifo' = Emptied("output")
    /\ sampler' = "idle" /\ fetched' = NoFetch
    /\ UNCHANGED <<edge, route, wire, adc, generation, sample, userVars>>

----------------------------------------------------------------------------
\* The two readers change nothing that anyone else reads: it is enough to let
\* one of them read at a time.  app_encoder_get_rotor_snapshot in the io task: the generation, the words in
\* two goes, the generation again, MaxRetries times.  The interrupt runs to its
\* end between two of these steps.

ReadBegin ==
    /\ sampler = "idle"
    /\ reader.pc \in {"idle", "done"} /\ handed.pc = "idle"
    /\ reader' = [NoReader EXCEPT !.pc = "first", !.gen = generation]
    /\ seen' = {sample}
    /\ handed' = NothingHanded
    /\ UNCHANGED <<hwVars, samplerVars>>

ReadFirst ==
    /\ sampler = "idle"
    /\ reader.pc = "first"
    /\ reader' = [reader EXCEPT !.pc = "second",
                                !.copy.raw = sample.raw, !.copy.seq = sample.seq]
    /\ UNCHANGED <<hwVars, samplerVars, seen, handed>>

ReadSecond ==
    /\ sampler = "idle"
    /\ reader.pc = "second"
    /\ reader' = [reader EXCEPT !.pc = "check",
                                !.copy.valid = sample.valid, !.copy.fail = sample.fail]
    /\ UNCHANGED <<hwVars, samplerVars, seen, handed>>

\* After the last try the sample is returned as invalid.
CoherentUnchecked == TRUE
Coherent == reader.gen = generation
ReadCheck ==
    /\ sampler = "idle"
    /\ reader.pc = "check"
    /\ reader' = CASE Coherent -> [reader EXCEPT !.pc = "done"]
                   [] ~Coherent /\ reader.tries + 1 < MaxRetries ->
                        [reader EXCEPT !.pc = "first", !.gen = generation, !.tries = @ + 1]
                   [] OTHER ->
                        [reader EXCEPT !.pc = "done", !.copy = [sample EXCEPT !.valid = FALSE]]
    /\ UNCHANGED <<hwVars, samplerVars, seen, handed>>

----------------------------------------------------------------------------
\* app_encoder_output_sample in the motion interrupt, which the current
\* interrupt may interrupt before the age is taken.

PairCopy ==
    /\ sampler = "idle"
    /\ handed.pc = "idle" /\ reader.pc \in {"idle", "done"}
    /\ handed' = [pc |-> "copied", rotor |-> pair.rotor, output |-> pair.output,
                  stamp |-> pair.stamp, ok |-> pair.valid, late |-> 0]
    /\ reader' = NoReader
    /\ seen' = {}
    /\ UNCHANGED <<hwVars, samplerVars>>

Young == edge - handed.stamp <= MaxAge
PairAge ==
    /\ sampler = "idle"
    /\ handed.pc = "copied"
    /\ handed' = [handed EXCEPT !.pc = "idle", !.ok = @ /\ Young,
                                !.late = edge - handed.rotor]
    /\ UNCHANGED <<hwVars, samplerVars, reader, seen>>

SamplingNext ==
    \/ Edge \/ Converted
    \/ \E e \in Encoders : FrameDone(e) \/ Route(e) \/ Arm(e)
    \/ SampleBegin \/ FetchRotor \/ FetchOutput
    \/ \E jumped \in BOOLEAN : Push(jumped)
    \/ ReadBegin \/ ReadFirst \/ ReadSecond \/ ReadCheck
    \/ PairCopy \/ PairAge

SamplingSpec == SamplingInit /\ [][SamplingNext]_samplingVars

----------------------------------------------------------------------------
\* Properties.

\* A sample that the io task gets as valid is one that was in force as a whole
\* at some time of the call, however often the interrupt published meanwhile:
\* never the angle of one push with the validity of another.
ReadWhole == reader.pc = "done" /\ reader.copy.valid => reader.copy \in seen

\* The two angles of a pair that the motion interrupt accepts were latched by
\* the same PWM edge, at most MaxAge edges ago: no late interrupt, frame still
\* in transfer, held jump or failed fetch pairs the rotor of one edge with the
\* output of another.
PairCoherent ==
    handed.pc = "idle" /\ handed.ok => handed.rotor = handed.output /\ handed.late <= MaxAge

=============================================================================
