----------------------- MODULE EncoderSamplingProofs -----------------------
(***************************************************************************)
(* The two readers of the encoder samples get what belongs together, for    *)
(* every depth of the FIFOs, failure limit, age limit and number of retries. *)
(***************************************************************************)
EXTENDS EncoderSampling, TLAPS

AnySample == [raw : Nat, seq : Nat, valid : BOOLEAN, fail : Nat]
AnyFetch == [rotor : Nat, stamp : Nat, at : Nat, rc : {"accepted", "refused"}]
AnyPair == [rotor : Nat, output : Nat, stamp : Nat, valid : BOOLEAN]
AnyReader == [pc : {"idle", "first", "second", "check", "done"},
              gen : Nat, tries : Nat, copy : AnySample]
AnyHanded == [pc : {"idle", "copied"}, rotor : Nat, output : Nat, stamp : Nat,
              ok : BOOLEAN, late : Int]

(***************************************************************************)
(* Types, as far as the arguments below need them.                         *)
(***************************************************************************)
HwType ==
    /\ edge \in Nat
    /\ route \in [Encoders -> {"off", "routed", "armed"}]
    /\ wire \in [Encoders -> Nat]
    /\ rxFifo \in [Encoders -> Seq(Nat)]

SamplerType ==
    fetched \in AnyFetch /\ generation \in Nat /\ sample \in AnySample /\ pair \in AnyPair

UserType == reader \in AnyReader /\ handed \in AnyHanded

TypeInv == HwType /\ SamplerType /\ UserType

LEMMA InitTyped == SamplingInit => TypeInv
BY DEF SamplingInit, TypeInv, HwType, SamplerType, UserType, Encoders, AnySample, AnyFetch, AnyPair, AnyReader, AnyHanded,
   NoSample, NoFetch, NoReader, NothingHanded

(* A fetch yields a frame or nothing, and empties the FIFO.                 *)
LEMMA FetchTyped ==
    ASSUME HwType, NEW e \in Encoders
    PROVE  Fetch(e) \in Nat /\ Emptied(e) \in [Encoders -> Seq(Nat)]
<1>1. rxFifo[e] \in Seq(Nat) /\ wire[e] \in Nat
    BY DEF HwType
<1>2. rxFifo[e] # <<>> => Len(rxFifo[e]) \in 1 .. Len(rxFifo[e])
    BY <1>1
<1>3. rxFifo[e] # <<>> => Last(rxFifo[e]) \in Nat
    BY <1>1, <1>2 DEF Last
<1> QED
    BY <1>3 DEF Fetch, Emptied, HwType

LEMMA HwTyped == TypeInv /\ [SamplingNext]_samplingVars => HwType'
<1> SUFFICES ASSUME HwType, [SamplingNext]_samplingVars PROVE HwType'
    BY DEF TypeInv
<1>1. CASE Edge \/ Converted
    BY <1>1 DEF HwType, Edge, Converted
<1>2. CASE \E e \in Encoders : FrameDone(e) \/ Route(e) \/ Arm(e)
  <2> PICK e \in Encoders : FrameDone(e) \/ Route(e) \/ Arm(e)
      BY <1>2
  <2>1. edge' \in Nat /\ route' \in [Encoders -> {"off", "routed", "armed"}]
      BY DEF HwType, FrameDone, Route, Arm
  <2>2. wire' \in [Encoders -> Nat]
      BY DEF HwType, FrameDone, Route, Arm
  <2>3. rxFifo' \in [Encoders -> Seq(Nat)]
    <3>1. CASE FrameDone(e)
        BY <3>1 DEF HwType, FrameDone
    <3>2. CASE Route(e)
        BY <3>2 DEF HwType, Route
    <3>3. CASE Arm(e)
        BY <3>3 DEF HwType, Arm
    <3> QED
        BY <3>1, <3>2, <3>3
  <2> QED
      BY <2>1, <2>2, <2>3 DEF HwType
<1>3. CASE FetchRotor \/ FetchOutput
    BY <1>3, FetchTyped DEF HwType, FetchRotor, FetchOutput, Encoders
<1>4. CASE UNCHANGED <<edge, route, wire, rxFifo>>
    BY <1>4 DEF HwType
<1> QED
    BY <1>1, <1>2, <1>3, <1>4
    DEF SamplingNext, samplingVars, hwVars, SampleBegin, Push, ReadBegin, ReadFirst,
        ReadSecond, ReadCheck, PairCopy, PairAge

LEMMA SamplerTyped == TypeInv /\ [SamplingNext]_samplingVars => SamplerType'
<1> SUFFICES ASSUME HwType, SamplerType, [SamplingNext]_samplingVars PROVE SamplerType'
    BY DEF TypeInv
<1>1. CASE SampleBegin
    BY <1>1 DEF HwType, SamplerType, SampleBegin, AnyFetch
<1>2. CASE FetchRotor
    BY <1>2, FetchTyped DEF HwType, SamplerType, FetchRotor, Encoders, AnyFetch
<1>3. CASE \E jumped \in BOOLEAN : Push(jumped)
  <2> PICK jumped \in BOOLEAN : Push(jumped)
      BY <1>3
  <2> DEFINE next == sample.fail + 1
  <2>0. next \in Nat
      BY DEF SamplerType, AnySample
  <2>1. Failing \in AnySample
    <3>1. Failing = [sample EXCEPT !.valid = FALSE, !.fail = next]
        BY DEF Failing
    <3> HIDE DEF next
    <3> QED
        BY <2>0, <3>1 DEF SamplerType, AnySample
  <2>2. Held \in AnySample
    <3> DEFINE valid == sample.valid /\ sample.fail + 1 < FailLimit
    <3>1. valid \in BOOLEAN
        OBVIOUS
    <3>2. Held = [sample EXCEPT !.valid = valid, !.fail = next]
        BY DEF Held
    <3> HIDE DEF valid, next
    <3> QED
        BY <2>0, <3>1, <3>2 DEF SamplerType, AnySample
  <2>3. Accepted \in AnySample
      BY DEF SamplerType, Accepted, AnySample, AnyFetch
  <2>4. sample' \in AnySample /\ generation' \in Nat
      BY <2>1, <2>2, <2>3 DEF SamplerType, Push, Publish
  <2>5. fetched' \in AnyFetch
      BY DEF SamplerType, Push, NoFetch, AnyFetch
  <2> QED
      BY <2>4, <2>5 DEF SamplerType, Push
<1>4. CASE FetchOutput
  <2>1. pair' \in AnyPair
      BY <1>4, FetchTyped
      DEF SamplerType, FetchOutput, PairValid, Encoders, AnyPair, AnySample, AnyFetch
  <2>2. fetched' \in AnyFetch
      BY <1>4 DEF FetchOutput, NoFetch, AnyFetch
  <2> QED
      BY <1>4, <2>1, <2>2 DEF SamplerType, FetchOutput
<1>5. CASE \E e \in Encoders : Arm(e)
    BY <1>5 DEF SamplerType, Arm, AnyPair
<1>6. CASE UNCHANGED <<fetched, generation, sample, pair>>
    BY <1>6 DEF SamplerType
<1> QED
    BY <1>1, <1>2, <1>3, <1>4, <1>5, <1>6
    DEF SamplingNext, samplingVars, samplerVars, Edge, Converted, FrameDone, Route, ReadBegin,
        ReadFirst, ReadSecond, ReadCheck, PairCopy, PairAge

LEMMA UserTyped == TypeInv /\ [SamplingNext]_samplingVars => UserType'
<1> SUFFICES ASSUME HwType, SamplerType, UserType, [SamplingNext]_samplingVars PROVE UserType'
    BY DEF TypeInv
<1>1. NoReader \in AnyReader /\ NothingHanded \in AnyHanded
    BY DEF NoReader, NothingHanded, NoSample, AnyReader, AnyHanded, AnySample
<1>2. CASE ReadBegin
    BY <1>1, <1>2 DEF SamplerType, UserType, ReadBegin, AnyReader
<1>3. CASE ReadFirst
    BY <1>3 DEF SamplerType, UserType, ReadFirst, AnyReader, AnySample
<1>4. CASE ReadSecond
    BY <1>4 DEF SamplerType, UserType, ReadSecond, AnyReader, AnySample
<1>5. CASE ReadCheck
  <2>1. [sample EXCEPT !.valid = FALSE] \in AnySample
      BY DEF SamplerType, AnySample
  <2> DEFINE next == reader.tries + 1
             copy == [sample EXCEPT !.valid = FALSE]
  <2>2. next \in Nat /\ generation \in Nat
      BY DEF SamplerType, UserType, AnyReader
  <2>3. /\ \/ reader' = [reader EXCEPT !.pc = "done"]
           \/ reader' = [reader EXCEPT !.pc = "first", !.gen = generation, !.tries = next]
           \/ reader' = [reader EXCEPT !.pc = "done", !.copy = copy]
        /\ UNCHANGED handed
      BY <1>5 DEF ReadCheck
  <2> HIDE DEF next, copy
  <2> QED
      BY <2>1, <2>2, <2>3 DEF UserType, AnyReader, copy
<1>6. CASE PairCopy
    BY <1>1, <1>6 DEF SamplerType, UserType, PairCopy, AnyHanded, AnyPair
<1>7. CASE PairAge
  <2> DEFINE ok == handed.ok /\ Young
             late == edge - handed.rotor
  <2>1. ok \in BOOLEAN /\ late \in Int
      BY DEF HwType, UserType, AnyHanded
  <2>2. handed' = [handed EXCEPT !.pc = "idle", !.ok = ok, !.late = late] /\ reader' = reader
      BY <1>7 DEF PairAge
  <2> HIDE DEF ok, late
  <2> QED
      BY <2>1, <2>2 DEF UserType, AnyHanded
<1>8. CASE UNCHANGED <<reader, handed>>
    BY <1>8 DEF UserType
<1> QED
    BY <1>2, <1>3, <1>4, <1>5, <1>6, <1>7, <1>8
    DEF SamplingNext, samplingVars, userVars, Edge, Converted, FrameDone, Route, Arm,
        SampleBegin, FetchRotor, Push, Publish, FetchOutput

LEMMA TypeInvariant == SamplingSpec => []TypeInv
<1>1. TypeInv /\ [SamplingNext]_samplingVars => TypeInv'
    BY HwTyped, SamplerTyped, UserTyped DEF TypeInv
<1> QED
    BY <1>1, InitTyped, PTL DEF SamplingSpec

-----------------------------------------------------------------------------
(***************************************************************************)
(* The snapshot.  While the generation is the one the copy began with,      *)
(* nothing was published, so what has been copied is the sample in force;   *)
(* and the sample in force has been so during the call.                    *)
(***************************************************************************)
Copying == reader.pc \in {"first", "second", "check"}

ReaderInv ==
    /\ Copying => reader.gen <= generation /\ sample \in seen
    /\ reader.pc = "second" /\ reader.gen = generation
          => reader.copy.raw = sample.raw /\ reader.copy.seq = sample.seq
    /\ reader.pc = "check" /\ reader.gen = generation => reader.copy = sample
    /\ ReadWhole

(* A sample published in the middle of a copy makes the generations differ. *)
LEMMA PublishReads ==
    ASSUME TypeInv, ReaderInv, NEW s, Publish(s), UNCHANGED reader
    PROVE  ReaderInv'
<1>1. generation' > generation /\ generation \in Nat /\ generation' \in Nat /\ reader.gen \in Nat
    BY DEF TypeInv, SamplerType, UserType, AnyReader, Publish
<1>2. Copying => sample' \in seen'
    BY DEF Publish, Copying
<1>3. Copying => reader.gen < generation'
    BY <1>1 DEF ReaderInv
<1>4. reader.pc = "done" => seen' = seen
    BY DEF Publish
<1> QED
    BY <1>1, <1>2, <1>3, <1>4 DEF ReaderInv, Copying, ReadWhole

LEMMA ReaderStep == TypeInv /\ ReaderInv /\ [SamplingNext]_samplingVars => ReaderInv'
<1> SUFFICES ASSUME TypeInv, ReaderInv, [SamplingNext]_samplingVars PROVE ReaderInv'
    OBVIOUS
<1>0. sample \in AnySample /\ reader \in AnyReader /\ generation \in Nat
    BY DEF TypeInv, SamplerType, UserType
<1>1. CASE \E jumped \in BOOLEAN : Push(jumped)
  <2>1. PICK s : Publish(s) /\ UNCHANGED reader
      BY <1>1 DEF Push
  <2> QED
      BY <2>1, PublishReads
<1>2. CASE ReadBegin
  <2>1. reader'.pc = "first" /\ reader'.gen = generation /\ UNCHANGED <<generation, sample>>
        /\ seen' = {sample}
      BY <1>2 DEF ReadBegin, NoReader, samplerVars
  <2> QED
      BY <1>0, <2>1 DEF ReaderInv, Copying, ReadWhole
<1>3. CASE ReadFirst
  <2>1. /\ reader.pc = "first" /\ reader'.pc = "second" /\ reader'.gen = reader.gen
        /\ reader'.copy.raw = sample.raw /\ reader'.copy.seq = sample.seq
        /\ UNCHANGED <<generation, sample, seen>>
      BY <1>0, <1>3 DEF ReadFirst, samplerVars, AnyReader, AnySample
  <2> QED
      BY <2>1 DEF ReaderInv, Copying, ReadWhole
<1>4. CASE ReadSecond
  <2>1. /\ reader.pc = "second" /\ reader'.pc = "check" /\ reader'.gen = reader.gen
        /\ reader'.copy.valid = sample.valid /\ reader'.copy.fail = sample.fail
        /\ reader'.copy.raw = reader.copy.raw /\ reader'.copy.seq = reader.copy.seq
        /\ UNCHANGED <<generation, sample, seen>>
      BY <1>0, <1>4 DEF ReadSecond, samplerVars, AnyReader, AnySample
  <2>2. reader'.copy \in AnySample
      BY UserTyped DEF UserType, AnyReader
  <2>3. reader.gen = generation => reader'.copy = sample
      BY <1>0, <2>1, <2>2 DEF ReaderInv, AnySample
  <2> QED
      BY <2>1, <2>3 DEF ReaderInv, Copying, ReadWhole
<1>5. CASE ReadCheck
  <2>1. reader.pc = "check" /\ UNCHANGED <<generation, sample, seen>>
      BY <1>5 DEF ReadCheck, samplerVars
  <2>2. CASE reader.gen = generation
    <3>1. reader'.pc = "done" /\ reader'.copy = sample
        BY <1>0, <1>5, <2>1, <2>2 DEF ReadCheck, Coherent, ReaderInv, AnyReader
    <3> QED
        BY <2>1, <3>1 DEF ReaderInv, Copying, ReadWhole
  <2>3. CASE reader'.pc = "first" /\ reader'.gen = generation
      BY <1>0, <2>1, <2>3 DEF ReaderInv, Copying, ReadWhole
  <2>4. CASE reader'.pc = "done" /\ ~reader'.copy.valid
      BY <2>1, <2>4 DEF ReaderInv, Copying, ReadWhole
  <2> QED
      BY <1>0, <1>5, <2>2, <2>3, <2>4 DEF ReadCheck, Coherent, AnyReader, AnySample
<1>6. CASE PairCopy
    BY <1>6 DEF PairCopy, NoReader, ReaderInv, Copying, ReadWhole
<1>7. CASE UNCHANGED <<reader, seen, sample, generation>>
    BY <1>7 DEF ReaderInv, Copying, ReadWhole
<1> QED
    BY <1>1, <1>2, <1>3, <1>4, <1>5, <1>6, <1>7
    DEF SamplingNext, samplingVars, samplerVars, userVars, Edge, Converted, FrameDone, Route,
        Arm, SampleBegin, FetchRotor, FetchOutput, PairAge

(* A sample the io task gets as valid was in force as a whole during the    *)
(* call, for every number of retries and however many samples the current   *)
(* interrupt publishes between two words (algo_encoder_snapshot.c:36).      *)
THEOREM ReadAlwaysWhole == SamplingSpec => []ReadWhole
<1>1. SamplingInit => ReaderInv
    BY DEF SamplingInit, NoReader, ReaderInv, Copying, ReadWhole
<1>2. ReaderInv => ReadWhole
    BY DEF ReaderInv
<1> QED
    BY <1>1, <1>2, ReaderStep, TypeInvariant, PTL DEF SamplingSpec

-----------------------------------------------------------------------------
(***************************************************************************)
(* The pair.  A frame in transfer is that of the last edge; so is the       *)
(* newest one in a FIFO when nothing is in transfer.                       *)
(***************************************************************************)
LineInv ==
    \A e \in Encoders :
        /\ wire[e] \in {0, edge}
        /\ route[e] = "off" => wire[e] = 0 /\ rxFifo[e] = <<>>
        /\ rxFifo[e] # <<>> /\ wire[e] = 0 => Last(rxFifo[e]) = edge

(* An edge since the rotor's fetch has a frame in transfer on every encoder *)
(* that is routed, until the interrupt is over: the output's fetch finds it. *)
Fetching == sampler \in {"push", "output"}

SamplerInv ==
    /\ sampler = "fetch" => fetched.stamp <= edge
    /\ Fetching =>
          /\ fetched.stamp <= fetched.at /\ fetched.at <= edge
          /\ fetched.rotor \in {0, fetched.at}
          /\ fetched.at < edge => \A e \in Encoders : route[e] # "off" => wire[e] = edge
    /\ sampler = "output" =>
          /\ route["output"] = "armed"
          /\ fetched.rc = "accepted" => fetched.rotor # 0 /\ sample.raw = fetched.rotor

PairInv ==
    pair.valid => pair.rotor = pair.output /\ pair.stamp <= pair.rotor

HandedInv ==
    /\ handed.ok => handed.rotor = handed.output /\ handed.stamp <= handed.rotor
    /\ PairCoherent

CoherentInv == LineInv /\ SamplerInv /\ PairInv /\ HandedInv

LEMMA LineStep == TypeInv /\ LineInv /\ [SamplingNext]_samplingVars => LineInv'
<1> SUFFICES ASSUME HwType, LineInv, [SamplingNext]_samplingVars PROVE LineInv'
    BY DEF TypeInv
<1>1. CASE Edge
  <2> SUFFICES ASSUME NEW e \in Encoders
               PROVE  /\ wire'[e] \in {0, edge'}
                      /\ route'[e] = "off" => wire'[e] = 0 /\ rxFifo'[e] = <<>>
                      /\ rxFifo'[e] # <<>> /\ wire'[e] = 0 => Last(rxFifo'[e]) = edge'
      BY DEF LineInv
  <2>1. /\ edge' = edge + 1 /\ UNCHANGED <<route, rxFifo>>
        /\ wire'[e] = IF route[e] = "off" THEN 0 ELSE edge + 1
      BY <1>1 DEF Edge
  <2>2. edge + 1 # 0
      BY DEF HwType
  <2> QED
      BY <2>1, <2>2 DEF LineInv
<1>2. CASE \E e \in Encoders : FrameDone(e)
  <2> PICK f \in Encoders : FrameDone(f)
      BY <1>2
  <2>1. /\ wire[f] # 0 /\ UNCHANGED <<edge, route>>
        /\ rxFifo' = [rxFifo EXCEPT ![f] = Append(@, wire[f])]
        /\ wire' = [wire EXCEPT ![f] = 0]
      BY DEF FrameDone
  <2>2. wire[f] = edge /\ route[f] # "off"
      BY <2>1 DEF LineInv
  <2>3. rxFifo[f] \in Seq(Nat) /\ wire[f] \in Nat
      BY DEF HwType
  <2>4. Last(rxFifo'[f]) = edge
      BY <2>1, <2>2, <2>3 DEF Last, HwType
  <2>5. \A e \in Encoders \ {f} : wire'[e] = wire[e] /\ rxFifo'[e] = rxFifo[e]
      BY <2>1 DEF HwType
  <2>6. wire'[f] = 0
      BY <2>1 DEF HwType
  <2> QED
      BY <2>1, <2>2, <2>4, <2>5, <2>6 DEF LineInv
<1>3. CASE \E e \in Encoders : Route(e)
  <2> PICK f \in Encoders : Route(f)
      BY <1>3
  <2>1. /\ UNCHANGED <<edge, wire>> /\ rxFifo'[f] = <<>>
        /\ \A e \in Encoders \ {f} : rxFifo'[e] = rxFifo[e] /\ route'[e] = route[e]
        /\ route'[f] = "routed"
      BY DEF Route, HwType
  <2> QED
      BY <2>1 DEF LineInv
<1>4. CASE \E e \in Encoders : Arm(e)
  <2> PICK f \in Encoders : Arm(f)
      BY <1>4
  <2>1. /\ UNCHANGED <<edge, wire, rxFifo>>
        /\ \A e \in Encoders : route'[e] = "off" => route[e] = "off"
      BY DEF Arm, HwType
  <2> QED
      BY <2>1 DEF LineInv
<1>5. CASE FetchRotor \/ FetchOutput
  <2>1. /\ UNCHANGED <<edge, route, wire>>
        /\ \A e \in Encoders : rxFifo'[e] = rxFifo[e] \/ rxFifo'[e] = <<>>
      BY <1>5 DEF FetchRotor, FetchOutput, Emptied, HwType
  <2> QED
      BY <2>1 DEF LineInv
<1>6. CASE UNCHANGED <<edge, route, wire, rxFifo>>
    BY <1>6 DEF LineInv
<1> QED
    BY <1>1, <1>2, <1>3, <1>4, <1>5, <1>6
    DEF SamplingNext, samplingVars, hwVars, Converted, SampleBegin, Push, ReadBegin, ReadFirst,
        ReadSecond, ReadCheck, PairCopy, PairAge

(* A fetch without a frame in transfer yields the frame of the last edge.   *)
LEMMA FetchFresh ==
    ASSUME LineInv, NEW e \in Encoders
    PROVE  Fetch(e) \in {0, edge} /\ (wire[e] # 0 => Fetch(e) = 0)
BY DEF LineInv, Fetch

LEMMA SamplerStep ==
    TypeInv /\ LineInv /\ SamplerInv /\ [SamplingNext]_samplingVars => SamplerInv'
<1> SUFFICES ASSUME HwType, SamplerType, LineInv, SamplerInv, [SamplingNext]_samplingVars
             PROVE  SamplerInv'
    BY DEF TypeInv
<1> USE DEF Fetching
<1>0. edge \in Nat /\ fetched \in AnyFetch /\ sample \in AnySample
    BY DEF HwType, SamplerType
<1>1. CASE Edge
  <2>1. /\ edge' = edge + 1 /\ UNCHANGED <<route, sampler, fetched, sample>>
        /\ \A e \in Encoders : route[e] # "off" => wire'[e] = edge'
      BY <1>1 DEF Edge, samplerVars
  <2>2. fetched.stamp \in Nat /\ fetched.at \in Nat
      BY <1>0 DEF AnyFetch
  <2> QED
      BY <1>0, <2>1, <2>2 DEF SamplerInv
<1>2. CASE \E e \in Encoders : FrameDone(e)
  <2> PICK f \in Encoders : FrameDone(f)
      BY <1>2
  <2>1. /\ UNCHANGED <<edge, route, sampler, fetched, sample>>
        /\ wire[f] # 0 /\ (Fetching => wire[f] <= fetched.at)
      BY DEF FrameDone, samplerVars
  <2>2. Fetching => ~(fetched.at < edge)
      BY <1>0, <2>1 DEF SamplerInv, LineInv, AnyFetch
  <2> QED
      BY <2>1, <2>2 DEF SamplerInv
<1>3. CASE \E e \in Encoders : Route(e) \/ Arm(e)
    BY <1>3 DEF Route, Arm, SamplerInv, samplerVars
<1>4. CASE SampleBegin
    BY <1>0, <1>4 DEF SampleBegin, SamplerInv, AnyFetch
<1>5. CASE FetchRotor
  <2>1. /\ sampler = "fetch" /\ sampler' = "push" /\ UNCHANGED edge
        /\ fetched'.rotor = Fetch("rotor") /\ fetched'.at = edge
        /\ fetched'.stamp = fetched.stamp
      BY <1>0, <1>5 DEF FetchRotor, AnyFetch
  <2>2. Fetch("rotor") \in {0, edge}
      BY FetchFresh DEF Encoders
  <2> QED
      BY <1>0, <2>1, <2>2 DEF SamplerInv
<1>6. CASE \E jumped \in BOOLEAN : Push(jumped)
  <2> PICK jumped \in BOOLEAN : Push(jumped)
      BY <1>6
  <2>1. sampler = "push" /\ UNCHANGED <<edge, route, wire>>
      BY DEF Push, hwVars
  <2>2. CASE route["output"] = "armed"
    <3>1. /\ sampler' = "output"
          /\ fetched' = [fetched EXCEPT
               !.rc = IF fetched.rotor = 0 \/ jumped THEN "refused" ELSE "accepted"]
        BY <2>2 DEF Push
    <3>2. /\ fetched'.rotor = fetched.rotor /\ fetched'.at = fetched.at
          /\ fetched'.stamp = fetched.stamp
          /\ fetched'.rc = IF fetched.rotor = 0 \/ jumped THEN "refused" ELSE "accepted"
        BY <1>0, <3>1 DEF AnyFetch
    <3>3. fetched.rotor # 0 /\ ~jumped => sample' = Accepted
        BY DEF Push, Publish
    <3>4. Accepted.raw = fetched.rotor
        BY DEF Accepted
    <3> QED
        BY <2>1, <2>2, <3>1, <3>2, <3>3, <3>4 DEF SamplerInv
  <2>3. CASE route["output"] # "armed"
      BY <2>3 DEF Push, SamplerInv
  <2> QED
      BY <2>2, <2>3
<1>7. CASE FetchOutput
    BY <1>7 DEF FetchOutput, SamplerInv
<1>8. CASE UNCHANGED <<edge, route, wire, sampler, fetched, sample>>
    BY <1>8 DEF SamplerInv
<1> QED
    BY <1>1, <1>2, <1>3, <1>4, <1>5, <1>6, <1>7, <1>8
    DEF SamplingNext, samplingVars, hwVars, samplerVars, Converted, ReadBegin, ReadFirst,
        ReadSecond, ReadCheck, PairCopy, PairAge

(* The pair is published with the output's frame of the rotor's edge, or    *)
(* invalid.                                                                *)
LEMMA PairStep ==
    TypeInv /\ LineInv /\ SamplerInv /\ PairInv /\ [SamplingNext]_samplingVars => PairInv'
<1> SUFFICES ASSUME HwType, SamplerType, LineInv, SamplerInv, PairInv,
                    [SamplingNext]_samplingVars
             PROVE  PairInv'
    BY DEF TypeInv
<1>1. CASE FetchOutput
  <2>1. /\ sampler = "output"
        /\ pair'.rotor = sample.raw /\ pair'.output = Fetch("output")
        /\ pair'.stamp = fetched.stamp
        /\ pair'.valid <=> Fetch("output") # 0 /\ fetched.rc = "accepted"
      BY <1>1 DEF FetchOutput, PairValid
  <2>2. ASSUME pair'.valid PROVE Fetch("output") = fetched.rotor /\ fetched.stamp <= fetched.rotor
    <3>1. Fetch("output") = edge /\ wire["output"] = 0 /\ edge # 0
        BY <2>1, <2>2, FetchFresh DEF Encoders
    <3>2. fetched.rotor = fetched.at
        BY <2>1, <2>2 DEF SamplerInv, Fetching
    <3>3. ~(fetched.at < edge)
        BY <2>1, <3>1 DEF SamplerInv, Fetching, Encoders
    <3>4. fetched.at = edge
        BY <2>1, <3>3 DEF SamplerInv, Fetching, HwType, SamplerType, AnyFetch
    <3> QED
        BY <2>1, <3>1, <3>2, <3>4 DEF SamplerInv, Fetching
  <2> QED
      BY <2>1, <2>2 DEF PairInv, SamplerInv
<1>2. CASE \E e \in Encoders : Arm(e)
    BY <1>2 DEF Arm, PairInv, SamplerType, AnyPair
<1>3. CASE UNCHANGED pair
    BY <1>3 DEF PairInv
<1> QED
    BY <1>1, <1>2, <1>3
    DEF SamplingNext, samplingVars, samplerVars, Edge, Converted, FrameDone, Route, SampleBegin,
        FetchRotor, Push, ReadBegin, ReadFirst, ReadSecond, ReadCheck, PairCopy, PairAge

LEMMA HandedStep ==
    TypeInv /\ PairInv /\ HandedInv /\ [SamplingNext]_samplingVars => HandedInv'
<1> SUFFICES ASSUME HwType, SamplerType, UserType, PairInv, HandedInv,
                    [SamplingNext]_samplingVars
             PROVE  HandedInv'
    BY DEF TypeInv
<1> USE DEF HandedInv, PairCoherent
<1>1. CASE PairCopy
    BY <1>1 DEF PairCopy, PairInv
<1>2. CASE PairAge
  <2>1. /\ handed'.rotor = handed.rotor /\ handed'.output = handed.output
        /\ handed'.stamp = handed.stamp /\ handed'.late = edge - handed.rotor
        /\ handed'.ok => handed.ok /\ edge - handed.stamp <= MaxAge
      BY <1>2 DEF PairAge, Young, UserType, AnyHanded
  <2>2. edge \in Nat /\ handed.rotor \in Nat /\ handed.stamp \in Nat /\ MaxAge \in Nat
      BY SamplingAssumption DEF HwType, UserType, AnyHanded
  <2> QED
      BY <2>1, <2>2
<1>3. CASE ReadBegin
    BY <1>3 DEF ReadBegin, NothingHanded
<1>4. CASE UNCHANGED handed
    BY <1>4
<1> QED
    BY <1>1, <1>2, <1>3, <1>4
    DEF SamplingNext, samplingVars, userVars, Edge, Converted, FrameDone, Route, Arm,
        SampleBegin, FetchRotor, Push, FetchOutput, ReadFirst, ReadSecond, ReadCheck

(* The two angles of an accepted pair were latched by the same PWM edge, at *)
(* most MaxAge edges ago, however late the interrupts run, whichever frames *)
(* fail and whenever the encoders are started (app_encoder.c:366).          *)
THEOREM PairAlwaysCoherent == SamplingSpec => []PairCoherent
<1>1. SamplingInit => CoherentInv
    BY DEF SamplingInit, CoherentInv, LineInv, SamplerInv, Fetching, PairInv, HandedInv,
       PairCoherent, NothingHanded
<1>2. TypeInv /\ CoherentInv /\ [SamplingNext]_samplingVars => CoherentInv'
    BY LineStep, SamplerStep, PairStep, HandedStep DEF CoherentInv
<1>3. CoherentInv => PairCoherent
    BY DEF CoherentInv, HandedInv
<1> QED
    BY <1>1, <1>2, <1>3, TypeInvariant, PTL DEF SamplingSpec

-----------------------------------------------------------------------------
(***************************************************************************)
(* Types, with the bounds of the exploration.  An edge is converted and      *)
(* published at most once: what is published, being published and waiting    *)
(* for it is no more than the edges were.  A frame finds room, since an edge  *)
(* waits for it, and no angle is from an edge to come.                      *)
(***************************************************************************)
Publishing == IF sampler \in {"fetch", "push"} THEN 2 ELSE 0
Awaiting == IF adc = "idle" THEN 0 ELSE 2

QueueInv ==
    /\ edge \in Edges /\ adc \in {"idle", "converting", "pending"}
    /\ sampler \in {"idle", "fetch", "push", "output"}
    /\ rxFifo \in [Encoders -> Seq(Edges)]
    /\ \A e \in Encoders : Len(rxFifo[e]) <= Backlog /\ (wire[e] # 0 => Len(rxFifo[e]) < Backlog)

CountInv ==
    /\ generation + Publishing + Awaiting <= 2 * edge
    /\ 2 * sample.seq <= generation /\ 2 * sample.fail <= generation

RotorInv ==
    /\ sample.raw <= edge /\ pair.rotor <= edge /\ handed.rotor <= edge
    /\ 0 <= handed.late /\ handed.late <= edge

KeptInv ==
    /\ fetched \in [rotor : Edges, stamp : Edges, at : Edges, rc : {"accepted", "refused"}]
    /\ pair \in [rotor : Edges, output : Edges, stamp : Edges, valid : BOOLEAN]
    /\ handed.output \in Edges /\ handed.stamp \in Edges
    /\ reader.gen <= 2 * MaxEdges /\ reader.tries <= MaxRetries /\ reader.copy \in Samples
    /\ seen \subseteq Samples

LEMMA QueueStep ==
    ASSUME TypeInv, LineInv, QueueInv, [SamplingNext]_samplingVars
    PROVE  QueueInv'
<1> USE DEF QueueInv
<1>0. HwType /\ MaxEdges \in Nat /\ Backlog \in Nat \ {0}
    BY SamplingAssumption DEF TypeInv
<1>1. CASE Edge
  <2>1. edge' \in Edges /\ adc' \in {"idle", "converting", "pending"} /\ UNCHANGED <<sampler, rxFifo>>
      BY <1>0, <1>1 DEF Edge, HwType, Edges, samplerVars
  <2>2. \A e \in Encoders : Len(rxFifo[e]) < Backlog
      BY <1>1 DEF Edge
  <2> QED
      BY <2>1, <2>2
<1>2. CASE \E e \in Encoders : FrameDone(e)
  <2> PICK f \in Encoders : FrameDone(f)
      BY <1>2
  <2>1. /\ wire[f] # 0 /\ UNCHANGED <<edge, adc, sampler>>
        /\ rxFifo' = [rxFifo EXCEPT ![f] = Append(@, wire[f])] /\ wire' = [wire EXCEPT ![f] = 0]
      BY DEF FrameDone, samplerVars
  <2>2. wire[f] \in Edges /\ rxFifo[f] \in Seq(Edges)
      BY <2>1 DEF LineInv
  <2>3. Append(rxFifo[f], wire[f]) \in Seq(Edges)
        /\ Len(Append(rxFifo[f], wire[f])) = Len(rxFifo[f]) + 1
      BY <2>2
  <2>4. rxFifo' \in [Encoders -> Seq(Edges)] /\ rxFifo'[f] = Append(rxFifo[f], wire[f]) /\ wire'[f] = 0
      BY <1>0, <2>1, <2>3 DEF HwType
  <2>5. \A e \in Encoders \ {f} : wire'[e] = wire[e] /\ rxFifo'[e] = rxFifo[e]
      BY <1>0, <2>1 DEF HwType
  <2>6. Len(rxFifo[f]) + 1 <= Backlog
      BY <1>0, <2>1, <2>2
  <2> QED
      BY <2>1, <2>3, <2>4, <2>5, <2>6
<1>3. CASE (\E e \in Encoders : Route(e)) \/ FetchRotor \/ FetchOutput
  <2>1. PICK f \in Encoders : rxFifo' = [rxFifo EXCEPT ![f] = <<>>]
      BY <1>3 DEF Route, FetchRotor, FetchOutput, Emptied, Encoders
  <2>2. /\ UNCHANGED <<edge, wire, adc>>
        /\ sampler' \in {"idle", "fetch", "push", "output"}
      BY <1>3 DEF Route, FetchRotor, FetchOutput, samplerVars
  <2>3. <<>> \in Seq(Edges) /\ Len(<<>>) = 0
      OBVIOUS
  <2>4. rxFifo' \in [Encoders -> Seq(Edges)]
        /\ \A e \in Encoders : rxFifo'[e] = rxFifo[e] \/ rxFifo'[e] = <<>>
      BY <2>1, <2>3
  <2> QED
      BY <1>0, <2>2, <2>3, <2>4
<1>4. CASE UNCHANGED <<edge, wire, rxFifo>>
      /\ adc' \in {adc, "idle", "pending"} /\ sampler' \in {sampler, "idle", "fetch", "output"}
    BY <1>4
<1> QED
    BY <1>1, <1>2, <1>3, <1>4
    DEF SamplingNext, samplingVars, hwVars, samplerVars, Converted, Arm, SampleBegin, Push,
        ReadBegin, ReadFirst, ReadSecond, ReadCheck, PairCopy, PairAge

(* What a push can make of the sample.                                      *)
LEMMA PushedSample ==
    ASSUME sample \in AnySample, NEW s \in {Failing, Held, Accepted}
    PROVE  /\ s.seq \in {sample.seq, sample.seq + 1} /\ s.fail \in {0, sample.fail + 1}
           /\ s.raw \in {sample.raw, fetched.rotor}
<1> DEFINE next == sample.fail + 1
           valid == sample.valid /\ sample.fail + 1 < FailLimit
<1>1. CASE s = Failing
  <2>1. s = [sample EXCEPT !.valid = FALSE, !.fail = next]
      BY <1>1 DEF Failing
  <2> HIDE DEF next
  <2>2. s.seq = sample.seq /\ s.fail = next /\ s.raw = sample.raw
      BY <2>1 DEF AnySample
  <2> QED
      BY <2>2 DEF next
<1>2. CASE s = Held
  <2>1. s = [sample EXCEPT !.valid = valid, !.fail = next]
      BY <1>2 DEF Held
  <2> HIDE DEF next, valid
  <2>2. s.seq = sample.seq /\ s.fail = next /\ s.raw = sample.raw
      BY <2>1 DEF AnySample
  <2> QED
      BY <2>2 DEF next
<1>3. CASE s = Accepted
    BY <1>3 DEF Accepted
<1> QED
    BY <1>1, <1>2, <1>3

LEMMA CountStep ==
    ASSUME TypeInv, QueueInv, CountInv, [SamplingNext]_samplingVars
    PROVE  CountInv'
<1>0. edge \in Nat /\ generation \in Nat /\ sample \in AnySample
      /\ sample.seq \in Nat /\ sample.fail \in Nat
    BY DEF TypeInv, HwType, SamplerType, AnySample
<1>1. CASE \E jumped \in BOOLEAN : Push(jumped)
  <2>1. PICK s \in {Failing, Held, Accepted} : Publish(s)
      BY <1>1 DEF Push
  <2>2. s.seq \in {sample.seq, sample.seq + 1} /\ s.fail \in {0, sample.fail + 1}
      BY <1>0, PushedSample
  <2>3. generation' = generation + 2 /\ sample' = s
      BY <2>1 DEF Publish
  <2>4. Publishing = 2 /\ Publishing' = 0 /\ Awaiting' = Awaiting /\ edge' = edge
      BY <1>1 DEF Push, Publishing, Awaiting, hwVars
  <2>5. Awaiting \in {0, 2}
      BY DEF Awaiting
  <2>6. 2 * s.seq <= generation + 2 /\ 2 * s.fail <= generation + 2
      BY <1>0, <2>2 DEF CountInv
  <2>7. generation + 2 + 0 + Awaiting <= 2 * edge
      BY <1>0, <2>4, <2>5 DEF CountInv
  <2> QED
      BY <2>3, <2>4, <2>6, <2>7 DEF CountInv
<1>2. CASE UNCHANGED <<generation, sample>>
  <2>1. Publishing \in {0, 2} /\ Awaiting \in {0, 2}
      BY DEF Publishing, Awaiting
  <2>2. CASE Edge
    <3>1. edge' = edge + 1 /\ Awaiting' = 2 /\ Publishing' = Publishing
        BY <2>2 DEF Edge, samplerVars, Publishing, Awaiting
    <3>2. generation + Publishing + 2 <= 2 * (edge + 1)
        BY <1>0, <2>1 DEF CountInv
    <3> QED
        BY <1>2, <3>1, <3>2 DEF CountInv
  <2>3. CASE SampleBegin
    <3>1. edge' = edge /\ Awaiting = 2 /\ Awaiting' = 0 /\ Publishing' \in {0, 2}
        BY <2>3 DEF SampleBegin, Publishing, Awaiting
    <3>2. \A n \in {0, 2} : generation + n + 0 <= 2 * edge
        BY <1>0, <2>1, <3>1 DEF CountInv
    <3> QED
        BY <1>2, <3>1, <3>2 DEF CountInv
  <2>4. CASE Converted \/ FetchRotor \/ UNCHANGED <<sampler, adc, edge>>
    <3>1. edge' = edge /\ Awaiting' = Awaiting /\ Publishing' = Publishing
        BY <2>4 DEF Converted, FetchRotor, samplerVars, Publishing, Awaiting
    <3> QED
        BY <1>2, <3>1 DEF CountInv
  <2>5. CASE FetchOutput
    <3>1. edge' = edge /\ Awaiting' = Awaiting /\ Publishing = 0 /\ Publishing' = 0
        BY <2>5 DEF FetchOutput, Publishing, Awaiting
    <3> QED
        BY <1>2, <3>1 DEF CountInv
  <2>6. CASE Push(TRUE) \/ Push(FALSE)
      BY <1>0, <1>2, <2>6 DEF Push, Publish
  <2> QED
      BY <2>2, <2>3, <2>4, <2>5, <2>6
      DEF SamplingNext, samplingVars, hwVars, samplerVars, FrameDone, Route, Arm, ReadBegin,
          ReadFirst, ReadSecond, ReadCheck, PairCopy, PairAge
<1> QED
    BY <1>1, <1>2
    DEF SamplingNext, samplingVars, samplerVars, Edge, Converted, FrameDone, Route, Arm,
        SampleBegin, FetchRotor, FetchOutput, ReadBegin, ReadFirst, ReadSecond, ReadCheck,
        PairCopy, PairAge

(* The sample has the bounds of its type.                                   *)
SampleOK == sample \in Samples /\ generation <= 2 * MaxEdges

LEMMA SampleBounded ==
    ASSUME TypeInv, QueueInv, CountInv, RotorInv
    PROVE  SampleOK
<1>1. edge \in Nat /\ edge <= MaxEdges /\ MaxEdges \in Nat /\ generation \in Nat /\ sample \in AnySample
    BY SamplingAssumption DEF TypeInv, HwType, SamplerType, QueueInv, Edges
<1>2. generation <= 2 * edge
    BY <1>1 DEF CountInv, Publishing, Awaiting
<1>3. sample.seq <= edge /\ sample.fail <= edge /\ sample.raw <= edge
    BY <1>1, <1>2 DEF CountInv, RotorInv, AnySample
<1>4. sample.seq \in Edges /\ sample.raw \in Edges /\ sample.fail \in 0 .. MaxEdges
    BY <1>1, <1>3 DEF AnySample, Edges
<1> QED
    BY <1>1, <1>2, <1>4 DEF AnySample, Samples, SampleOK

LEMMA RotorStep ==
    ASSUME TypeInv, SamplerInv, RotorInv, [SamplingNext]_samplingVars
    PROVE  RotorInv'
<1>0. /\ edge \in Nat /\ sample \in AnySample /\ pair \in AnyPair /\ handed \in AnyHanded
      /\ fetched \in AnyFetch
    BY DEF TypeInv, HwType, SamplerType, UserType
<1>1. sample.raw \in Nat /\ pair.rotor \in Nat /\ handed.rotor \in Nat /\ handed.late \in Int
    BY <1>0 DEF AnySample, AnyPair, AnyHanded
<1>2. CASE Edge
  <2>1. edge' = edge + 1 /\ UNCHANGED <<sample, pair, handed>>
      BY <1>2 DEF Edge, samplerVars, userVars
  <2> QED
      BY <1>0, <1>1, <2>1 DEF RotorInv
<1>3. CASE \E jumped \in BOOLEAN : Push(jumped)
  <2>1. PICK s \in {Failing, Held, Accepted} : Publish(s) /\ UNCHANGED <<edge, pair, handed>>
      BY <1>3 DEF Push, hwVars
  <2>2. fetched.rotor <= edge
      BY <1>0, <1>3 DEF Push, SamplerInv, Fetching, AnyFetch
  <2>3. s.raw \in {sample.raw, fetched.rotor}
      BY <1>0, PushedSample
  <2> QED
      BY <2>1, <2>2, <2>3 DEF Publish, RotorInv
<1>4. CASE FetchOutput
  <2>1. pair'.rotor = sample.raw /\ UNCHANGED <<edge, sample, handed>>
      BY <1>4 DEF FetchOutput, userVars
  <2> QED
      BY <2>1 DEF RotorInv
<1>5. CASE \E e \in Encoders : Arm(e)
  <2>1. pair'.rotor = pair.rotor /\ UNCHANGED <<edge, sample, handed>>
      BY <1>0, <1>5 DEF Arm, userVars, AnyPair
  <2> QED
      BY <2>1 DEF RotorInv
<1>6. CASE ReadBegin \/ PairCopy
  <2>1. /\ handed'.rotor \in {0, pair.rotor} /\ handed'.late = 0
        /\ UNCHANGED <<edge, sample, pair>>
      BY <1>6 DEF ReadBegin, PairCopy, NothingHanded, hwVars, samplerVars
  <2> QED
      BY <1>0, <2>1 DEF RotorInv
<1>7. CASE PairAge
  <2>1. /\ handed'.rotor = handed.rotor /\ handed'.late = edge - handed.rotor
        /\ UNCHANGED <<edge, sample, pair>>
      BY <1>0, <1>7 DEF PairAge, AnyHanded, hwVars, samplerVars
  <2> QED
      BY <1>0, <1>1, <2>1 DEF RotorInv
<1>8. CASE UNCHANGED <<edge, sample, pair, handed>>
    BY <1>8 DEF RotorInv
<1> QED
    BY <1>2, <1>3, <1>4, <1>5, <1>6, <1>7, <1>8
    DEF SamplingNext, samplingVars, hwVars, samplerVars, userVars, Converted, FrameDone, Route,
        SampleBegin, FetchRotor, ReadFirst, ReadSecond, ReadCheck

LEMMA KeptStep ==
    ASSUME TypeInv, LineInv, QueueInv, SampleOK, KeptInv, TypeInv', SampleOK',
           [SamplingNext]_samplingVars
    PROVE  KeptInv'
<1> USE DEF KeptInv
<1>0. /\ edge \in Edges /\ 0 \in Edges /\ MaxRetries \in Nat \ {0} /\ reader \in AnyReader
      /\ MaxEdges \in Nat /\ handed \in AnyHanded /\ handed' \in AnyHanded
      /\ reader' \in AnyReader /\ pair \in AnyPair /\ route \in [Encoders -> {"off", "routed", "armed"}]
    BY SamplingAssumption DEF QueueInv, TypeInv, HwType, SamplerType, UserType, Edges
<1>1. sample \in Samples /\ sample' \in Samples /\ generation <= 2 * MaxEdges
    BY DEF SampleOK
<1>2. \A e \in Encoders : Fetch(e) \in Edges
    BY <1>0, FetchFresh
<1>3. NoSample \in Samples /\ NoReader.copy = NoSample /\ NoReader.gen = 0 /\ NoReader.tries = 0
    BY <1>0 DEF NoSample, NoReader, Samples
<1>4. /\ NoFetch \in [rotor : Edges, stamp : Edges, at : Edges, rc : {"accepted", "refused"}]
      /\ NothingHanded.output = 0 /\ NothingHanded.stamp = 0
    BY <1>0 DEF NoFetch, NothingHanded
<1>5. CASE SampleBegin
    BY <1>0, <1>5 DEF SampleBegin, userVars
<1>6. CASE FetchRotor
    BY <1>0, <1>2, <1>6 DEF FetchRotor, userVars, Encoders
<1>7. CASE \E jumped \in BOOLEAN : Push(jumped)
  <2>1. UNCHANGED <<pair, reader, handed>> /\ seen' \subseteq seen \cup {sample'}
      BY <1>7 DEF Push, Publish
  <2>2. fetched' \in [rotor : Edges, stamp : Edges, at : Edges, rc : {"accepted", "refused"}]
      BY <1>4, <1>7 DEF Push
  <2> QED
      BY <1>1, <2>1, <2>2
<1>8. CASE FetchOutput
  <2>1. sample.raw \in Edges /\ fetched.stamp \in Edges /\ Fetch("output") \in Edges
      BY <1>1, <1>2 DEF Samples, Encoders
  <2>2. PairValid(Fetch("output")) \in BOOLEAN
      BY DEF PairValid
  <2>3. pair' \in [rotor : Edges, output : Edges, stamp : Edges, valid : BOOLEAN]
      BY <1>8, <2>1, <2>2 DEF FetchOutput
  <2> QED
      BY <1>4, <1>8, <2>3 DEF FetchOutput, userVars
<1>9. CASE \E e \in Encoders : Arm(e)
    BY <1>9 DEF Arm, userVars
<1>10. CASE ReadBegin
  <2>1. /\ UNCHANGED <<fetched, pair>> /\ handed' = NothingHanded /\ seen' = {sample}
        /\ reader'.gen = generation /\ reader'.tries = 0 /\ reader'.copy = NoSample
      BY <1>10 DEF ReadBegin, samplerVars, NoReader
  <2> QED
      BY <1>0, <1>1, <1>3, <1>4, <2>1
<1>11. CASE ReadFirst \/ ReadSecond
  <2>1. /\ UNCHANGED <<fetched, pair, handed, seen>>
        /\ reader'.gen = reader.gen /\ reader'.tries = reader.tries
      BY <1>0, <1>11 DEF ReadFirst, ReadSecond, samplerVars, AnyReader
  <2>2. reader'.copy \in Samples
    <3>1. CASE ReadFirst
        BY <1>0, <1>1, <3>1 DEF ReadFirst, AnyReader, Samples
    <3>2. CASE ReadSecond
        BY <1>0, <1>1, <3>2 DEF ReadSecond, AnyReader, Samples
    <3> QED
        BY <1>11, <3>1, <3>2
  <2> QED
      BY <2>1, <2>2
<1>12. CASE ReadCheck
  <2> DEFINE next == reader.tries + 1
             copy == [sample EXCEPT !.valid = FALSE]
  <2>1. next \in Nat /\ (next < MaxRetries => next <= MaxRetries)
      BY <1>0 DEF AnyReader
  <2>4. copy \in Samples
      BY <1>1 DEF Samples
  <2>2. /\ \/ reader' = [reader EXCEPT !.pc = "done"]
           \/ /\ reader' = [reader EXCEPT !.pc = "first", !.gen = generation, !.tries = next]
              /\ next < MaxRetries
           \/ reader' = [reader EXCEPT !.pc = "done", !.copy = copy]
        /\ UNCHANGED <<fetched, pair, handed, seen>>
      BY <1>12 DEF ReadCheck, samplerVars
  <2> HIDE DEF next, copy
  <2>3. reader'.gen \in {reader.gen, generation} /\ reader'.copy \in {reader.copy, copy}
        /\ (reader'.tries = reader.tries \/ (reader'.tries = next /\ next < MaxRetries))
      BY <1>0, <2>2 DEF AnyReader
  <2> QED
      BY <1>1, <2>1, <2>2, <2>3, <2>4
<1>13. CASE PairCopy
  <2>1. /\ UNCHANGED <<fetched, pair>> /\ reader' = NoReader /\ seen' = {}
        /\ handed'.output = pair.output /\ handed'.stamp = pair.stamp
      BY <1>13 DEF PairCopy, samplerVars
  <2> QED
      BY <1>0, <1>3, <2>1
<1>14. CASE PairAge
  <2>1. /\ UNCHANGED <<fetched, pair, reader, seen>>
        /\ handed'.output = handed.output /\ handed'.stamp = handed.stamp
      BY <1>0, <1>14 DEF PairAge, samplerVars, AnyHanded
  <2> QED
      BY <2>1
<1>15. CASE UNCHANGED <<fetched, pair, reader, seen, handed>>
    BY <1>15
<1> QED
    BY <1>5, <1>6, <1>7, <1>8, <1>9, <1>10, <1>11, <1>12, <1>13, <1>14, <1>15
    DEF SamplingNext, samplingVars, samplerVars, userVars, Edge, Converted, FrameDone, Route

(* The FIFOs never hold more than the interrupt may be late, and every copy   *)
(* is of a sample and of a pair of the edges so far (algo_encoder_snapshot.c, *)
(* app_encoder.c:366).                                                     *)
LEMMA SamplingTypeCorrect == SamplingSpec => []SamplingTypeOK
<1> DEFINE Counted == TypeInv /\ CoherentInv /\ QueueInv /\ CountInv /\ RotorInv
<1>1. SamplingInit => Counted /\ KeptInv
  <2> SUFFICES ASSUME SamplingInit PROVE Counted /\ KeptInv
      OBVIOUS
  <2>1. MaxEdges \in Nat /\ Backlog \in Nat \ {0} /\ MaxRetries \in Nat \ {0} /\ 0 \in Edges
      BY SamplingAssumption DEF Edges
  <2>2. CoherentInv
      BY DEF SamplingInit, CoherentInv, LineInv, SamplerInv, Fetching, PairInv, HandedInv,
         PairCoherent, NothingHanded
  <2>3. QueueInv
    <3>1. Len(<<>>) = 0 /\ <<>> \in Seq(Edges)
        OBVIOUS
    <3> QED
        BY <2>1, <3>1 DEF SamplingInit, QueueInv, Encoders
  <2>4. CountInv /\ RotorInv
      BY DEF SamplingInit, CountInv, RotorInv, Publishing, Awaiting, NoSample, NothingHanded
  <2>5. NoSample \in Samples
      BY <2>1 DEF NoSample, Samples
  <2>6. KeptInv
      BY <2>1, <2>5 DEF SamplingInit, KeptInv, NoFetch, NoReader, NothingHanded
  <2> QED
      BY <2>2, <2>3, <2>4, <2>6, InitTyped
<1>2. Counted /\ [SamplingNext]_samplingVars => Counted'
  <2> SUFFICES ASSUME Counted, [SamplingNext]_samplingVars PROVE Counted'
      OBVIOUS
  <2>1. TypeInv'
      BY HwTyped, SamplerTyped, UserTyped DEF TypeInv
  <2>2. CoherentInv'
      BY LineStep, SamplerStep, PairStep, HandedStep DEF CoherentInv
  <2>3. QueueInv' /\ CountInv' /\ RotorInv'
      BY QueueStep, CountStep, RotorStep DEF CoherentInv
  <2> QED
      BY <2>1, <2>2, <2>3
<1>3. Counted => SampleOK
    BY SampleBounded
<1>4. /\ Counted /\ SampleOK /\ KeptInv /\ Counted' /\ SampleOK' /\ [SamplingNext]_samplingVars
      => KeptInv'
    BY KeptStep DEF CoherentInv
<1>5. Counted /\ SampleOK /\ KeptInv => SamplingTypeOK
  <2> SUFFICES ASSUME Counted, SampleOK, KeptInv PROVE SamplingTypeOK
      OBVIOUS
  <2>1. edge \in Nat /\ MaxEdges \in Nat /\ edge <= MaxEdges
      BY SamplingAssumption DEF QueueInv, Edges
  <2>2. wire \in [Encoders -> Edges]
      BY <2>1 DEF CoherentInv, LineInv, TypeInv, HwType, Edges
  <2>3. \A e \in Encoders : Len(rxFifo[e]) <= Backlog /\ Range(rxFifo[e]) \subseteq Edges
    <3> TAKE e \in Encoders
    <3>1. rxFifo[e] \in Seq(Edges) /\ Len(rxFifo[e]) <= Backlog
        BY DEF QueueInv
    <3> QED
        BY <3>1 DEF Range
  <2>4. sample \in Samples /\ generation \in 0 .. 2 * MaxEdges
      BY <2>1 DEF SampleOK, TypeInv, SamplerType
  <2>5. reader \in [pc : {"idle", "first", "second", "check", "done"},
                    gen : 0 .. 2 * MaxEdges, tries : 0 .. MaxRetries, copy : Samples]
    <3>1. reader.gen \in 0 .. 2 * MaxEdges /\ reader.tries \in 0 .. MaxRetries
        BY <2>1, SamplingAssumption DEF KeptInv, TypeInv, UserType, AnyReader
    <3> QED
        BY <3>1 DEF KeptInv, TypeInv, UserType, AnyReader
  <2>6. handed \in [pc : {"idle", "copied"}, rotor : Edges, output : Edges,
                    stamp : Edges, ok : BOOLEAN, late : Edges]
    <3>1. handed.rotor \in Edges /\ handed.late \in Edges
        BY <2>1 DEF RotorInv, TypeInv, UserType, AnyHanded, Edges
    <3> QED
        BY <3>1 DEF KeptInv, TypeInv, UserType, AnyHanded
  <2> QED
      BY <2>2, <2>3, <2>4, <2>5, <2>6 DEF SamplingTypeOK, TypeInv, HwType, QueueInv, KeptInv
<1> QED
    BY <1>1, <1>2, <1>3, <1>4, <1>5, PTL DEF SamplingSpec
=============================================================================
