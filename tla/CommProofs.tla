------------------------------ MODULE CommProofs ------------------------------
(***************************************************************************)
(* The two interfaces of the controller: the receive path and the watchdog   *)
(* of the CAN node and the request channel of the USB interface, for any      *)
(* sizes of their buffers, any timeout and any time that a terminal command   *)
(* may block the task.                                                     *)
(*                                                                         *)
(* What bounds the silence on the bus is where the task stands: at most the   *)
(* timeout when it has just looked, one period more for each that has passed  *)
(* since.  What bounds the age of a frame is how many frames are before it.   *)
(* The cells of the USB requests are numbered: those on their way rise from   *)
(* what has been executed to what is still on the wire.                      *)
(***************************************************************************)
EXTENDS CanService, UsbLink, SequenceTheorems, TLAPS

ClockInv ==
    /\ silence \in Nat /\ blocked \in 0 .. BlockMax
    /\ can_pc \in {"boot", "drain", "idle", "poll", "rx", "wd", "wd_stamp", "wd_fire"}

(* The mark of the watchdog says that the fault is up since the last stamp:   *)
(* the stamp, which resets it, may fall between the decision and the mark,   *)
(* and then both are set again.                                            *)
MarkInv == s_wd_fired <=> raised

(* Where the task can stand: blocked only between two steps, not yet served  *)
(* by the service in the steps that come before the check.                  *)
PlaceInv ==
    /\ can_pc \in {"drain", "poll", "rx", "wd", "wd_stamp", "wd_fire"} => blocked = 0
    /\ can_pc \in {"boot", "drain", "poll", "rx", "wd"} => ~stepped
    /\ can_pc = "boot" => ~s_wd_armed /\ blocked = 0
    /\ can_pc = "drain" => silence = 0

(* The longest silence that can go unreported at each place.               *)
BoundInv ==
    s_wd_armed /\ ~s_wd_fired =>
        /\ can_pc = "idle" /\ stepped => silence <= Timeout
        /\ can_pc = "idle" /\ ~stepped => silence + blocked <= Timeout + 1 + BlockMax
        /\ can_pc = "wd_stamp" /\ ~late => silence <= Timeout
        /\ can_pc # "idle" => silence <= Timeout + 1 + BlockMax

CInv == ClockInv /\ MarkInv /\ PlaceInv /\ BoundInv

LEMMA Bounds == Timeout \in Nat /\ BlockMax \in Nat
  BY CanAssumption

LEMMA CInvInit == CanInit => CInv
  BY Bounds DEF CanInit, CInv, ClockInv, MarkInv, PlaceInv, BoundInv

(* What neither the clock, the watchdog nor the task's place sees.           *)
LEMMA CInvStutter == CInv /\ UNCHANGED <<wdVars, taskVars>> => CInv'
  BY DEF CInv, ClockInv, MarkInv, PlaceInv, BoundInv, wdVars, taskVars

(* A stamp of the interrupt or of a key, wherever the task stands.           *)
LEMMA CInvStamp ==
  ASSUME CInv, Hooked, Stamp, UNCHANGED taskVars
  PROVE  CInv'
  BY Bounds DEF CInv, ClockInv, MarkInv, PlaceInv, BoundInv, Hooked, Stamp, taskVars

LEMMA CInvReceive == CInv /\ IsrReceive => CInv'
<1> SUFFICES ASSUME CInv, IsrReceive PROVE CInv'
  OBVIOUS
<1>1. CASE Hooked /\ Feeds(Head(fifo))
  BY <1>1, CInvStamp DEF IsrReceive
<1>2. CASE ~(Hooked /\ Feeds(Head(fifo)))
  BY <1>2, CInvStutter DEF IsrReceive
<1> QED
  BY <1>1, <1>2

LEMMA CInvServe ==
  CInv /\ (ServiceInit \/ ServiceDrain \/ StepBegin \/ Poll \/ ProcessRx) => CInv'
<1> SUFFICES ASSUME CInv, ServiceInit \/ ServiceDrain \/ StepBegin \/ Poll \/ ProcessRx
             PROVE  CInv'
  OBVIOUS
<1> USE Bounds DEF CInv, ClockInv, MarkInv, PlaceInv, BoundInv
<1>1. CASE ServiceInit
  BY <1>1 DEF ServiceInit
<1>2. CASE ServiceDrain
  BY <1>2 DEF ServiceDrain, wdVars
<1>3. CASE StepBegin
  BY <1>3 DEF StepBegin, wdVars
<1>4. CASE Poll
  BY <1>4 DEF Poll, wdVars
<1>5. CASE ProcessRx
  BY <1>5 DEF ProcessRx, wdVars
<1> QED
  BY <1>1, <1>2, <1>3, <1>4, <1>5

(* The check: a reading that was not late leaves the silence within the       *)
(* timeout, and one that was raises the fault unless it is up already.       *)
LEMMA CInvWatchdog ==
  CInv /\ (WatchdogRead \/ WatchdogDecide \/ WatchdogFire) => CInv'
<1> SUFFICES ASSUME CInv, WatchdogRead \/ WatchdogDecide \/ WatchdogFire
             PROVE  CInv'
  OBVIOUS
<1> USE Bounds DEF CInv, ClockInv, MarkInv, PlaceInv, BoundInv
<1>1. CASE WatchdogRead
  <2>1. CASE s_wd_armed
    <3>1. silence' = silence /\ blocked' = blocked /\ can_pc' = "wd_stamp"
      BY <1>1, <2>1 DEF WatchdogRead, wdVars
    <3>2. late' <=> silence > Timeout
      BY <1>1, <2>1 DEF WatchdogRead
    <3>3. (s_wd_fired' <=> s_wd_fired) /\ (raised' <=> raised)
      BY <1>1 DEF WatchdogRead, wdVars
    <3> QED
      BY <1>1, <2>1, <3>1, <3>2, <3>3 DEF WatchdogRead
  <2>2. CASE ~s_wd_armed
    BY <1>1, <2>2 DEF WatchdogRead, wdVars
  <2> QED
    BY <2>1, <2>2
<1>2. CASE WatchdogDecide
  <2>1. late => \A over \in Elapsed : over
    BY DEF Elapsed
  <2> QED
    BY <1>2, <2>1 DEF WatchdogDecide, wdVars
<1>3. CASE WatchdogFire
  BY <1>3 DEF WatchdogFire
<1> QED
  BY <1>1, <1>2, <1>3

LEMMA CInvTerminal == CInv /\ (TerminalFeeds \/ TerminalBlocks) => CInv'
<1> SUFFICES ASSUME CInv, TerminalFeeds \/ TerminalBlocks PROVE CInv'
  OBVIOUS
<1>1. CASE TerminalFeeds
  BY <1>1, CInvStamp DEF TerminalFeeds, Hooked
<1>2. CASE TerminalBlocks
  BY <1>2, Bounds
     DEF TerminalBlocks, wdVars, CInv, ClockInv, MarkInv, PlaceInv, BoundInv
<1> QED
  BY <1>1, <1>2

(* A period passes: a task that has had its turn gets one more to look, and   *)
(* a blocked one waits one period less.                                    *)
LEMMA CInvTick == CInv /\ Tick => CInv'
<1> SUFFICES ASSUME CInv, Tick PROVE CInv'
  OBVIOUS
<1> USE Bounds DEF CInv, ClockInv, MarkInv, PlaceInv, BoundInv
<1>1. silence' \in {silence, silence + 1} /\ (~s_wd_armed => silence' = silence)
  BY DEF Tick
<1>2. ClockInv' /\ MarkInv' /\ PlaceInv'
  BY <1>1 DEF Tick
<1>3. BoundInv'
  BY <1>1 DEF Tick
<1> QED
  BY <1>2, <1>3

LEMMA CInvStep == CInv /\ [CanNext]_canVars => CInv'
<1> SUFFICES ASSUME CInv, [CanNext]_canVars PROVE CInv'
  OBVIOUS
<1>1. CASE \E kind \in Kinds, probe \in BOOLEAN : BusFrame(kind, probe)
  BY <1>1, CInvStutter DEF BusFrame
<1>2. CASE BusOff \/ IsrEnter \/ IsrExit
  BY <1>2, CInvStutter DEF BusOff, IsrEnter, IsrExit
<1>3. CASE UNCHANGED canVars
  BY <1>3, CInvStutter DEF canVars
<1> QED
  BY <1>1, <1>2, <1>3, CInvReceive, CInvServe, CInvWatchdog, CInvTerminal, CInvTick
     DEF CanNext

(* Silence is noticed: COMM_TIMEOUT is raised when no frame and no key has    *)
(* come for longer than the timeout and the time the task may be blocked,    *)
(* however the interrupt's stamps fall between the reads of the check and    *)
(* the mark it sets (app_can_service.c:309).                                *)
THEOREM AddressedSilenceAlwaysRaises == CanSpec => []AddressedSilenceRaises
<1>1. CInv => AddressedSilenceRaises
  BY Bounds DEF CInv, ClockInv, MarkInv, PlaceInv, BoundInv, AddressedSilenceRaises
<1> QED
  BY <1>1, CInvInit, CInvStep, PTL DEF CanSpec

-----------------------------------------------------------------------------
(***************************************************************************)
(* The refinement: FIFO, ring and queue in a row are one channel that loses  *)
(* stretches and reorders nothing, for any sizes of the three.              *)
(***************************************************************************)
BufferInv == fifo \in Seq(Frames) /\ s_rx_ring \in Seq(Frames) /\ s_rxq \in Seq(Frames)

LEMMA BufferInit == CanInit => BufferInv
  BY DEF CanInit, BufferInv

(* A buffer that is full keeps what it has.                                *)
LEMMA BufferStep == BufferInv /\ [CanNext]_canVars => BufferInv'
<1> SUFFICES ASSUME BufferInv, [CanNext]_canVars PROVE BufferInv'
  OBVIOUS
<1> USE DEF BufferInv
<1>0. \A s \in Seq(Frames) : s # <<>> => Head(s) \in Frames /\ Tail(s) \in Seq(Frames)
  BY HeadTailProperties
<1>a. \A s \in Seq(Frames), f \in Frames : Append(s, f) \in Seq(Frames)
  BY AppendProperties
<1>1. ASSUME NEW kind \in Kinds, NEW probe \in BOOLEAN, BusFrame(kind, probe)
      PROVE  BufferInv'
  <2>1. [kind |-> kind, probe |-> probe] \in Frames
    BY <1>1 DEF Frames
  <2>2. fifo' \in Seq(Frames)
    BY <1>1, <1>a, <2>1 DEF BusFrame
  <2> QED
    BY <1>1, <2>2 DEF BusFrame
<1>2. CASE IsrReceive
  BY <1>0, <1>a, <1>2 DEF IsrReceive
<1>3. CASE IsrExit \/ ServiceInit
  <2>1. <<>> \in Seq(Frames)
    BY EmptySeq
  <2> QED
    BY <1>3, <2>1 DEF IsrExit, ServiceInit, busVars
<1>4. CASE ServiceDrain \/ ProcessRx
  BY <1>0, <1>4 DEF ServiceDrain, ProcessRx, busVars
<1>5. CASE Poll
  BY <1>0, <1>a, <1>5 DEF Poll, busVars
<1>6. CASE BusOff \/ IsrEnter \/ StepBegin \/ WatchdogRead \/ WatchdogDecide \/ WatchdogFire
           \/ TerminalFeeds \/ TerminalBlocks \/ Tick
  BY <1>6 DEF BusOff, IsrEnter, StepBegin, WatchdogRead, WatchdogDecide, WatchdogFire,
     TerminalFeeds, TerminalBlocks, Tick, busVars
<1>7. CASE UNCHANGED canVars
  BY <1>7 DEF canVars, busVars
<1> QED
  BY <1>1, <1>2, <1>3, <1>4, <1>5, <1>6, <1>7 DEF CanNext

(***************************************************************************)
(* The operations of the channel on a pipeline in three parts.  They are     *)
(* named, so that the provers take the equations below as they stand.       *)
(***************************************************************************)
Cat(s, t) == s \o t
Add(s, e) == Append(s, e)
One(e) == <<e>>
Foremost(s) == Head(s)
Rest(s) == Tail(s)

(* What stays when a stretch in the middle is lost.                         *)
Shorter(s, t) ==
  \E i \in 0 .. Len(s) : \E j \in i .. Len(s) : t = SubSeq(s, 1, i) \o SubSeq(s, j + 1, Len(s))

LEMMA CatType ==
  ASSUME NEW S, NEW a \in Seq(S), NEW b \in Seq(S)
  PROVE  Cat(a, b) \in Seq(S)
  BY DEF Cat

LEMMA AddType ==
  ASSUME NEW S, NEW a \in Seq(S), NEW e \in S
  PROVE  Add(a, e) \in Seq(S)
  BY DEF Add

LEMMA CatAssociative ==
  ASSUME NEW S, NEW a \in Seq(S), NEW b \in Seq(S), NEW c \in Seq(S)
  PROVE  Cat(Cat(a, b), c) = Cat(a, Cat(b, c))
  BY ConcatAssociative DEF Cat

LEMMA AddToCat ==
  ASSUME NEW S, NEW a \in Seq(S), NEW b \in Seq(S), NEW e \in S
  PROVE  Add(Cat(a, b), e) = Cat(a, Add(b, e))
  BY DEF Cat, Add

LEMMA HeadOff ==
  ASSUME NEW S, NEW b \in Seq(S), b # <<>>
  PROVE  Foremost(b) \in S /\ Rest(b) \in Seq(S) /\ b = Cat(One(Foremost(b)), Rest(b))
  BY DEF Cat, One, Foremost, Rest

LEMMA HeadOfCat ==
  ASSUME NEW S, NEW a \in Seq(S), NEW b \in Seq(S), a # <<>>
  PROVE  Cat(a, b) # <<>> /\ Foremost(Cat(a, b)) = Foremost(a) /\ Rest(Cat(a, b)) = Cat(Rest(a), b)
  BY DEF Cat, Foremost, Rest

LEMMA AddAssociative ==
  ASSUME NEW S, NEW a \in Seq(S), NEW b \in Seq(S), NEW c \in Seq(S), NEW e \in S
  PROVE  Cat(Cat(a, Add(b, e)), c) = Cat(a, Cat(Add(b, e), c))
  BY AddType, CatAssociative

LEMMA HeadMoves ==
  ASSUME NEW S, NEW a \in Seq(S), NEW b \in Seq(S), b # <<>>
  PROVE  Cat(Add(a, Foremost(b)), Rest(b)) = Cat(a, b)
  BY DEF Cat, Add, Foremost, Rest

LEMMA MoveHead ==
  ASSUME NEW S, NEW a \in Seq(S), NEW b \in Seq(S), NEW c \in Seq(S), c # <<>>
  PROVE  Cat(Cat(a, Add(b, Foremost(c))), Rest(c)) = Cat(Cat(a, b), c)
<1>1. Foremost(c) \in S /\ Rest(c) \in Seq(S)
  BY HeadOff
<1>2. Cat(Cat(a, Add(b, Foremost(c))), Rest(c)) = Cat(a, Cat(Add(b, Foremost(c)), Rest(c)))
  BY <1>1, AddAssociative
<1>3. Cat(Add(b, Foremost(c)), Rest(c)) = Cat(b, c)
  BY HeadMoves
<1>4. Cat(Cat(a, b), c) = Cat(a, Cat(b, c))
  BY CatAssociative
<1> QED
  BY <1>2, <1>3, <1>4

LEMMA SplitConcat ==
  ASSUME NEW S, NEW a \in Seq(S), NEW b \in Seq(S)
  PROVE  SubSeq(a \o b, 1, Len(a)) = a /\ SubSeq(a \o b, Len(a) + 1, Len(a \o b)) = b
<1> DEFINE t == a \o b
<1>1. /\ t \in Seq(S) /\ Len(t) = Len(a) + Len(b) /\ Len(a) \in Nat /\ Len(b) \in Nat
      /\ \A k \in 1 .. Len(a) + Len(b) : t[k] = IF k <= Len(a) THEN a[k] ELSE b[k - Len(a)]
  BY ConcatProperties, LenProperties
<1>2. \A k \in 1 .. Len(t) : t[k] \in S
  BY <1>1, ElementOfSeq
<1>3. SubSeq(t, 1, Len(a)) = a
  <2>1. /\ SubSeq(t, 1, Len(a)) \in Seq(S) /\ Len(SubSeq(t, 1, Len(a))) = Len(a)
        /\ \A k \in 1 .. Len(a) : SubSeq(t, 1, Len(a))[k] = t[k]
    <3> HIDE DEF t
    <3> QED
      BY <1>1, <1>2, SubSeqProperties
  <2>2. \A k \in 1 .. Len(a) : SubSeq(t, 1, Len(a))[k] = a[k]
    <3> HIDE DEF t
    <3> QED
      BY <1>1, <2>1
  <2> QED
    BY <2>1, <2>2, SeqEqual
<1>4. SubSeq(t, Len(a) + 1, Len(t)) = b
  <2>1. /\ SubSeq(t, Len(a) + 1, Len(t)) \in Seq(S) /\ Len(SubSeq(t, Len(a) + 1, Len(t))) = Len(b)
        /\ \A k \in 1 .. Len(b) : SubSeq(t, Len(a) + 1, Len(t))[k] = t[Len(a) + k]
    <3> HIDE DEF t
    <3> QED
      BY <1>1, <1>2, SubSeqProperties
  <2>2. \A k \in 1 .. Len(b) : SubSeq(t, Len(a) + 1, Len(t))[k] = b[k]
    <3> HIDE DEF t
    <3> QED
      BY <1>1, <2>1
  <2> QED
    BY <2>1, <2>2, SeqEqual
<1> QED
  BY <1>3, <1>4

LEMMA LoseMiddle ==
  ASSUME NEW S, NEW a \in Seq(S), NEW b \in Seq(S), NEW c \in Seq(S),
         NEW s, s = Cat(Cat(a, b), c)
  PROVE  Shorter(s, Cat(a, c))
<1>a. s = (a \o b) \o c /\ s = a \o (b \o c)
  BY ConcatAssociative DEF Cat
<1>b. /\ a \o b \in Seq(S) /\ Len(a \o b) = Len(a) + Len(b)
      /\ Len(a) \in Nat /\ Len(b) \in Nat /\ Len(c) \in Nat
  BY ConcatProperties, LenProperties
<1>c. b \o c \in Seq(S)
  BY ConcatProperties
<1>d. Len(s) = Len(a) + Len(b) + Len(c)
  <2>1. Len((a \o b) \o c) = Len(a \o b) + Len(c)
    BY <1>b, ConcatProperties
  <2> QED
    BY <1>a, <1>b, <2>1
<1>1. /\ a \o b \in Seq(S) /\ b \o c \in Seq(S) /\ s = a \o (b \o c) /\ s = (a \o b) \o c
      /\ Len(a \o b) = Len(a) + Len(b) /\ Len(s) = Len(a) + Len(b) + Len(c)
      /\ Len(a) \in Nat /\ Len(b) \in Nat /\ Len(c) \in Nat
  BY <1>a, <1>b, <1>c, <1>d
<1>2. SubSeq(s, 1, Len(a)) = a
  BY <1>1, SplitConcat
<1>3. SubSeq(s, Len(a \o b) + 1, Len(s)) = c
  BY <1>1, SplitConcat
<1> DEFINE i == Len(a)
           j == Len(a \o b)
<1>4. i \in 0 .. Len(s) /\ j \in i .. Len(s)
  BY <1>1
<1>5. a \o c = SubSeq(s, 1, i) \o SubSeq(s, j + 1, Len(s))
  BY <1>2, <1>3
<1> HIDE DEF i, j
<1> QED
  BY <1>4, <1>5 DEF Shorter, Cat

LEMMA LoseOne ==
  ASSUME NEW S, NEW a \in Seq(S), NEW b \in Seq(S), NEW e \in S
  PROVE  Shorter(Cat(a, Cat(One(e), b)), Cat(a, b))
<1>1. One(e) \in Seq(S)
  BY DEF One
<1>2. Cat(Cat(a, One(e)), b) = Cat(a, Cat(One(e), b))
  BY <1>1, CatAssociative
<1>3. Shorter(Cat(Cat(a, One(e)), b), Cat(a, b))
  BY <1>1, LoseMiddle
<1> QED
  BY <1>2, <1>3

LEMMA LoseHead ==
  ASSUME NEW S, NEW a \in Seq(S), NEW b \in Seq(S), b # <<>>
  PROVE  Shorter(Cat(a, b), Cat(a, Rest(b)))
<1>1. Foremost(b) \in S /\ Rest(b) \in Seq(S) /\ b = Cat(One(Foremost(b)), Rest(b))
  BY HeadOff
<1>2. Shorter(Cat(a, Cat(One(Foremost(b)), Rest(b))), Cat(a, Rest(b)))
  BY <1>1, LoseOne
<1> QED
  BY <1>1, <1>2

LEMMA LoseInside ==
  ASSUME NEW S, NEW a \in Seq(S), NEW b \in Seq(S), NEW c \in Seq(S), b # <<>>
  PROVE  Shorter(Cat(Cat(a, b), c), Cat(Cat(a, Rest(b)), c))
<1>1. Foremost(b) \in S /\ Rest(b) \in Seq(S) /\ b = Cat(One(Foremost(b)), Rest(b))
  BY HeadOff
<1>2. Cat(b, c) \in Seq(S) /\ Cat(b, c) # <<>> /\ Rest(Cat(b, c)) = Cat(Rest(b), c)
  BY CatType, HeadOfCat
<1>3. Shorter(Cat(a, Cat(b, c)), Cat(a, Rest(Cat(b, c))))
  BY <1>2, LoseHead
<1>4. Cat(Cat(a, b), c) = Cat(a, Cat(b, c)) /\ Cat(Cat(a, Rest(b)), c) = Cat(a, Cat(Rest(b), c))
  BY <1>1, CatAssociative
<1> QED
  BY <1>2, <1>3, <1>4

LEMMA LoseFirst ==
  ASSUME NEW S, NEW a \in Seq(S), NEW b \in Seq(S)
  PROVE  Shorter(Cat(a, b), b)
<1>1. <<>> \in Seq(S) /\ Cat(<<>>, a) = a /\ Cat(<<>>, b) = b
  BY ConcatEmptySeq, EmptySeq DEF Cat
<1>2. Shorter(Cat(Cat(<<>>, a), b), Cat(<<>>, b))
  BY <1>1, LoseMiddle
<1> QED
  BY <1>1, <1>2

-----------------------------------------------------------------------------
Drained(q, r, f) == Cat(Cat(q, r), f)

LEMMA PipelineParts ==
  /\ Pipeline = Drained(s_rxq, s_rx_ring, fifo)
  /\ Pipeline' = Drained(s_rxq', s_rx_ring', fifo')
  BY DEF Pipeline, Drained, Cat

LEMMA ChannelOps ==
  /\ Shorter(Pipeline, Pipeline') /\ UNCHANGED taken => Channel!Lose
  /\ \A f \in Frames : Pipeline' = Add(Pipeline, f) /\ UNCHANGED taken => Channel!Put
  BY DEF Channel!Lose, Channel!Put, Shorter, Add

LEMMA NoFrameApart == NoFrame \notin Frames
  BY DEF NoFrame, Frames, Kinds

LEMMA ChannelInit == CanInit => Channel!Init
<1> SUFFICES ASSUME CanInit PROVE Pipeline = <<>> /\ taken \notin Frames
  BY DEF Channel!Init
<1> QED
  BY NoFrameApart DEF CanInit, Pipeline

(* Putting a frame in the controller's FIFO; one that finds it full is gone. *)
LEMMA ChannelBusFrame ==
  ASSUME BufferInv, NEW kind \in Kinds, NEW probe \in BOOLEAN, BusFrame(kind, probe)
  PROVE  Channel!Put \/ UNCHANGED <<Pipeline, taken>>
<1>0. \E f \in Frames : f = [kind |-> kind, probe |-> probe]
  BY DEF Frames
<1>a. PICK f \in Frames : f = [kind |-> kind, probe |-> probe]
  BY <1>0
<1>1. CASE fifo' = Add(fifo, f) /\ UNCHANGED <<s_rxq, s_rx_ring, taken>>
  <2>1. Cat(s_rxq, s_rx_ring) \in Seq(Frames)
    BY CatType DEF BufferInv
  <2>2. Add(Cat(Cat(s_rxq, s_rx_ring), fifo), f) = Cat(Cat(s_rxq, s_rx_ring), Add(fifo, f))
    BY <1>a, <2>1, AddToCat DEF BufferInv
  <2> QED
    BY <1>a, <1>1, <2>2, ChannelOps, PipelineParts DEF Drained
<1>2. CASE UNCHANGED <<fifo, s_rxq, s_rx_ring, taken>>
  BY <1>2, PipelineParts
<1> QED
  BY <1>a, <1>1, <1>2 DEF BusFrame, Add

(* The interrupt moves the oldest frame of the FIFO, or drops it.           *)
LEMMA ChannelReceive ==
  ASSUME BufferInv, IsrReceive
  PROVE  Channel!Lose \/ UNCHANGED <<Pipeline, taken>>
<1>1. fifo # <<>> /\ fifo' = Rest(fifo) /\ UNCHANGED <<s_rxq, taken>>
  BY DEF IsrReceive, Rest
<1>2. Foremost(fifo) \in Frames /\ Rest(fifo) \in Seq(Frames) /\ Cat(s_rxq, s_rx_ring) \in Seq(Frames)
  BY <1>1, HeadOff, CatType DEF BufferInv
<1>3. CASE s_rx_ring' = Add(s_rx_ring, Foremost(fifo))
  <2>1. Drained(s_rxq, Add(s_rx_ring, Foremost(fifo)), Rest(fifo)) = Drained(s_rxq, s_rx_ring, fifo)
    BY <1>1, MoveHead DEF BufferInv, Drained
  <2> QED
    BY <1>1, <1>3, <2>1, PipelineParts
<1>4. CASE s_rx_ring' = s_rx_ring
  <2>1. Shorter(Cat(Cat(s_rxq, s_rx_ring), fifo), Cat(Cat(s_rxq, s_rx_ring), Rest(fifo)))
    BY <1>1, <1>2, LoseHead DEF BufferInv
  <2> QED
    BY <1>1, <1>4, <2>1, ChannelOps, PipelineParts DEF Drained
<1> QED
  BY <1>3, <1>4 DEF IsrReceive, Add, Foremost

(* The poll moves the oldest frame of the ring, or drops it.                *)
LEMMA ChannelPoll ==
  ASSUME BufferInv, Poll
  PROVE  Channel!Lose \/ UNCHANGED <<Pipeline, taken>>
<1>1. CASE s_rx_ring = <<>>
  BY <1>1, PipelineParts DEF Poll, busVars
<1>2. CASE s_rx_ring # <<>>
  <2>1. s_rx_ring' = Rest(s_rx_ring) /\ UNCHANGED <<fifo, taken>>
    BY <1>2 DEF Poll, busVars, Rest
  <2>2. Rest(s_rx_ring) \in Seq(Frames)
    BY <1>2, HeadOff DEF BufferInv
  <2>3. CASE s_rxq' = Add(s_rxq, Foremost(s_rx_ring))
    <3>1. Cat(Add(s_rxq, Foremost(s_rx_ring)), Rest(s_rx_ring)) = Cat(s_rxq, s_rx_ring)
      BY <1>2, HeadMoves DEF BufferInv
    <3> QED
      BY <2>1, <2>3, <3>1, PipelineParts DEF Drained
  <2>4. CASE s_rxq' = s_rxq
    <3>1. Shorter(Drained(s_rxq, s_rx_ring, fifo), Drained(s_rxq, Rest(s_rx_ring), fifo))
      BY <1>2, LoseInside DEF BufferInv, Drained
    <3> QED
      BY <2>1, <2>4, <3>1, ChannelOps, PipelineParts
  <2> QED
    BY <1>2, <2>3, <2>4 DEF Poll, Add, Foremost
<1> QED
  BY <1>1, <1>2

(* A step of the service takes the oldest frame, or is done with the last.   *)
LEMMA ChannelProcess ==
  ASSUME BufferInv, ProcessRx
  PROVE  Channel!Get \/ Channel!Forget
<1>1. UNCHANGED <<s_rx_ring, fifo>>
  BY DEF ProcessRx, busVars
<1>2. CASE taken' = NoFrame /\ s_rxq' = s_rxq
  BY <1>1, <1>2, NoFrameApart, PipelineParts DEF Channel!Forget
<1>3. CASE s_rxq # <<>> /\ taken' = Foremost(s_rxq) /\ s_rxq' = Rest(s_rxq)
  <2>1. Cat(s_rxq, s_rx_ring) \in Seq(Frames)
    BY CatType DEF BufferInv
  <2>2. /\ Cat(s_rxq, s_rx_ring) # <<>> /\ Foremost(Cat(s_rxq, s_rx_ring)) = Foremost(s_rxq)
        /\ Rest(Cat(s_rxq, s_rx_ring)) = Cat(Rest(s_rxq), s_rx_ring)
    BY <1>3, HeadOfCat DEF BufferInv
  <2>3. /\ Cat(Cat(s_rxq, s_rx_ring), fifo) # <<>>
        /\ Foremost(Cat(Cat(s_rxq, s_rx_ring), fifo)) = Foremost(s_rxq)
        /\ Rest(Cat(Cat(s_rxq, s_rx_ring), fifo)) = Cat(Cat(Rest(s_rxq), s_rx_ring), fifo)
    BY <2>1, <2>2, HeadOfCat DEF BufferInv
  <2> QED
    BY <1>1, <1>3, <2>3, PipelineParts DEF Drained, Channel!Get, Foremost, Rest
<1> QED
  BY <1>2, <1>3 DEF ProcessRx, Foremost, Rest

(* Clearing the ring after a bus-off, or the queue at the start.            *)
LEMMA ChannelClear ==
  ASSUME BufferInv, IsrExit \/ ServiceInit \/ ServiceDrain
  PROVE  Channel!Lose \/ UNCHANGED <<Pipeline, taken>>
<1>0. /\ UNCHANGED <<fifo, taken>> /\ <<>> \in Seq(Frames)
      /\ \/ s_rxq' = s_rxq /\ s_rx_ring' = s_rx_ring
         \/ s_rxq' = s_rxq /\ s_rx_ring' = <<>>
         \/ s_rxq' = <<>> /\ s_rx_ring' = s_rx_ring
         \/ s_rxq' = s_rxq /\ s_rx_ring # <<>> /\ s_rx_ring' = Rest(s_rx_ring)
  <2>1. <<>> \in Seq(Frames)
    BY EmptySeq
  <2> QED
    BY <2>1 DEF IsrExit, ServiceInit, ServiceDrain, busVars, Rest
<1>1. CASE s_rxq' = s_rxq /\ s_rx_ring' = s_rx_ring
  BY <1>0, <1>1, PipelineParts
<1>2. CASE s_rxq' = s_rxq /\ s_rx_ring' = <<>>
  <2>1. Cat(s_rxq, <<>>) = s_rxq
    BY ConcatEmptySeq DEF Cat, BufferInv
  <2>2. Shorter(Cat(Cat(s_rxq, s_rx_ring), fifo), Cat(s_rxq, fifo))
    BY LoseMiddle DEF BufferInv
  <2> QED
    BY <1>0, <1>2, <2>1, <2>2, ChannelOps, PipelineParts DEF Drained
<1>3. CASE s_rxq' = <<>> /\ s_rx_ring' = s_rx_ring
  <2>1. Cat(<<>>, s_rx_ring) = s_rx_ring
    BY ConcatEmptySeq DEF Cat, BufferInv
  <2>2. Cat(Cat(s_rxq, s_rx_ring), fifo) = Cat(s_rxq, Cat(s_rx_ring, fifo))
    BY CatAssociative DEF BufferInv
  <2>3. Cat(s_rx_ring, fifo) \in Seq(Frames)
    BY CatType DEF BufferInv
  <2>4. Shorter(Cat(s_rxq, Cat(s_rx_ring, fifo)), Cat(s_rx_ring, fifo))
    BY <2>3, LoseFirst DEF BufferInv
  <2> QED
    BY <1>0, <1>3, <2>1, <2>2, <2>4, ChannelOps, PipelineParts DEF Drained
<1>4. CASE s_rxq' = s_rxq /\ s_rx_ring # <<>> /\ s_rx_ring' = Rest(s_rx_ring)
  <2>1. Shorter(Drained(s_rxq, s_rx_ring, fifo), Drained(s_rxq, Rest(s_rx_ring), fifo))
    BY <1>4, LoseInside DEF BufferInv, Drained
  <2> QED
    BY <1>0, <1>4, <2>1, ChannelOps, PipelineParts
<1> QED
  BY <1>0, <1>1, <1>2, <1>3, <1>4

LEMMA ChannelStep ==
  BufferInv /\ [CanNext]_canVars => [Channel!Next]_<<Pipeline, taken>>
<1> SUFFICES ASSUME BufferInv, [CanNext]_canVars
             PROVE  Channel!Next \/ UNCHANGED <<Pipeline, taken>>
  OBVIOUS
<1> USE DEF Channel!Next
<1>1. ASSUME NEW kind \in Kinds, NEW probe \in BOOLEAN, BusFrame(kind, probe)
      PROVE  Channel!Put \/ UNCHANGED <<Pipeline, taken>>
  BY <1>1, ChannelBusFrame
<1>2. CASE BusOff \/ IsrEnter \/ StepBegin \/ WatchdogRead \/ WatchdogDecide \/ WatchdogFire
           \/ TerminalFeeds \/ TerminalBlocks \/ Tick
  BY <1>2, PipelineParts DEF BusOff, IsrEnter, StepBegin, WatchdogRead, WatchdogDecide,
     WatchdogFire, TerminalFeeds, TerminalBlocks, Tick, busVars
<1>3. CASE UNCHANGED canVars
  BY <1>3, PipelineParts DEF canVars, busVars
<1> QED
  BY <1>1, <1>2, <1>3, ChannelReceive, ChannelPoll, ChannelProcess, ChannelClear DEF CanNext

(* Frames are executed in the order in which they came, none of them twice,  *)
(* for any sizes of FIFO, ring, queue and budget, whatever the three drop    *)
(* and a bus-off or the start of the service clears                         *)
(* (app_can_service.c:92, drv_mcan.c).                                      *)
THEOREM FramesAlwaysInOrder == CanSpec => FramesInOrder
<1> QED
  BY BufferInit, BufferStep, ChannelInit, ChannelStep, PTL
  DEF CanSpec, FramesInOrder, Channel!Spec

(***************************************************************************)
(* How old a command can be when it is executed.                           *)
(***************************************************************************)
(* Periods until the task begins its next step, at most, and the frames that  *)
(* it may take before that.                                                *)
Wait ==
    IF can_pc \in {"poll", "rx"} THEN 0
    ELSE IF can_pc = "idle" /\ ~stepped THEN blocked ELSE 1 + BlockMax
Room == IF can_pc = "rx" THEN RxBudget - rx_done ELSE RxBudget

(* A frame at i, of this age when the next step begins, is taken in that step *)
(* or in the m-th after it.                                                *)
InTime(queue, room, age) ==
    \A i \in DOMAIN queue :
        queue[i].probe => \E m \in 0 .. StepsToServe - 1 :
                             /\ i <= room + m * RxBudget
                             /\ age + m * (BlockMax + 1) <= AgeMax

(* What waits in the ring has waited for this step; when the task has emptied *)
(* it, only what came since is there.                                      *)
RingLimit ==
    IF can_pc = "poll" \/ (can_pc = "idle" /\ ~stepped) THEN BlockMax + 1 - Wait ELSE 0

StandInv ==
    /\ probe_age \in Nat /\ rx_done \in 0 .. RxBudget /\ Len(s_rxq) <= QueueSize - 1
    /\ can_pc \in {"wd_stamp", "wd_fire"} => stepped
    /\ can_pc \in {"boot", "drain"} => s_rxq = <<>>
FifoFresh == Probed(fifo) => probe_age = 0
RingFresh == can_pc \notin {"boot", "drain"} /\ Probed(s_rx_ring) => probe_age <= RingLimit
QueueFresh == InTime(s_rxq, Room, probe_age + Wait)
ServedSoon ==
    fifo # <<>> => "NEW_MSG" \in flags \/ (isr = "receive" /\ "NEW_MSG" \in isr_events)

FreshInv == StandInv /\ FifoFresh /\ RingFresh /\ QueueFresh /\ ServedSoon

LEMMA StepsEnough ==
    /\ StepsToServe \in Nat \ {0} /\ RxBudget \in Nat \ {0} /\ BlockMax \in Nat
    /\ QueueSize \in Nat /\ QueueSize - 1 <= StepsToServe * RxBudget
    /\ AgeMax = StepsToServe * (BlockMax + 1)
<1>1. RxBudget \in Nat \ {0} /\ BlockMax \in Nat /\ QueueSize \in Nat \ {0, 1}
    BY CanAssumption
<1>2. ASSUME NEW b \in Nat \ {0}, NEW q \in Nat \ {0}
      PROVE  /\ (q + b - 1) \div b \in Nat \ {0}
             /\ q <= ((q + b - 1) \div b) * b
    OBVIOUS
<1>3. /\ StepsToServe \in Nat \ {0}
      /\ QueueSize - 1 <= StepsToServe * RxBudget
    BY <1>1, <1>2 DEF StepsToServe
<1> QED
    BY <1>1, <1>3 DEF AgeMax

LEMMA ProbedTail ==
    ASSUME NEW s \in Seq(Frames), s # <<>>
    PROVE  /\ Probed(Tail(s)) => Probed(s)
           /\ Head(s).probe => Probed(s)
<1>1. /\ Len(s) \in Nat /\ Len(s) >= 1 /\ Len(Tail(s)) = Len(s) - 1 /\ Head(s) = s[1]
      /\ \A i \in 1 .. Len(s) - 1 : Tail(s)[i] = s[i + 1] /\ i + 1 \in 1 .. Len(s)
      /\ DOMAIN s = 1 .. Len(s) /\ DOMAIN Tail(s) = 1 .. Len(s) - 1
    OBVIOUS
<1> QED
    BY <1>1 DEF Probed

LEMMA ProbedAppend ==
    ASSUME NEW s \in Seq(Frames), NEW f \in Frames
    PROVE  Probed(Append(s, f)) => Probed(s) \/ f.probe
<1>1. /\ Len(s) \in Nat /\ DOMAIN s = 1 .. Len(s) /\ DOMAIN Append(s, f) = 1 .. Len(s) + 1
      /\ Append(s, f)[Len(s) + 1] = f /\ \A i \in 1 .. Len(s) : Append(s, f)[i] = s[i]
    OBVIOUS
<1>2. ASSUME NEW i \in 1 .. Len(s) + 1, Append(s, f)[i].probe, ~f.probe
      PROVE  i \in 1 .. Len(s) /\ s[i].probe
    BY <1>1, <1>2
<1> QED
    BY <1>1, <1>2 DEF Probed

LEMMA ProbedParts ==
    ASSUME BufferInv
    PROVE  Probed(Pipeline) <=> Probed(s_rxq) \/ Probed(s_rx_ring) \/ Probed(fifo)
<1>1. ASSUME NEW s \in Seq(Frames), NEW t \in Seq(Frames)
      PROVE  Probed(s \o t) <=> Probed(s) \/ Probed(t)
    <2>1. /\ s \o t \in Seq(Frames) /\ Len(s \o t) = Len(s) + Len(t)
          /\ \A i \in 1 .. Len(s) + Len(t) :
                (s \o t)[i] = IF i <= Len(s) THEN s[i] ELSE t[i - Len(s)]
        BY ConcatProperties
    <2>2. /\ Len(s) \in Nat /\ Len(t) \in Nat /\ DOMAIN s = 1 .. Len(s) /\ DOMAIN t = 1 .. Len(t)
          /\ DOMAIN (s \o t) = 1 .. Len(s) + Len(t)
        BY <2>1
    <2>3. ASSUME NEW i \in 1 .. Len(s) + Len(t), (s \o t)[i].probe
          PROVE  Probed(s) \/ Probed(t)
        <3>1. CASE i <= Len(s)
            BY <2>1, <2>2, <2>3, <3>1 DEF Probed
        <3>2. CASE i > Len(s)
            <4>1. i - Len(s) \in 1 .. Len(t)
                BY <2>2, <3>2
            <4> QED
                BY <2>1, <2>2, <2>3, <3>2, <4>1 DEF Probed
        <3> QED
            BY <3>1, <3>2, <2>2
    <2>4. ASSUME NEW i \in 1 .. Len(s), s[i].probe
          PROVE  i \in 1 .. Len(s) + Len(t) /\ (s \o t)[i].probe
        BY <2>1, <2>2, <2>4
    <2>5. ASSUME NEW i \in 1 .. Len(t), t[i].probe
          PROVE  \E k \in 1 .. Len(s) + Len(t) : (s \o t)[k].probe
        <3>1. PICK k \in 1 .. Len(s) + Len(t) : k = Len(s) + i /\ k > Len(s) /\ k - Len(s) = i
            BY <2>2
        <3> QED
            BY <2>1, <2>2, <2>5, <3>1
    <2> QED
        BY <2>2, <2>3, <2>4, <2>5 DEF Probed
<1>2. s_rxq \o s_rx_ring \in Seq(Frames)
    BY ConcatProperties DEF BufferInv
<1> QED
    BY <1>1, <1>2 DEF BufferInv, Pipeline

LEMMA InTimeSooner ==
    ASSUME NEW q \in Seq(Frames), NEW room \in Int, NEW age \in Int, NEW more \in Int,
           NEW less \in Int, InTime(q, room, age), room <= more, less <= age
    PROVE  InTime(q, more, less)
<1>1. ASSUME NEW i \in DOMAIN q, q[i].probe
      PROVE  \E m \in 0 .. StepsToServe - 1 :
                i <= more + m * RxBudget /\ less + m * (BlockMax + 1) <= AgeMax
    <2>1. PICK m \in 0 .. StepsToServe - 1 :
            i <= room + m * RxBudget /\ age + m * (BlockMax + 1) <= AgeMax
        BY <1>1 DEF InTime
    <2>2. m \in Nat /\ m * RxBudget \in Nat /\ m * (BlockMax + 1) \in Nat /\ AgeMax \in Nat /\ i \in Nat
        BY StepsEnough
    <2>3. \A a, b \in Nat : i <= room + a /\ age + b <= AgeMax => i <= more + a /\ less + b <= AgeMax
        BY <2>2
    <2> QED
        BY <2>1, <2>2, <2>3
<1> QED
    BY <1>1 DEF InTime

(* A frame that is taken moves the others up by one.                        *)
LEMMA InTimeTaken ==
    ASSUME NEW q \in Seq(Frames), q # <<>>, NEW room \in Int, NEW age \in Int,
           InTime(q, room, age)
    PROVE  InTime(Tail(q), room - 1, age)
<1>1. /\ Len(q) \in Nat /\ DOMAIN Tail(q) = 1 .. Len(q) - 1 /\ DOMAIN q = 1 .. Len(q)
      /\ \A i \in 1 .. Len(q) - 1 : Tail(q)[i] = q[i + 1] /\ i + 1 \in 1 .. Len(q)
    OBVIOUS
<1>2. ASSUME NEW i \in 1 .. Len(q) - 1, Tail(q)[i].probe
      PROVE  \E m \in 0 .. StepsToServe - 1 :
                i <= room - 1 + m * RxBudget /\ age + m * (BlockMax + 1) <= AgeMax
    <2>1. PICK m \in 0 .. StepsToServe - 1 :
            i + 1 <= room + m * RxBudget /\ age + m * (BlockMax + 1) <= AgeMax
        BY <1>1, <1>2 DEF InTime
    <2>2. m * RxBudget \in Nat
        BY StepsEnough
    <2>3. \A a \in Nat : i + 1 <= room + a => i <= room - 1 + a
        OBVIOUS
    <2> QED
        BY <2>1, <2>2, <2>3
<1> QED
    BY <1>1, <1>2 DEF InTime

(* A step that has used its budget leaves the rest to the next.              *)
LEMMA InTimeNext ==
    ASSUME NEW q \in Seq(Frames), NEW age \in Int, InTime(q, 0, age)
    PROVE  InTime(q, RxBudget, age + 1 + BlockMax)
<1>1. ASSUME NEW i \in DOMAIN q, q[i].probe
      PROVE  \E m \in 0 .. StepsToServe - 1 :
                /\ i <= RxBudget + m * RxBudget
                /\ age + 1 + BlockMax + m * (BlockMax + 1) <= AgeMax
    <2>1. PICK m \in 0 .. StepsToServe - 1 :
            i <= 0 + m * RxBudget /\ age + m * (BlockMax + 1) <= AgeMax
        BY <1>1 DEF InTime
    <2>2. i \in Nat /\ i >= 1
        OBVIOUS
    <2>3. m # 0
        BY <2>1, <2>2, StepsEnough
    <2>4. m - 1 \in 0 .. StepsToServe - 1
        BY <2>3, StepsEnough
    <2>5. \A b, c \in Nat : /\ c * b = b + (c - 1) * b
                            /\ c * (b + 1) = b + 1 + (c - 1) * (b + 1)
        OBVIOUS
    <2>6. /\ m * RxBudget = RxBudget + (m - 1) * RxBudget
          /\ m * (BlockMax + 1) = BlockMax + 1 + (m - 1) * (BlockMax + 1)
        BY <2>5, StepsEnough
    <2>7. (m - 1) * (BlockMax + 1) \in Nat /\ (m - 1) * RxBudget \in Nat /\ AgeMax \in Nat
        BY <2>4, StepsEnough
    <2>8. /\ i <= RxBudget + (m - 1) * RxBudget
          /\ age + 1 + BlockMax + (m - 1) * (BlockMax + 1) <= AgeMax
        BY <2>1, <2>6, <2>7, StepsEnough
    <2> QED
        BY <2>4, <2>8
<1> QED
    BY <1>1 DEF InTime

(* A frame that enters the queue is taken in time from wherever it is.       *)
LEMMA InTimeEntered ==
    ASSUME NEW q \in Seq(Frames), Len(q) < QueueSize - 1, NEW f \in Frames, NEW age \in Nat,
           InTime(q, RxBudget, age), f.probe => age <= BlockMax + 1
    PROVE  InTime(Append(q, f), RxBudget, age)
<1>1. /\ Len(q) \in Nat /\ DOMAIN q = 1 .. Len(q) /\ DOMAIN Append(q, f) = 1 .. Len(q) + 1
      /\ Append(q, f)[Len(q) + 1] = f /\ \A i \in 1 .. Len(q) : Append(q, f)[i] = q[i]
    OBVIOUS
<1>2. ASSUME NEW i \in 1 .. Len(q) + 1, Append(q, f)[i].probe
      PROVE  \E m \in 0 .. StepsToServe - 1 :
                i <= RxBudget + m * RxBudget /\ age + m * (BlockMax + 1) <= AgeMax
    <2>1. CASE i \in 1 .. Len(q)
        BY <1>1, <1>2, <2>1 DEF InTime
    <2>2. CASE i = Len(q) + 1
        <3> DEFINE m == StepsToServe - 1
        <3>1. m \in 0 .. StepsToServe - 1
            BY StepsEnough
        <3>2. \A b, c \in Nat : c * b = b + (c - 1) * b /\ c * (b + 1) = b + 1 + (c - 1) * (b + 1)
            OBVIOUS
        <3>3. /\ StepsToServe * RxBudget = RxBudget + m * RxBudget
              /\ AgeMax = BlockMax + 1 + m * (BlockMax + 1)
            BY <3>2, StepsEnough
        <3>4. m * RxBudget \in Nat /\ m * (BlockMax + 1) \in Nat
            BY <3>1, StepsEnough
        <3>5. age <= BlockMax + 1 /\ i <= QueueSize - 1
            BY <1>1, <1>2, <2>2, StepsEnough
        <3> HIDE DEF m
        <3>6. i <= RxBudget + m * RxBudget /\ age + m * (BlockMax + 1) <= AgeMax
            BY <3>3, <3>4, <3>5, StepsEnough
        <3> QED
            BY <3>1, <3>6
    <2> QED
        BY <2>1, <2>2, <1>1
<1> QED
    BY <1>1, <1>2 DEF InTime

LEMMA InTimeOther ==
    ASSUME NEW q, ~Probed(q), NEW room, NEW age
    PROVE  InTime(q, room, age)
BY DEF InTime, Probed

LEMMA FreshTypes ==
    ASSUME CInv, BufferInv, FreshInv
    PROVE  /\ Wait \in 0 .. BlockMax + 1 /\ Room \in 0 .. RxBudget /\ RingLimit \in 0 .. BlockMax + 1
           /\ probe_age \in Nat /\ blocked \in 0 .. BlockMax /\ BlockMax \in Nat
           /\ RxBudget \in Nat \ {0} /\ rx_done \in 0 .. RxBudget
BY StepsEnough DEF CInv, ClockInv, FreshInv, StandInv, Wait, Room, RingLimit

(* The bus and the interrupt: the task stands where it stood.               *)
LEMMA FreshIsr ==
    ASSUME CInv, BufferInv, FreshInv, UNCHANGED <<s_rxq, can_pc, rx_done, stepped, blocked>>,
           \/ BusOff \/ IsrEnter \/ IsrReceive \/ IsrExit \/ TerminalFeeds
           \/ \E kind \in Kinds, probe \in BOOLEAN : BusFrame(kind, probe)
    PROVE  FreshInv'
<1>1. Wait' = Wait /\ Room' = Room /\ RingLimit' = RingLimit /\ RingLimit >= 0
    BY FreshTypes DEF Wait, Room, RingLimit
<1>2. ASSUME probe_age' = probe_age
      PROVE  StandInv' /\ QueueFresh'
    BY <1>1, <1>2 DEF FreshInv, StandInv, QueueFresh
<1>3. CASE BusOff \/ IsrEnter \/ TerminalFeeds
    <2>1. UNCHANGED <<fifo, s_rx_ring, probe_age>>
        BY <1>3 DEF BusOff, IsrEnter, TerminalFeeds, busVars
    <2>2. ServedSoon'
        <3>1. CASE BusOff \/ TerminalFeeds
            BY <2>1, <3>1 DEF BusOff, TerminalFeeds, FreshInv, ServedSoon, isrVars, busVars
        <3>2. CASE IsrEnter
            BY <2>1, <3>2 DEF IsrEnter, FreshInv, ServedSoon
        <3> QED
            BY <1>3, <3>1, <3>2
    <2> QED
        BY <1>1, <1>2, <2>1, <2>2 DEF FreshInv, FifoFresh, RingFresh
<1>4. CASE IsrExit
    <2>1. UNCHANGED <<fifo, flags, probe_age>> /\ (s_rx_ring' = s_rx_ring \/ s_rx_ring' = <<>>)
          /\ ("NEW_MSG" \notin isr_events \/ fifo = <<>>)
        BY <1>4 DEF IsrExit, busVars
    <2>2. ServedSoon'
        BY <2>1 DEF FreshInv, ServedSoon
    <2>3. RingFresh'
        <3>1. ~Probed(<<>>)
            BY DEF Probed
        <3> QED
            BY <1>1, <2>1, <3>1 DEF FreshInv, RingFresh
    <2> QED
        BY <1>2, <2>1, <2>2, <2>3 DEF FreshInv, FifoFresh
<1>5. CASE IsrReceive
    <2>1. /\ fifo # <<>> /\ fifo' = Tail(fifo) /\ isr = "receive" /\ "NEW_MSG" \in isr_events
          /\ s_rx_ring' \in {s_rx_ring, Append(s_rx_ring, Head(fifo))}
          /\ UNCHANGED <<flags, isr, isr_events, probe_age>>
        BY <1>5 DEF IsrReceive, isrVars
    <2>2. fifo \in Seq(Frames) /\ s_rx_ring \in Seq(Frames) /\ Head(fifo) \in Frames
        BY <2>1 DEF BufferInv
    <2>3. /\ Probed(Tail(fifo)) => Probed(fifo)
          /\ Head(fifo).probe => Probed(fifo)
          /\ Probed(Append(s_rx_ring, Head(fifo))) => Probed(s_rx_ring) \/ Head(fifo).probe
        BY <2>1, <2>2, ProbedTail, ProbedAppend
    <2>4. ServedSoon'
        BY <2>1 DEF ServedSoon
    <2>5. FifoFresh'
        BY <2>1, <2>3 DEF FreshInv, FifoFresh
    <2>6. RingFresh'
        <3>1. Probed(s_rx_ring') => Probed(s_rx_ring) \/ probe_age = 0
            BY <2>1, <2>3 DEF FreshInv, FifoFresh
        <3> QED
            BY <1>1, <2>1, <3>1 DEF FreshInv, RingFresh
    <2> QED
        BY <1>2, <2>1, <2>4, <2>5, <2>6 DEF FreshInv
<1>6. ASSUME NEW kind \in Kinds, NEW probe \in BOOLEAN, BusFrame(kind, probe)
      PROVE  FreshInv'
    <2>1. s_rx_ring' = s_rx_ring
        BY <1>6 DEF BusFrame
    <2>2. CASE UNCHANGED <<fifo, flags, probe_age>>
        <3>1. ServedSoon'
            BY <1>6, <2>2 DEF BusFrame, isrVars, FreshInv, ServedSoon
        <3> QED
            BY <1>1, <1>2, <2>1, <2>2, <3>1 DEF FreshInv, FifoFresh, RingFresh
    <2>3. CASE /\ fifo' = Append(fifo, [kind |-> kind, probe |-> probe])
               /\ flags' = flags \cup {"NEW_MSG"}
               /\ probe_age' = IF probe THEN 0 ELSE probe_age
        <3> DEFINE f == [kind |-> kind, probe |-> probe]
        <3>1. f \in Frames /\ f.probe = probe
            BY DEF Frames
        <3> HIDE DEF f
        <3>2. Probed(fifo') => Probed(fifo) \/ probe
            BY <2>3, <3>1, ProbedAppend DEF BufferInv, f
        <3>3. ServedSoon' /\ FifoFresh'
            BY <2>3, <3>2 DEF FreshInv, ServedSoon, FifoFresh
        <3>4. CASE ~probe
            BY <1>1, <1>2, <2>1, <2>3, <3>3, <3>4 DEF FreshInv, RingFresh
        <3>5. CASE probe
            <4>1. ~Probed(s_rxq) /\ ~Probed(s_rx_ring) /\ probe_age' = 0
                BY <1>6, <2>3, <3>5, ProbedParts DEF BusFrame
            <4>2. QueueFresh'
                BY <4>1, InTimeOther DEF QueueFresh
            <4> QED
                BY <2>1, <3>3, <4>1, <4>2 DEF FreshInv, StandInv, RingFresh
        <3> QED
            BY <3>4, <3>5
    <2> QED
        BY <1>6, <2>2, <2>3 DEF BusFrame
<1> QED
    BY <1>3, <1>4, <1>5, <1>6

(* The task: what it leaves alone.                                         *)
LEMMA FreshTask ==
    ASSUME FreshInv, UNCHANGED <<busVars, isrVars, probe_age>>
    PROVE  FifoFresh' /\ ServedSoon'
BY DEF FreshInv, FifoFresh, ServedSoon, busVars, isrVars

LEMMA FreshService ==
    ASSUME CInv, BufferInv, FreshInv, ServiceInit \/ ServiceDrain \/ StepBegin
    PROVE  FreshInv'
<1>1. UNCHANGED <<busVars, isrVars, probe_age>>
    BY DEF ServiceInit, ServiceDrain, StepBegin
<1>2. FifoFresh' /\ ServedSoon'
    BY <1>1, FreshTask
<1>3. ~Probed(<<>>) /\ <<>> \in Seq(Frames) /\ Len(<<>>) = 0 /\ 0 <= QueueSize - 1
    BY CanAssumption DEF Probed
<1>4. CASE ServiceInit
    <2>1. s_rxq' = <<>> /\ can_pc' = "drain" /\ rx_done' = rx_done /\ probe_age' = probe_age
        BY <1>4 DEF ServiceInit
    <2>2. QueueFresh'
        BY <2>1, <1>3, InTimeOther DEF QueueFresh
    <2> QED
        BY <1>2, <1>3, <2>1, <2>2 DEF FreshInv, StandInv, RingFresh
<1>5. CASE ServiceDrain
    <2>1. /\ can_pc = "drain" /\ s_rxq = <<>> /\ s_rxq' = <<>> /\ rx_done' = rx_done
          /\ probe_age' = probe_age
          /\ \/ can_pc' = "drain"
             \/ can_pc' = "idle" /\ s_rx_ring' = <<>>
        BY <1>5 DEF ServiceDrain, FreshInv, StandInv
    <2>2. QueueFresh'
        BY <2>1, <1>3, InTimeOther DEF QueueFresh
    <2> QED
        BY <1>2, <1>3, <2>1, <2>2 DEF FreshInv, StandInv, RingFresh
<1>6. CASE StepBegin
    <2>1. /\ can_pc = "idle" /\ ~stepped /\ blocked = 0 /\ can_pc' = "poll" /\ rx_done' = rx_done
          /\ UNCHANGED <<s_rxq, s_rx_ring, probe_age>>
        BY <1>6 DEF StepBegin
    <2>2. Wait = 0 /\ Wait' = 0 /\ Room = RxBudget /\ Room' = RxBudget
          /\ RingLimit = BlockMax + 1 - 0 /\ RingLimit' = BlockMax + 1 - 0
        BY <2>1 DEF Wait, Room, RingLimit
    <2> QED
        BY <1>2, <2>1, <2>2 DEF FreshInv, StandInv, RingFresh, QueueFresh
<1> QED
    BY <1>4, <1>5, <1>6

LEMMA FreshPoll ==
    ASSUME CInv, BufferInv, FreshInv, Poll
    PROVE  FreshInv'
<1>1. UNCHANGED <<busVars, isrVars, probe_age, stepped, blocked>> /\ can_pc = "poll"
    BY DEF Poll
<1>2. FifoFresh' /\ ServedSoon'
    BY <1>1, FreshTask
<1>3. /\ probe_age \in Nat /\ Wait = 0 /\ Room = RxBudget /\ RingLimit = BlockMax + 1
      /\ RxBudget \in Nat /\ BlockMax \in Nat
    BY <1>1, StepsEnough DEF Wait, Room, RingLimit, FreshInv, StandInv
<1>4. InTime(s_rxq, RxBudget, probe_age) /\ (Probed(s_rx_ring) => probe_age <= BlockMax + 1)
    BY <1>1, <1>3 DEF FreshInv, QueueFresh, RingFresh
<1>5. CASE s_rx_ring = <<>>
    <2>1. can_pc' = "rx" /\ rx_done' = 0 /\ UNCHANGED <<s_rx_ring, s_rxq>>
        BY <1>5 DEF Poll
    <2>2. Wait' = 0 /\ Room' = RxBudget - 0
        BY <2>1 DEF Wait, Room
    <2>3. ~Probed(s_rx_ring')
        BY <2>1, <1>5 DEF Probed
    <2>4. probe_age + 0 = probe_age /\ RxBudget - 0 = RxBudget
        BY <1>3
    <2>5. QueueFresh'
        BY <1>1, <1>4, <2>1, <2>2, <2>4 DEF QueueFresh
    <2>6. 0 \in 0 .. RxBudget
        BY <1>3
    <2> QED
        BY <1>1, <1>2, <2>1, <2>3, <2>5, <2>6 DEF FreshInv, StandInv, RingFresh
<1>6. CASE s_rx_ring # <<>>
    <2>1. /\ can_pc' = "poll" /\ rx_done' = rx_done /\ s_rx_ring' = Tail(s_rx_ring)
          /\ s_rxq' = IF Len(s_rxq) = QueueSize - 1 THEN s_rxq ELSE Append(s_rxq, Head(s_rx_ring))
        BY <1>1, <1>6 DEF Poll
    <2>2. /\ s_rx_ring \in Seq(Frames) /\ s_rxq \in Seq(Frames) /\ Head(s_rx_ring) \in Frames
        BY <1>6 DEF BufferInv
    <2>3. /\ Probed(Tail(s_rx_ring)) => Probed(s_rx_ring)
          /\ Head(s_rx_ring).probe => Probed(s_rx_ring)
        BY <1>6, <2>2, ProbedTail
    <2>4. Wait' = 0 /\ Room' = RxBudget /\ RingLimit' = BlockMax + 1 - 0
        BY <2>1 DEF Wait, Room, RingLimit
    <2>5. RingFresh'
        BY <1>1, <1>3, <1>4, <2>1, <2>3, <2>4 DEF RingFresh
    <2>6. InTime(s_rxq', RxBudget, probe_age) /\ Len(s_rxq') <= QueueSize - 1
        <3>1. CASE Len(s_rxq) = QueueSize - 1
            BY <3>1, <2>1, <1>4, StepsEnough
        <3>2. CASE Len(s_rxq) # QueueSize - 1
            <4>1. Len(s_rxq) < QueueSize - 1
                BY <3>2, <2>2, StepsEnough DEF FreshInv, StandInv
            <4>2. s_rxq' = Append(s_rxq, Head(s_rx_ring))
                BY <3>2, <2>1
            <4>3. Len(Append(s_rxq, Head(s_rx_ring))) = Len(s_rxq) + 1
                BY <2>2
            <4>4. Head(s_rx_ring).probe => probe_age <= BlockMax + 1
                BY <1>4, <2>3
            <4>5. InTime(Append(s_rxq, Head(s_rx_ring)), RxBudget, probe_age)
                BY <4>1, <4>4, <2>2, <1>3, <1>4, InTimeEntered
            <4> QED
                BY <4>1, <4>2, <4>3, <4>5, <2>2, StepsEnough
        <3> QED
            BY <3>1, <3>2
    <2>7. QueueFresh'
        <3>1. probe_age + 0 = probe_age
            BY <1>3
        <3> QED
            BY <1>1, <2>4, <2>6, <3>1 DEF QueueFresh
    <2> QED
        BY <1>1, <1>2, <2>1, <2>5, <2>6, <2>7 DEF FreshInv, StandInv
<1> QED
    BY <1>5, <1>6

LEMMA FreshProcess ==
    ASSUME CInv, BufferInv, FreshInv, ProcessRx
    PROVE  FreshInv'
<1>1. UNCHANGED <<busVars, isrVars, probe_age, stepped, blocked, s_rx_ring>> /\ can_pc = "rx"
    BY DEF ProcessRx
<1>2. FifoFresh' /\ ServedSoon'
    BY <1>1, FreshTask
<1>3. /\ probe_age \in Nat /\ Wait = 0 /\ Room = RxBudget - rx_done /\ RingLimit = 0
      /\ RxBudget \in Nat /\ BlockMax \in Nat /\ rx_done \in 0 .. RxBudget /\ probe_age + 0 = probe_age
    BY <1>1, StepsEnough DEF Wait, Room, RingLimit, FreshInv, StandInv
<1>4. InTime(s_rxq, RxBudget - rx_done, probe_age) /\ (Probed(s_rx_ring) => probe_age <= 0)
    BY <1>1, <1>3 DEF FreshInv, QueueFresh, RingFresh
<1>5. CASE s_rxq = <<>> \/ rx_done = RxBudget
    <2>1. can_pc' = "wd" /\ rx_done' = 0 /\ s_rxq' = s_rxq
        BY <1>5 DEF ProcessRx
    <2>2. Wait' = 1 + BlockMax /\ Room' = RxBudget /\ RingLimit' = 0
        BY <2>1 DEF Wait, Room, RingLimit
    <2>3. InTime(s_rxq, RxBudget, probe_age + 1 + BlockMax)
        <3>1. CASE s_rxq = <<>>
            BY <3>1, InTimeOther DEF Probed
        <3>2. CASE rx_done = RxBudget
            <4>1. RxBudget - rx_done = 0
                BY <3>2, <1>3
            <4> QED
                BY <4>1, <1>3, <1>4, InTimeNext DEF BufferInv
        <3> QED
            BY <1>5, <3>1, <3>2
    <2>4. QueueFresh'
        <3>1. probe_age + (1 + BlockMax) = probe_age + 1 + BlockMax
            BY <1>3
        <3> QED
            BY <1>1, <2>1, <2>2, <2>3, <3>1 DEF QueueFresh
    <2>5. 0 \in 0 .. RxBudget
        BY <1>3
    <2> QED
        BY <1>1, <1>2, <1>4, <2>1, <2>2, <2>4, <2>5 DEF FreshInv, StandInv, RingFresh
<1>6. CASE ~(s_rxq = <<>> \/ rx_done = RxBudget)
    <2>1. can_pc' = "rx" /\ rx_done' = rx_done + 1 /\ s_rxq' = Tail(s_rxq) /\ s_rxq # <<>>
          /\ s_rxq \in Seq(Frames)
        BY <1>1, <1>6 DEF ProcessRx, BufferInv
    <2>2. rx_done + 1 \in 0 .. RxBudget
          /\ RxBudget - (rx_done + 1) = RxBudget - rx_done - 1
        BY <1>3, <1>6
    <2>3. Wait' = 0 /\ Room' = RxBudget - rx_done - 1 /\ RingLimit' = 0
        BY <2>1, <2>2 DEF Wait, Room, RingLimit
    <2>4. InTime(Tail(s_rxq), RxBudget - rx_done - 1, probe_age)
        <3>1. RxBudget - rx_done \in Int
            BY <1>3
        <3> QED
            BY <3>1, <1>3, <1>4, <2>1, InTimeTaken
    <2>5. QueueFresh'
        BY <1>1, <1>3, <2>1, <2>3, <2>4 DEF QueueFresh
    <2>6. Len(s_rxq') <= QueueSize - 1
        BY <2>1, StepsEnough DEF FreshInv, StandInv
    <2> QED
        BY <1>1, <1>2, <1>4, <2>1, <2>2, <2>3, <2>5, <2>6 DEF FreshInv, StandInv, RingFresh
<1> QED
    BY <1>5, <1>6

(* From its look at the clock to the next step the task takes no frame; the   *)
(* ring holds only what came since it was emptied.                         *)
LEMMA FreshWatchdog ==
    ASSUME CInv, BufferInv, FreshInv,
           WatchdogRead \/ WatchdogDecide \/ WatchdogFire \/ TerminalBlocks
    PROVE  FreshInv'
<1>1. /\ UNCHANGED <<busVars, isrVars, probe_age, s_rxq, s_rx_ring, rx_done>>
      /\ can_pc \in {"wd", "wd_stamp", "wd_fire"} \/ (can_pc = "idle" /\ stepped)
      /\ can_pc' \in {"wd_stamp", "wd_fire", "idle"} /\ stepped'
    BY DEF WatchdogRead, WatchdogDecide, WatchdogFire, TerminalBlocks, FreshInv, StandInv
<1>2. FifoFresh' /\ ServedSoon'
    BY <1>1, FreshTask
<1>3. /\ Wait = 1 + BlockMax /\ Wait' = 1 + BlockMax /\ Room = RxBudget /\ Room' = RxBudget
      /\ RingLimit = 0 /\ RingLimit' = 0
    BY <1>1 DEF Wait, Room, RingLimit
<1> QED
    BY <1>1, <1>2, <1>3 DEF FreshInv, StandInv, RingFresh, QueueFresh

LEMMA FreshTick ==
    ASSUME CInv, BufferInv, FreshInv, Tick
    PROVE  FreshInv'
<1>1. /\ UNCHANGED <<busVars, isrVars, s_rxq, s_rx_ring, rx_done, can_pc>>
      /\ can_pc = "boot" \/ (can_pc = "idle" /\ (stepped \/ blocked > 0))
      /\ blocked' = (IF stepped \/ blocked = 0 THEN blocked ELSE blocked - 1) /\ stepped' = FALSE
      /\ probe_age' \in {0, probe_age, probe_age + 1}
      /\ isr = "idle" /\ flags = {}
    BY DEF Tick
<1>2. /\ probe_age \in Nat /\ BlockMax \in Nat /\ blocked \in 0 .. BlockMax /\ probe_age' \in Nat
    BY <1>1, FreshTypes
<1>3. fifo = <<>> /\ fifo' = <<>>
    BY <1>1 DEF FreshInv, ServedSoon, busVars
<1>4. FifoFresh' /\ ServedSoon' /\ StandInv'
    BY <1>1, <1>2, <1>3 DEF FifoFresh, Probed, ServedSoon, FreshInv, StandInv
<1>5. CASE can_pc = "boot"
    <2>1. ~Probed(s_rxq')
        BY <1>1, <1>5 DEF FreshInv, StandInv, Probed
    <2>2. QueueFresh'
        BY <2>1, InTimeOther DEF QueueFresh
    <2> QED
        BY <1>1, <1>4, <1>5, <2>2 DEF FreshInv, RingFresh
<1>6. CASE can_pc = "idle" /\ (stepped \/ blocked > 0)
    <2> DEFINE age == probe_age'
               left == blocked'
    <2>1. /\ Wait' = left /\ Room = RxBudget /\ Room' = RxBudget
          /\ RingLimit' = BlockMax + 1 - left
        BY <1>1, <1>6 DEF Wait, Room, RingLimit
    <2>2. /\ stepped => Wait = 1 + BlockMax /\ RingLimit = 0 /\ left = blocked
          /\ ~stepped => Wait = blocked /\ RingLimit = BlockMax + 1 - blocked /\ left = blocked - 1
        BY <1>1, <1>2, <1>6 DEF Wait, RingLimit
    <2>3. age \in {0, probe_age, probe_age + 1} /\ age \in Nat
        BY <1>1, <1>2
    <2> HIDE DEF age, left
    <2>4. /\ age + left <= probe_age + Wait /\ age + left \in Int /\ probe_age + Wait \in Int
          /\ probe_age <= RingLimit => age <= BlockMax + 1 - left
        <3>1. CASE stepped
            BY <3>1, <2>2, <2>3, <1>2, <1>6
        <3>2. CASE ~stepped
            BY <3>2, <2>2, <2>3, <1>2, <1>6
        <3> QED
            BY <3>1, <3>2
    <2>5. InTime(s_rxq, RxBudget, age + left)
        <3>1. InTime(s_rxq, RxBudget, probe_age + Wait) /\ RxBudget \in Int /\ RxBudget <= RxBudget
            BY <2>1, StepsEnough DEF FreshInv, QueueFresh
        <3> QED
            BY <3>1, <2>4, InTimeSooner DEF BufferInv
    <2>6. QueueFresh'
        BY <1>1, <2>1, <2>5 DEF QueueFresh, age
    <2>7. RingFresh'
        BY <1>1, <1>6, <2>1, <2>4 DEF FreshInv, RingFresh, age
    <2> QED
        BY <1>4, <2>6, <2>7 DEF FreshInv
<1> QED
    BY <1>1, <1>5, <1>6

LEMMA FreshInit == CanInit => FreshInv
<1> SUFFICES ASSUME CanInit PROVE FreshInv
    OBVIOUS
<1>1. ~Probed(<<>>) /\ Len(<<>>) = 0 /\ 0 <= QueueSize - 1 /\ 0 \in 0 .. RxBudget
    BY CanAssumption DEF Probed
<1>2. QueueFresh
    BY <1>1, InTimeOther DEF CanInit, QueueFresh
<1> QED
    BY <1>1, <1>2 DEF CanInit, FreshInv, StandInv, FifoFresh, RingFresh, ServedSoon

LEMMA FreshStep ==
    ASSUME CInv, BufferInv, FreshInv, [CanNext]_canVars
    PROVE  FreshInv'
<1>1. CASE CanNext
    <2>1. BusOff \/ IsrEnter \/ IsrReceive \/ IsrExit \/ TerminalFeeds =>
            UNCHANGED <<s_rxq, can_pc, rx_done, stepped, blocked>>
        BY DEF BusOff, IsrEnter, IsrReceive, IsrExit, TerminalFeeds, taskVars
    <2>2. \A kind \in Kinds, probe \in BOOLEAN : BusFrame(kind, probe) =>
            UNCHANGED <<s_rxq, can_pc, rx_done, stepped, blocked>>
        BY DEF BusFrame, taskVars
    <2> QED
        BY <1>1, <2>1, <2>2, FreshIsr, FreshService, FreshPoll, FreshProcess, FreshWatchdog, FreshTick
           DEF CanNext
<1>2. CASE UNCHANGED canVars
    <2>1. Wait' = Wait /\ Room' = Room /\ RingLimit' = RingLimit
        BY <1>2 DEF canVars, taskVars, Wait, Room, RingLimit
    <2> QED
        BY <1>2, <2>1 DEF canVars, taskVars, busVars, isrVars, FreshInv, StandInv, FifoFresh, RingFresh,
                          QueueFresh, ServedSoon
<1> QED
    BY <1>1, <1>2

(* A command is executed within AgeMax periods of its arrival or never, for   *)
(* any sizes of FIFO, ring and queue, any budget and any time that a command   *)
(* of the terminal may block the task (app_can_service.c:256).        *)
THEOREM CommandsAlwaysFresh == CanSpec => []CommandsFresh
<1>1. CInv /\ BufferInv /\ FreshInv => CommandsFresh
    <2> SUFFICES ASSUME CInv, BufferInv, FreshInv, can_pc \notin {"boot", "drain"}, Probed(Pipeline)
                 PROVE  probe_age <= AgeMax
        BY DEF CommandsFresh
    <2>1. /\ Wait \in 0 .. BlockMax + 1 /\ RingLimit \in 0 .. BlockMax + 1 /\ probe_age \in Nat
        BY FreshTypes
    <2>2. BlockMax + 1 <= AgeMax /\ AgeMax \in Nat /\ BlockMax \in Nat
        <3>1. \A c \in Nat \ {0}, b \in Nat : b + 1 <= c * (b + 1) /\ c * (b + 1) \in Nat
            OBVIOUS
        <3> QED
            BY <3>1, StepsEnough
    <2>3. CASE Probed(fifo)
        BY <2>2, <2>3 DEF FreshInv, FifoFresh
    <2>4. CASE Probed(s_rx_ring)
        BY <2>1, <2>2, <2>4 DEF FreshInv, RingFresh
    <2>5. CASE Probed(s_rxq)
        <3>1. PICK m \in 0 .. StepsToServe - 1 : probe_age + Wait + m * (BlockMax + 1) <= AgeMax
            BY <2>5 DEF FreshInv, QueueFresh, InTime, Probed
        <3>2. m * (BlockMax + 1) \in Nat
            BY StepsEnough
        <3> QED
            BY <3>1, <3>2, <2>1, <2>2
    <2> QED
        BY <2>3, <2>4, <2>5, ProbedParts
<1>2. CanInit => CInv /\ BufferInv /\ FreshInv
    BY CInvInit, BufferInit, FreshInit
<1>3. CInv /\ BufferInv /\ FreshInv /\ [CanNext]_canVars => (CInv /\ BufferInv /\ FreshInv)'
    BY CInvStep, BufferStep, FreshStep
<1> QED
    BY <1>1, <1>2, <1>3, PTL DEF CanSpec

(***************************************************************************)
(* Types.                                                                  *)
(***************************************************************************)
Events == {"NEW_MSG", "BUS_OFF"}

SizeTypes == Len(fifo) <= FifoSize /\ Len(s_rx_ring) <= RingSize
ControllerTypes ==
    /\ flags \subseteq Events /\ isr_events \subseteq Events
    /\ on_bus \in BOOLEAN /\ isr \in {"idle", "receive"}
    /\ taken \in Frames \cup {NoFrame}
MarkTypes ==
    /\ s_wd_armed \in BOOLEAN /\ s_wd_fired \in BOOLEAN /\ raised \in BOOLEAN
    /\ late \in BOOLEAN /\ fed \in BOOLEAN /\ stepped \in BOOLEAN
AgeTypes == silence \in 0 .. SilenceCap /\ probe_age \in 0 .. AgeMax + 1

LEMMA SizeStep ==
    ASSUME BufferInv, SizeTypes, [CanNext]_canVars
    PROVE  SizeTypes'
<1> USE DEF SizeTypes
<1>1. /\ \A s \in Seq(Frames), f \in Frames : Len(Append(s, f)) = Len(s) + 1
      /\ \A s \in Seq(Frames) : s # <<>> => Head(s) \in Frames /\ Len(Tail(s)) = Len(s) - 1
      /\ \A s \in Seq(Frames) : Len(s) \in Nat
      /\ Len(<<>>) = 0 /\ FifoSize \in Nat \ {0} /\ RingSize \in Nat \ {0}
      /\ fifo \in Seq(Frames) /\ s_rx_ring \in Seq(Frames)
    BY CanAssumption, HeadTailProperties DEF BufferInv
<1>2. ASSUME NEW kind \in Kinds, NEW probe \in BOOLEAN, BusFrame(kind, probe)
      PROVE  SizeTypes'
  <2>1. [kind |-> kind, probe |-> probe] \in Frames
      BY DEF Frames
  <2> QED
      BY <1>1, <1>2, <2>1 DEF BusFrame
<1>3. CASE IsrReceive
    BY <1>1, <1>3 DEF IsrReceive
<1>4. CASE IsrExit
    BY <1>1, <1>4 DEF IsrExit, busVars
<1>5. CASE ServiceDrain \/ Poll
    BY <1>1, <1>5 DEF ServiceDrain, Poll, busVars
<1>6. CASE UNCHANGED <<fifo, s_rx_ring>>
    BY <1>6
<1> QED
    BY <1>2, <1>3, <1>4, <1>5, <1>6
       DEF CanNext, BusOff, IsrEnter, ServiceInit, StepBegin, ProcessRx, WatchdogRead,
           WatchdogDecide, WatchdogFire, TerminalFeeds, TerminalBlocks, Tick, canVars, busVars

LEMMA ControllerStep ==
    ASSUME BufferInv, ControllerTypes, [CanNext]_canVars
    PROVE  ControllerTypes'
<1> USE DEF ControllerTypes, Events
<1>1. CASE ProcessRx
  <2>1. s_rxq # <<>> => Head(s_rxq) \in Frames
      BY HeadTailProperties DEF BufferInv
  <2> QED
      BY <1>1, <2>1 DEF ProcessRx, isrVars, busVars
<1>2. CASE \E kind \in Kinds, probe \in BOOLEAN : BusFrame(kind, probe)
    BY <1>2 DEF BusFrame, isrVars
<1>3. CASE BusOff \/ IsrEnter \/ IsrReceive \/ IsrExit
    BY <1>3 DEF BusOff, IsrEnter, IsrReceive, IsrExit, isrVars, busVars
<1>4. CASE UNCHANGED <<flags, isr_events, on_bus, isr, taken>>
    BY <1>4
<1> QED
    BY <1>1, <1>2, <1>3, <1>4
       DEF CanNext, ServiceInit, ServiceDrain, StepBegin, Poll, WatchdogRead, WatchdogDecide,
           WatchdogFire, TerminalFeeds, TerminalBlocks, Tick, canVars, isrVars, busVars

LEMMA MarkStep ==
    ASSUME MarkTypes, [CanNext]_canVars
    PROVE  MarkTypes'
<1> USE DEF MarkTypes
<1>1. (can_pc = "wd_stamp") \in BOOLEAN /\ (silence > Timeout) \in BOOLEAN
    OBVIOUS
<1>2. CASE IsrReceive \/ TerminalFeeds
    BY <1>1, <1>2, Zenon DEF IsrReceive, TerminalFeeds, Stamp, wdVars, taskVars
<1>3. CASE ServiceInit \/ ServiceDrain
    BY <1>3 DEF ServiceInit, ServiceDrain, wdVars
<1>4. CASE WatchdogRead
    BY <1>1, <1>4, Zenon DEF WatchdogRead, wdVars
<1>5. CASE WatchdogDecide \/ WatchdogFire \/ Tick
    BY <1>5 DEF WatchdogDecide, WatchdogFire, Tick, wdVars
<1>6. CASE UNCHANGED <<wdVars, late, fed, stepped>>
    BY <1>6 DEF wdVars
<1> QED
    BY <1>2, <1>3, <1>4, <1>5, <1>6
       DEF CanNext, BusFrame, BusOff, IsrEnter, IsrExit, StepBegin, Poll, ProcessRx,
           TerminalBlocks, canVars, taskVars

LEMMA AgesBounded == SilenceCap \in Nat /\ AgeMax \in Nat
<1>1. \A c \in Nat, b \in Nat : c * (b + 1) \in Nat
    OBVIOUS
<1> QED
    BY <1>1, Bounds, StepsEnough DEF SilenceCap

LEMMA AgeTypeStep ==
    ASSUME AgeTypes, [CanNext]_canVars
    PROVE  AgeTypes'
<1> USE AgesBounded DEF AgeTypes
<1>1. CASE \E kind \in Kinds, probe \in BOOLEAN : BusFrame(kind, probe)
    BY <1>1 DEF BusFrame, wdVars
<1>2. CASE IsrReceive \/ TerminalFeeds \/ ServiceInit
    BY <1>2 DEF IsrReceive, TerminalFeeds, ServiceInit, Stamp, wdVars
<1>3. CASE Tick
    BY <1>3 DEF Tick
<1>4. CASE UNCHANGED <<silence, probe_age>>
    BY <1>4
<1> QED
    BY <1>1, <1>2, <1>3, <1>4
       DEF CanNext, BusOff, IsrEnter, IsrExit, ServiceDrain, StepBegin, Poll, ProcessRx,
           WatchdogRead, WatchdogDecide, WatchdogFire, TerminalBlocks, canVars, wdVars

(* No buffer of the CAN path holds more than it has room for, in any order   *)
(* of interrupts and steps of the task.                                     *)
LEMMA CanTypeCorrect == CanSpec => []CanTypeOK
<1> DEFINE Types == SizeTypes /\ ControllerTypes /\ MarkTypes /\ AgeTypes
           Typed == CInv /\ BufferInv /\ FreshInv /\ Types
<1>1. CanInit => Typed
  <2> SUFFICES ASSUME CanInit PROVE Typed
      OBVIOUS
  <2>1. SizeTypes
      BY CanAssumption DEF CanInit, SizeTypes
  <2>2. ControllerTypes /\ MarkTypes
      BY DEF CanInit, ControllerTypes, MarkTypes
  <2>3. AgeTypes
      BY AgesBounded DEF CanInit, AgeTypes
  <2> QED
      BY <2>1, <2>2, <2>3, CInvInit, BufferInit, FreshInit
<1>2. Typed /\ [CanNext]_canVars => Typed'
    BY CInvStep, BufferStep, FreshStep, SizeStep, ControllerStep, MarkStep, AgeTypeStep
<1>3. Typed => CanTypeOK
  <2> SUFFICES ASSUME Typed PROVE CanTypeOK
      OBVIOUS
  <2>1. Pipeline \in Seq(Frames)
      BY DEF Pipeline, BufferInv
  <2>2. \A i \in DOMAIN Pipeline : Pipeline[i] \in Frames
      BY <2>1
  <2>3. Len(s_rxq) < QueueSize
    <3>1. Len(s_rxq) \in Nat /\ QueueSize \in Nat
        BY CanAssumption DEF BufferInv
    <3> QED
        BY <3>1 DEF FreshInv, StandInv
  <2>4. {s_wd_armed, s_wd_fired, raised, late, fed, stepped} \subseteq BOOLEAN
      BY DEF MarkTypes
  <2>5. blocked \in 0 .. BlockMax /\ rx_done \in 0 .. RxBudget
        /\ can_pc \in {"boot", "drain", "idle", "poll", "rx", "wd", "wd_stamp", "wd_fire"}
      BY DEF CInv, ClockInv, FreshInv, StandInv
  <2> QED
      BY <2>2, <2>3, <2>4, <2>5 DEF CanTypeOK, SizeTypes, ControllerTypes, Events, AgeTypes
<1> QED
    BY <1>1, <1>2, <1>3, PTL DEF CanSpec

(***************************************************************************)
(***************************************************************************)
(* The USB interface.                                                      *)
(***************************************************************************)
(***************************************************************************)

(***************************************************************************)
(* The cells on their way, numbered: what the service has read, then what   *)
(* the ring holds.                                                         *)
(***************************************************************************)
No(cell) == 2 * cell.req + cell.half - 3

Kept(i) == rx_ring[Ring(rx_tail + i)]
Total == Len(chunk) + Used
Ahead(k) == IF k <= Len(chunk) THEN chunk[k] ELSE Kept(k - Len(chunk) - 1)
Numbers == [k \in 1 .. Total |-> No(Ahead(k))]

(* The least number that may still come, and the next one to be sent.       *)
Floor == IF parser = Nothing THEN 2 * newest ELSE 2 * parser - 1
Sending == 2 * sent - Len(wire_out)

(* The first n numbers rise from floor to limit.                            *)
Rising(a, n, floor, limit) ==
    /\ floor <= limit
    /\ \A k \in 1 .. n : a[k] \in Int /\ floor <= a[k] /\ a[k] < limit
    /\ \A k, l \in 1 .. n : k < l => a[k] < a[l]

(* They are all there.                                                     *)
Gapless(a, n, floor, limit) ==
    /\ \A k \in 1 .. n : a[k] = floor + k - 1
    /\ limit = floor + n

Half(req, half) == [req |-> req, half |-> half]
WireStates == {<<>>, <<Half(sent, 2)>>, <<Half(sent, 1), Half(sent, 2)>>}

CellsOrNone == Cells \cup {NoCell}

ChannelTypes ==
    /\ rx_ring \in [0 .. RingCells - 1 -> CellsOrNone]
    /\ rx_head \in 0 .. RingCells - 1 /\ rx_tail \in 0 .. RingCells - 1
    /\ chunk \in Seq(CellsOrNone) /\ Len(chunk) <= ReadMax
    /\ parser \in Nat /\ newest \in Nat /\ sent \in 0 .. MaxRequests
    /\ wire_out \in WireStates /\ (wire_out # <<>> => waiting /\ sent >= 1)

HostInv == (waiting => is_open) /\ (is_open => ~reset_cut)

OrderInv ==
    ~reset_cut =>
        /\ parser # Nothing => parser > newest
        /\ usb_pc # "parse" => chunk = <<>>
        /\ \A k \in 1 .. Total : Ahead(k) \in Cells
        /\ Rising(Numbers, Total, Floor, Sending)

OnceInv == twice => reset_cut

LinkInv == ChannelTypes /\ HostInv /\ OrderInv /\ OnceInv

(* Until something is lost none of them is missing, and the parser stands in *)
(* the request after the newest.                                           *)
ExactInv ==
    is_open /\ ~lost =>
        /\ parser \in {Nothing, newest + 1}
        /\ Gapless(Numbers, Total, Floor, Sending)

(* And the answer that the host waits for is pending or being sent.         *)
AnswerInv ==
    /\ waiting => sent >= 1
    /\ is_open => s_configured
    /\ is_open /\ ~lost =>
        /\ newest <= sent
        /\ s_tx_busy <=> in_flight
        /\ waiting /\ newest = sent =>
              s_pending = sent \/ (in_flight /\ s_tx_buf = sent /\ ~tx_stalled)

LostInv == unanswered => lost

ServedInv == LinkInv /\ ExactInv /\ AnswerInv /\ LostInv

(***************************************************************************)
(* Lemmas.                                                                 *)
(***************************************************************************)
LEMMA RingIs ==
    /\ RingCells \in Nat /\ RingCells >= 2
    /\ \A x \in 0 .. 2 * RingCells - 1 : Ring(x) = IF x < RingCells THEN x ELSE x - RingCells
    /\ \A h, t \in 0 .. RingCells - 1 :
          Ring(h - t + RingCells) = IF h >= t THEN h - t ELSE h - t + RingCells
<1>1. RingCells \in Nat /\ RingCells >= 2
    BY UsbAssumption
<1>2. ASSUME NEW n \in Nat, n >= 2, NEW x \in 0 .. 2 * n - 1
      PROVE  x % n = IF x < n THEN x ELSE x - n
    OBVIOUS
<1>3. ASSUME NEW n \in Nat, n >= 2, NEW h \in 0 .. n - 1, NEW t \in 0 .. n - 1
      PROVE  (h - t + n) % n = IF h >= t THEN h - t ELSE h - t + n
    <2>1. h - t + n \in 0 .. 2 * n - 1
        BY <1>3
    <2> QED
        BY <2>1, <1>2, <1>3
<1> QED
    BY <1>1, <1>2, <1>3 DEF Ring

LEMMA UsedIs ==
    ASSUME ChannelTypes
    PROVE  /\ Used = IF rx_head >= rx_tail THEN rx_head - rx_tail
                     ELSE rx_head - rx_tail + RingCells
           /\ Used \in 0 .. RingCells - 1
           /\ \A i \in 0 .. RingCells - 1 :
                 Ring(rx_tail + i) = IF rx_tail + i < RingCells THEN rx_tail + i
                                     ELSE rx_tail + i - RingCells
BY RingIs DEF ChannelTypes, Used

LEMMA NumberOf ==
    ASSUME NEW c \in Cells
    PROVE  /\ No(c) \in Nat /\ c.req \in Nat \ {0} /\ c.half \in {1, 2}
           /\ c.half = 1 => No(c) = 2 * c.req - 2
           /\ c.half = 2 => No(c) = 2 * c.req - 1
           /\ No(c) = 2 * c.req + c.half - 3
BY UsbAssumption DEF Cells, No, Requests

LEMMA RisingAdd ==
    ASSUME NEW a, NEW b, NEW n \in Nat, NEW m \in Nat, NEW floor \in Int, NEW limit \in Int,
           Rising(a, n, floor, limit), \A k \in 1 .. n : b[k] = a[k],
           \A j \in 1 .. m : b[n + j] = limit + j - 1,
           NEW top \in Int, top >= limit + m
    PROVE  Rising(b, n + m, floor, top)
<1>1. ASSUME NEW k \in 1 .. n + m
      PROVE  /\ k <= n => b[k] = a[k] /\ b[k] < limit /\ b[k] \in Int /\ floor <= b[k]
             /\ k > n => b[k] = limit + (k - n) - 1
    <2>1. CASE k <= n
        BY <2>1 DEF Rising
    <2>2. CASE k > n
        <3>1. k - n \in 1 .. m /\ n + (k - n) = k
            BY <2>2
        <3> QED
            BY <2>2, <3>1
    <2> QED
        BY <2>1, <2>2
<1>2. floor <= limit
    BY DEF Rising
<1>3. ASSUME NEW k \in 1 .. n + m
      PROVE  b[k] \in Int /\ floor <= b[k] /\ b[k] < top
    BY <1>1, <1>2
<1>4. ASSUME NEW k \in 1 .. n + m, NEW l \in 1 .. n + m, k < l
      PROVE  b[k] < b[l]
    <2>1. CASE l <= n
        <3>1. k \in 1 .. n /\ l \in 1 .. n /\ a[k] < a[l]
            BY <1>4, <2>1 DEF Rising
        <3> QED
            BY <3>1
    <2>2. CASE l > n
        BY <1>1, <1>4, <2>2
    <2> QED
        BY <2>1, <2>2
<1> QED
    BY <1>2, <1>3, <1>4 DEF Rising

LEMMA RisingDrop ==
    ASSUME NEW a, NEW b, NEW n \in Nat, n >= 1, NEW floor \in Int, NEW limit \in Int,
           Rising(a, n, floor, limit), \A k \in 1 .. n - 1 : b[k] = a[k + 1],
           NEW rest \in Int, rest <= a[1] + 1
    PROVE  Rising(b, n - 1, rest, limit)
<1>1. 1 \in 1 .. n /\ a[1] \in Int /\ a[1] < limit
    BY DEF Rising
<1>2. ASSUME NEW k \in 1 .. n - 1
      PROVE  b[k] \in Int /\ rest <= b[k] /\ b[k] < limit
    <2>1. k + 1 \in 1 .. n /\ 1 < k + 1
        OBVIOUS
    <2>2. a[k + 1] \in Int /\ a[1] < a[k + 1] /\ a[k + 1] < limit
        BY <1>1, <2>1 DEF Rising
    <2> QED
        BY <1>1, <2>2
<1>3. ASSUME NEW k \in 1 .. n - 1, NEW l \in 1 .. n - 1, k < l
      PROVE  b[k] < b[l]
    <2>1. k + 1 \in 1 .. n /\ l + 1 \in 1 .. n /\ k + 1 < l + 1
        BY <1>3
    <2> QED
        BY <2>1 DEF Rising
<1> QED
    BY <1>1, <1>2, <1>3 DEF Rising

LEMMA RisingSame ==
    ASSUME NEW a, NEW b, NEW n \in Nat, NEW m \in Nat, m <= n, NEW floor \in Int,
           NEW limit \in Int,
           Rising(a, n, floor, limit), \A k \in 1 .. m : b[k] = a[k],
           NEW lower \in Int, lower <= floor, NEW top \in Int, top >= limit
    PROVE  Rising(b, m, lower, top)
<1>1. \A k \in 1 .. m : k \in 1 .. n
    OBVIOUS
<1>2. floor <= limit
    BY DEF Rising
<1>3. ASSUME NEW k \in 1 .. m
      PROVE  b[k] \in Int /\ lower <= b[k] /\ b[k] < top
    BY <1>1 DEF Rising
<1>4. ASSUME NEW k \in 1 .. m, NEW l \in 1 .. m, k < l
      PROVE  b[k] < b[l]
    BY <1>1, <1>4 DEF Rising
<1> QED
    BY <1>2, <1>3, <1>4 DEF Rising

(***************************************************************************)
(* What each step does to the cells on their way.                          *)
(***************************************************************************)
LEMMA ChannelSame ==
    ASSUME UNCHANGED <<ringVars, chunk>>
    PROVE  Total' = Total /\ Numbers' = Numbers /\ \A k \in Int : Ahead(k)' = Ahead(k)
BY DEF ringVars, Total, Numbers, Ahead, Kept, Used

LEMMA ArrivalAdds ==
    ASSUME ChannelTypes, NEW count \in 1 .. 2, BulkOut(count)
    PROVE  \E kept \in 0 .. count :
              /\ Total' = Total + kept /\ chunk' = chunk
              /\ lost' = (lost \/ kept < count)
              /\ rx_ring' \in [0 .. RingCells - 1 -> CellsOrNone]
              /\ rx_head' \in 0 .. RingCells - 1
              /\ \A k \in 1 .. Total : Ahead(k)' = Ahead(k)
              /\ \A k \in 1 .. Total + kept : k > Total => Ahead(k)' = wire_out[k - Total]
<1> DEFINE kept == Lesser(count, RingCells - 1 - Used)
           at(i) == Ring(i - rx_head + RingCells)
<1>1. Len(chunk) \in Nat /\ Used \in 0 .. RingCells - 1 /\ RingCells \in Nat /\ RingCells >= 2
    BY UsedIs, RingIs DEF ChannelTypes
<1>2. kept \in 0 .. count /\ kept <= RingCells - 1 - Used
    BY <1>1 DEF Lesser
<1> HIDE DEF kept
<1>3. /\ rx_head' = Ring(rx_head + kept) /\ rx_tail' = rx_tail /\ chunk' = chunk
      /\ rx_ring' = [i \in 0 .. RingCells - 1 |->
                        IF at(i) < kept THEN wire_out[at(i) + 1] ELSE rx_ring[i]]
      /\ lost' = (lost \/ kept < count) /\ count <= Len(wire_out)
    BY DEF BulkOut, kept, serviceVars, ChannelTypes
<1>4. rx_head' = (IF rx_head + kept < RingCells THEN rx_head + kept
                  ELSE rx_head + kept - RingCells) /\ rx_head' \in 0 .. RingCells - 1
    BY <1>1, <1>2, <1>3, RingIs DEF ChannelTypes
<1>5. Used' = Used + kept
    <2>1. Used' = Ring(rx_head' - rx_tail + RingCells)
        BY <1>3 DEF Used
    <2>2. Used' = IF rx_head' >= rx_tail THEN rx_head' - rx_tail ELSE rx_head' - rx_tail + RingCells
        BY <2>1, <1>4, RingIs DEF ChannelTypes
    <2> QED
        BY <2>2, <1>1, <1>2, <1>4, UsedIs DEF ChannelTypes
<1>6. \A i \in 0 .. RingCells - 1 :
        at(i) = (IF i >= rx_head THEN i - rx_head ELSE i - rx_head + RingCells)
    BY <1>1, RingIs DEF ChannelTypes
<1>7. \A n \in 1 .. Len(wire_out) : wire_out[n] \in CellsOrNone
    <2>1. wire_out # <<>> => sent \in Requests
        BY UsbAssumption DEF ChannelTypes, Requests
    <2> QED
        BY <2>1 DEF ChannelTypes, WireStates, Half, Cells, CellsOrNone
<1> HIDE DEF at
<1>8. rx_ring' \in [0 .. RingCells - 1 -> CellsOrNone]
    <2>1. ASSUME NEW i \in 0 .. RingCells - 1, at(i) < kept
          PROVE  wire_out[at(i) + 1] \in CellsOrNone
        <3>1. Len(wire_out) \in Nat
            BY DEF ChannelTypes, WireStates
        <3>2. at(i) \in Nat
            BY <1>1, <1>6 DEF ChannelTypes
        <3>3. at(i) + 1 \in 1 .. Len(wire_out)
            BY <2>1, <3>1, <3>2, <1>2, <1>3
        <3> QED
            BY <3>3, <1>7
    <2> QED
        BY <2>1, <1>3 DEF ChannelTypes
<1>9. ASSUME NEW k \in 1 .. Total
      PROVE  Ahead(k)' = Ahead(k)
    <2>1. CASE k <= Len(chunk)
        BY <2>1, <1>3 DEF Ahead
    <2>2. CASE k > Len(chunk)
        <3> DEFINE i == k - Len(chunk) - 1
                   c == Ring(rx_tail + i)
        <3>1. i \in 0 .. RingCells - 1 /\ i < Used
            BY <2>2, <1>1 DEF Total
        <3> HIDE DEF i
        <3>2. c = IF rx_tail + i < RingCells THEN rx_tail + i ELSE rx_tail + i - RingCells
            BY <3>1, UsedIs
        <3> HIDE DEF c
        <3>3. ~(at(c) < kept)
            BY <3>1, <3>2, <1>1, <1>2, <1>6, UsedIs DEF ChannelTypes
        <3>4. rx_ring'[c] = rx_ring[c]
            <4>1. c \in 0 .. RingCells - 1
                BY <3>1, <3>2, <1>1 DEF ChannelTypes
            <4> QED
                BY <4>1, <3>3, <1>3
        <3>5. Ahead(k) = rx_ring[c] /\ Ahead(k)' = rx_ring'[c]
            BY <2>2, <1>3 DEF Ahead, Kept, i, c
        <3> QED
            BY <3>4, <3>5
    <2> QED
        BY <2>1, <2>2, <1>1 DEF Total
<1>10. ASSUME NEW k \in 1 .. Total + kept, k > Total
       PROVE  Ahead(k)' = wire_out[k - Total]
    <2> DEFINE i == k - Len(chunk) - 1
               c == Ring(rx_tail + i)
    <2>1. i \in 0 .. RingCells - 1 /\ k > Len(chunk)
        BY <1>1, <1>2, <1>10 DEF Total
    <2>2. i - Used = k - Total - 1 /\ i >= Used /\ i - Used < kept
        BY <1>1, <1>2, <1>10 DEF Total
    <2>3. Ahead(k)' = rx_ring'[c]
        BY <2>1, <1>3 DEF Ahead, Kept
    <2> HIDE DEF i
    <2>4. c \in 0 .. RingCells - 1
          /\ c = IF rx_tail + i < RingCells THEN rx_tail + i ELSE rx_tail + i - RingCells
        BY <2>1, <1>1, UsedIs DEF ChannelTypes
    <2> HIDE DEF c
    <2>5. at(c) = i - Used
        BY <2>1, <2>2, <2>4, <1>1, <1>2, <1>6, UsedIs DEF ChannelTypes
    <2>6. rx_ring'[c] = wire_out[at(c) + 1]
        BY <2>2, <2>4, <2>5, <1>3
    <2>7. at(c) + 1 = k - Total
        BY <2>2, <2>5, <1>1 DEF Total
    <2> QED
        BY <2>3, <2>6, <2>7
<1>11. Total' = Total + kept
    <2>1. \A a, b, n \in Nat : a + (b + n) = (a + b) + n
        OBVIOUS
    <2>2. Total' = Len(chunk) + (Used + kept)
        BY <1>3, <1>5 DEF Total
    <2> QED
        BY <2>1, <2>2, <1>1, <1>2 DEF Total
<1> QED
    BY <1>2, <1>3, <1>4, <1>8, <1>9, <1>10, <1>11

(* The ring is empty after a reset; what has been read stays.              *)
LEMMA ResetClears ==
    ASSUME ChannelTypes, BusReset
    PROVE  /\ Total' = Len(chunk) /\ Total' <= Total
           /\ \A k \in 1 .. Total' : Ahead(k)' = Ahead(k)
<1>1. Len(chunk) \in Nat /\ Used \in Nat
    BY UsedIs DEF ChannelTypes
<1>2. chunk' = chunk /\ rx_head' = 0 /\ rx_tail' = 0
    BY DEF BusReset, IndicesCleared, serviceVars
<1>3. Used' = 0
    <2>1. Used' = Ring(0 - 0 + RingCells)
        BY <1>2 DEF Used
    <2>2. Ring(0 - 0 + RingCells) = 0
        BY RingIs
    <2> QED
        BY <2>1, <2>2
<1>4. Total' = Len(chunk)
    <2>1. Total' = Len(chunk) + 0
        BY <1>2, <1>3 DEF Total
    <2> QED
        BY <2>1, <1>1
<1>5. ASSUME NEW k \in 1 .. Len(chunk)
      PROVE  Ahead(k)' = Ahead(k)
    BY <1>1, <1>2 DEF Ahead
<1> QED
    BY <1>1, <1>4, <1>5 DEF Total

(* The loop of a read copies what the ring holds.                           *)
LEMMA FirstAre ==
    ASSUME ChannelTypes, NEW n \in 0 .. Readable
    PROVE  /\ Readable \in 0 .. Used /\ Len(chunk) + Readable <= ReadMax
           /\ FirstCells(n) \in Seq(CellsOrNone) /\ Len(FirstCells(n)) = n
           /\ \A k \in 1 .. n : FirstCells(n)[k] = rx_ring[Ring(rx_tail + k - 1)]
           /\ Ring(rx_tail + n) = IF rx_tail + n < RingCells THEN rx_tail + n
                                  ELSE rx_tail + n - RingCells
           /\ Ring(rx_tail + n) \in 0 .. RingCells - 1
<1>1. /\ Used \in 0 .. RingCells - 1 /\ RingCells \in Nat /\ RingCells >= 2 /\ ReadMax \in Nat
      /\ Len(chunk) \in Nat /\ Len(chunk) <= ReadMax
    BY UsedIs, RingIs, UsbAssumption DEF ChannelTypes
<1>2. Readable \in 0 .. Used /\ Len(chunk) + Readable <= ReadMax
    BY <1>1 DEF Readable, Lesser
<1>3. n \in Nat /\ n <= Used
    BY <1>1, <1>2
<1>4. ASSUME NEW k \in 1 .. n
      PROVE  rx_ring[Ring(rx_tail + k - 1)] \in CellsOrNone
    <2>1. rx_tail + k - 1 \in 0 .. 2 * RingCells - 1
        BY <1>1, <1>3 DEF ChannelTypes
    <2>2. Ring(rx_tail + k - 1) \in 0 .. RingCells - 1
        BY <2>1, <1>1, RingIs
    <2> QED
        BY <2>2 DEF ChannelTypes
<1>5. FirstCells(n) \in [1 .. n -> CellsOrNone]
    BY <1>4 DEF FirstCells
<1>6. FirstCells(n) \in Seq(CellsOrNone) /\ Len(FirstCells(n)) = n
    BY <1>3, <1>5
<1>7. \A k \in 1 .. n : FirstCells(n)[k] = rx_ring[Ring(rx_tail + k - 1)]
    BY DEF FirstCells
<1>8. PICK x \in 0 .. 2 * RingCells - 1 : x = rx_tail + n
    BY <1>1, <1>3 DEF ChannelTypes
<1>9. /\ Ring(x) = IF x < RingCells THEN x ELSE x - RingCells
      /\ Ring(x) \in 0 .. RingCells - 1
    BY <1>1, RingIs
<1>10. /\ Ring(rx_tail + n) = IF rx_tail + n < RingCells THEN rx_tail + n
                               ELSE rx_tail + n - RingCells
       /\ Ring(rx_tail + n) \in 0 .. RingCells - 1
    BY <1>1, <1>3, <1>8, <1>9 DEF ChannelTypes
<1> QED
    BY <1>2, <1>6, <1>7, <1>10, Zenon

(* Reading moves cells from the ring into the hands of the service.         *)
LEMMA ReadMoves ==
    ASSUME ChannelTypes, chunk = <<>>, ReadRing
    PROVE  /\ Total' = Total
           /\ \A k \in 1 .. Total : Ahead(k)' = Ahead(k)
           /\ chunk' \in Seq(CellsOrNone) /\ rx_tail' \in 0 .. RingCells - 1
<1>1. Used \in 0 .. RingCells - 1 /\ RingCells \in Nat /\ RingCells >= 2 /\ ReadMax \in Nat
    BY UsedIs, RingIs, UsbAssumption
<1> DEFINE n == Readable
<1>2. n \in 0 .. Used
    BY <1>1, UsedIs DEF Readable, Lesser
<1>3. rx_tail' = Ring(rx_tail + n) /\ rx_head' = rx_head /\ rx_ring' = rx_ring
      /\ chunk' = <<>> \o FirstCells(n)
    BY DEF ReadRing
<1> HIDE DEF n
<1>4. /\ FirstCells(n) \in Seq(CellsOrNone) /\ Len(FirstCells(n)) = n
      /\ \A k \in 1 .. n : FirstCells(n)[k] = rx_ring[Ring(rx_tail + k - 1)]
    BY <1>2, FirstAre DEF n
<1>5. chunk' = FirstCells(n) /\ Len(chunk') = n
    <2>1. chunk' = FirstCells(n)
        BY <1>3, <1>4
    <2> QED
        BY <2>1, <1>4
<1>6. rx_tail' = (IF rx_tail + n < RingCells THEN rx_tail + n ELSE rx_tail + n - RingCells)
      /\ rx_tail' \in 0 .. RingCells - 1
    BY <1>1, <1>2, <1>3, RingIs DEF ChannelTypes
<1>7. Used' = Used - n
    <2>1. Used' = Ring(rx_head - rx_tail' + RingCells)
        BY <1>3 DEF Used
    <2>2. Used' = IF rx_head >= rx_tail' THEN rx_head - rx_tail' ELSE rx_head - rx_tail' + RingCells
        BY <2>1, <1>6, RingIs DEF ChannelTypes
    <2> QED
        BY <2>2, <1>1, <1>2, <1>6, UsedIs DEF ChannelTypes
<1>8. Total = Used /\ Total' = Total
    <2>1. Total = 0 + Used
        BY DEF Total
    <2>2. Total' = n + (Used - n)
        BY <1>5, <1>7 DEF Total
    <2>3. \A a, b \in Nat : a + (b - a) = b /\ 0 + b = b
        OBVIOUS
    <2> QED
        BY <2>1, <2>2, <2>3, <1>1, <1>2
<1>9. ASSUME NEW k \in 1 .. Total
      PROVE  Ahead(k)' = Ahead(k)
    <2>1. k \in 1 .. Used /\ Ahead(k) = rx_ring[Ring(rx_tail + (k - 0 - 1))]
        BY <1>1, <1>8 DEF Ahead, Kept
    <2>2. k - 0 - 1 = k - 1 /\ rx_tail + (k - 0 - 1) = rx_tail + k - 1
        BY <1>1, <2>1 DEF ChannelTypes
    <2>3. CASE k <= n
        <3>1. Ahead(k)' = FirstCells(n)[k]
            BY <2>3, <1>5 DEF Ahead
        <3> QED
            BY <2>1, <2>2, <2>3, <3>1, <1>1, <1>2, <1>4
    <2>4. CASE k > n
        <3>1. Ahead(k)' = rx_ring[Ring(rx_tail' + (k - n - 1))]
            BY <2>1, <2>4, <1>2, <1>3, <1>5 DEF Ahead, Kept
        <3>2. k - n - 1 \in 0 .. RingCells - 1 /\ rx_tail + (k - 1) \in 0 .. 2 * RingCells - 1
            BY <2>1, <2>4, <1>1, <1>2 DEF ChannelTypes
        <3>3. rx_tail' + (k - n - 1) \in 0 .. 2 * RingCells - 1
            BY <3>2, <1>1, <1>6
        <3>4. Ring(rx_tail' + (k - n - 1)) = Ring(rx_tail + (k - 1))
            <4> DEFINE x == rx_tail + (k - 1)
                       y == rx_tail' + (k - n - 1)
            <4>1. x = y \/ (x = y + RingCells /\ x < 2 * RingCells)
                BY <1>1, <1>2, <1>6, <2>1, <2>4, <3>2 DEF ChannelTypes
            <4>2. x \in 0 .. 2 * RingCells - 1 /\ y \in 0 .. 2 * RingCells - 1
                BY <3>2, <3>3
            <4> HIDE DEF x, y
            <4>3. Ring(x) = Ring(y)
                BY <4>1, <4>2, <1>1, RingIs
            <4> QED
                BY <4>3 DEF x, y
        <3> QED
            BY <2>1, <2>2, <3>1, <3>4
    <2> QED
        BY <2>3, <2>4, <2>1, <1>1, <1>2
<1> QED
    BY <1>4, <1>5, <1>6, <1>8, <1>9

(* A parser takes the first of them.                                       *)
LEMMA ParseTakes ==
    ASSUME ChannelTypes, chunk # <<>>, chunk' = Tail(chunk), UNCHANGED ringVars
    PROVE  /\ Total \in Nat /\ Total >= 1 /\ Total' = Total - 1
           /\ Ahead(1) = Head(chunk)
           /\ \A k \in 1 .. Total - 1 : Ahead(k)' = Ahead(k + 1)
           /\ chunk' \in Seq(CellsOrNone) /\ Len(chunk') <= ReadMax
<1>1. /\ Len(chunk) \in Nat /\ Len(chunk) >= 1 /\ Len(chunk') = Len(chunk) - 1
      /\ \A k \in 1 .. Len(chunk) - 1 : chunk'[k] = chunk[k + 1]
      /\ Head(chunk) = chunk[1] /\ chunk' \in Seq(CellsOrNone)
    BY DEF ChannelTypes
<1>2. Used \in Nat /\ Used' = Used
    BY UsedIs, RingIs DEF ringVars, Used
<1>3. Total' = Total - 1
    <2>1. Total' = (Len(chunk) - 1) + Used
        BY <1>1, <1>2 DEF Total
    <2> QED
        BY <2>1, <1>1, <1>2 DEF Total
<1>4. Ahead(1) = Head(chunk)
    BY <1>1 DEF Ahead
<1>5. ASSUME NEW k \in 1 .. Total - 1
      PROVE  Ahead(k)' = Ahead(k + 1)
    <2>1. Ahead(k)' = IF k <= Len(chunk) - 1 THEN chunk'[k]
                      ELSE rx_ring[Ring(rx_tail + (k - (Len(chunk) - 1) - 1))]
        BY <1>1 DEF Ahead, Kept, ringVars
    <2>2. Ahead(k + 1) = IF k + 1 <= Len(chunk) THEN chunk[k + 1]
                         ELSE rx_ring[Ring(rx_tail + (k + 1 - Len(chunk) - 1))]
        BY DEF Ahead, Kept
    <2>3. k - (Len(chunk) - 1) - 1 = k + 1 - Len(chunk) - 1
          /\ (k <= Len(chunk) - 1 <=> k + 1 <= Len(chunk))
        BY <1>1
    <2>4. k <= Len(chunk) - 1 => chunk'[k] = chunk[k + 1]
        BY <1>1
    <2> QED
        BY <2>1, <2>2, <2>3, <2>4
<1>6. Len(chunk') <= ReadMax
    BY <1>1, UsbAssumption DEF ChannelTypes
<1> QED
    BY <1>1, <1>2, <1>3, <1>4, <1>5, <1>6 DEF Total

(* The cells on the wire have the numbers next to be sent.                  *)
LEMMA WireNumbers ==
    ASSUME ChannelTypes
    PROVE  /\ Len(wire_out) \in 0 .. 2 /\ Sending \in Int /\ Sending <= 2 * sent
           /\ wire_out = <<>> => Sending = 2 * sent
           /\ \A j \in 1 .. Len(wire_out) :
                 wire_out[j] \in Cells /\ No(wire_out[j]) = Sending + j - 1
<1>1. sent \in Nat /\ (wire_out # <<>> => sent \in Requests)
    BY UsbAssumption DEF ChannelTypes, Requests
<1>2. CASE wire_out = <<>>
    BY <1>1, <1>2 DEF Sending
<1>3. CASE wire_out = <<Half(sent, 2)>>
    BY <1>1, <1>3 DEF Sending, No, Half, Cells
<1>4. CASE wire_out = <<Half(sent, 1), Half(sent, 2)>>
    <2>1. Len(wire_out) = 2 /\ wire_out[1] = Half(sent, 1) /\ wire_out[2] = Half(sent, 2)
          /\ wire_out # <<>>
        BY <1>4
    <2>2. wire_out[1] \in Cells /\ wire_out[2] \in Cells
        BY <2>1, <1>1 DEF Half, Cells
    <2>3. No(wire_out[1]) = 2 * sent - 2 /\ No(wire_out[2]) = 2 * sent - 1
        BY <2>1, <1>1 DEF Half, No
    <2>4. Sending = 2 * sent - 2
        BY <2>1 DEF Sending
    <2>5. \A j \in 1 .. Len(wire_out) : j = 1 \/ j = 2
        BY <2>1
    <2> QED
        BY <2>1, <2>2, <2>3, <2>4, <2>5, <1>1
<1> QED
    BY <1>2, <1>3, <1>4 DEF ChannelTypes, WireStates

(* What is left on the wire when some of it has arrived.                    *)
LEMMA WireRest ==
    ASSUME ChannelTypes, NEW count \in 1 .. 2, count <= Len(wire_out), sent' = sent,
           wire_out' = SubSeq(wire_out, count + 1, Len(wire_out))
    PROVE  /\ wire_out' \in {<<>>, <<Half(sent, 2)>>} /\ wire_out # <<>>
           /\ Sending' = Sending + count
<1>1. CASE wire_out = <<>>
    BY <1>1
<1>2. CASE wire_out = <<Half(sent, 2)>>
    <2>1. count = 1 /\ wire_out' = <<>>
        BY <1>2
    <2>2. Sending = 2 * sent - 1 /\ Sending' = 2 * sent - 0
        BY <1>2, <2>1 DEF Sending
    <2> QED
        BY <1>2, <2>1, <2>2 DEF ChannelTypes
<1>3. CASE wire_out = <<Half(sent, 1), Half(sent, 2)>>
    <2>1. CASE count = 1
        <3>1. wire_out' = <<Half(sent, 2)>>
            <4>1. wire_out \in Seq({Half(sent, 1), Half(sent, 2)}) /\ wire_out # <<>>
                BY <1>3
            <4>2. Tail(wire_out) = SubSeq(wire_out, 2, Len(wire_out))
                BY <4>1, TailIsSubSeq
            <4>3. wire_out' = Tail(wire_out)
                BY <4>2, <2>1
            <4>4. Tail(wire_out) = <<Half(sent, 2)>>
                BY <1>3
            <4> QED
                BY <4>3, <4>4
        <3>2. Sending = 2 * sent - 2 /\ Sending' = 2 * sent - 1
            BY <1>3, <3>1 DEF Sending
        <3>3. Sending' = Sending + count /\ wire_out # <<>>
            BY <1>3, <2>1, <3>2 DEF ChannelTypes
        <3> QED
            BY <3>1, <3>3, Zenon
    <2>2. CASE count = 2
        <3>1. wire_out' = <<>> /\ wire_out # <<>>
            BY <1>3, <2>2
        <3>2. Sending = 2 * sent - 2 /\ Sending' = 2 * sent - 0
            BY <1>3, <3>1 DEF Sending
        <3>3. Sending' = Sending + count
            BY <2>2, <3>2 DEF ChannelTypes
        <3> QED
            BY <3>1, <3>3, Zenon
    <2> QED
        BY <2>1, <2>2
<1> QED
    BY <1>1, <1>2, <1>3 DEF ChannelTypes, WireStates

(***************************************************************************)
(* The steps.                                                              *)
(***************************************************************************)
LEMMA InitServed == UsbInit => ServedInv
<1> SUFFICES ASSUME UsbInit PROVE ServedInv
    OBVIOUS
<1>1. RingCells \in Nat /\ RingCells >= 2 /\ ReadMax \in Nat /\ MaxRequests \in Nat
    BY UsbAssumption
<1>2. ChannelTypes
    <2>1. rx_ring \in [0 .. RingCells - 1 -> CellsOrNone]
        BY DEF UsbInit, CellsOrNone
    <2>2. chunk \in Seq(CellsOrNone) /\ Len(chunk) <= ReadMax
        BY <1>1 DEF UsbInit
    <2> QED
        BY <1>1, <2>1, <2>2 DEF UsbInit, ChannelTypes, WireStates, Nothing
<1>3. Total = 0
    <2>1. Used = 0
        BY <1>1, UsedIs, <1>2 DEF UsbInit
    <2> QED
        BY <2>1 DEF UsbInit, Total
<1>4. Floor = 0 /\ Sending = 0
    <2>1. parser = Nothing /\ newest = 0 /\ sent = 0 /\ Len(wire_out) = 0
        BY DEF UsbInit, Nothing
    <2> QED
        BY <2>1 DEF Floor, Sending
<1>5. Rising(Numbers, Total, Floor, Sending) /\ Gapless(Numbers, Total, Floor, Sending)
    BY <1>3, <1>4 DEF Rising, Gapless
<1>6. OrderInv
    BY <1>3, <1>5 DEF OrderInv, UsbInit
<1>7. HostInv /\ OnceInv /\ LostInv
    BY DEF HostInv, OnceInv, LostInv, UsbInit
<1>8. ExactInv
    BY <1>5 DEF ExactInv, UsbInit
<1>9. AnswerInv
    BY DEF AnswerInv, UsbInit, Nothing
<1> QED
    BY <1>2, <1>6, <1>7, <1>8, <1>9 DEF ServedInv, LinkInv

(* The numbers are integers.                                               *)
LEMMA TheNumbers ==
    ASSUME ChannelTypes
    PROVE  Total \in Nat /\ Floor \in Int /\ Sending \in Int /\ Used \in Nat /\ Len(chunk) \in Nat
BY UsedIs, RingIs, WireNumbers DEF ChannelTypes, Total, Floor

(* A step that leaves the cells in their place.                            *)
LEMMA StepAside ==
    ASSUME LinkInv, UNCHANGED <<ringVars, chunk, parser, newest, reset_cut, twice>>,
           usb_pc = "parse" /\ usb_pc' # "parse" => chunk = <<>>,
           Sending' = Sending, is_open' = is_open
    PROVE  /\ OrderInv' /\ OnceInv'
           /\ ExactInv /\ (lost => lost') => ExactInv'
<1>1. /\ Total' = Total /\ Numbers' = Numbers /\ Floor' = Floor
      /\ \A k \in Int : Ahead(k)' = Ahead(k)
    BY ChannelSame DEF Floor
<1>2. OnceInv'
    BY DEF LinkInv, OnceInv
<1>3. OrderInv'
    <2> SUFFICES ASSUME ~reset_cut
                 PROVE  /\ parser # Nothing => parser > newest
                        /\ usb_pc' # "parse" => chunk = <<>>
                        /\ \A k \in 1 .. Total : Ahead(k)' \in Cells
                        /\ Rising(Numbers, Total, Floor, Sending)
        BY <1>1 DEF OrderInv, Rising
    <2> QED
        BY <1>1, TheNumbers DEF LinkInv, OrderInv
<1>4. ASSUME ExactInv, lost => lost'
      PROVE  ExactInv'
    BY <1>1, <1>4 DEF ExactInv, Gapless
<1> QED
    BY <1>2, <1>3, <1>4

Aside ==
    \/ BulkIn \/ TransferLost \/ TransferStalls \/ Configured \/ Service \/ Stream
    \/ HostTimesOut \/ \E attempts \in {1, ReadRetries + 1} : Ask(attempts)

(* A request has a number of its own; the wire is empty then.               *)
LEMMA SendCounts ==
    ASSUME ChannelTypes, wire_out = <<>>, NEW attempts, Send(attempts)
    PROVE  /\ sent' \in 0 .. MaxRequests /\ sent' >= 1 /\ sent' = sent + 1 /\ waiting'
           /\ wire_out' = <<Half(sent', 1), Half(sent', 2)>> /\ Sending' = Sending
<1>1. /\ sent \in Nat /\ sent' = sent + 1 /\ sent < MaxRequests /\ MaxRequests \in Nat /\ waiting'
      /\ wire_out' = <<Half(sent + 1, 1), Half(sent + 1, 2)>>
    BY UsbAssumption DEF ChannelTypes, Send, Half
<1>2. Len(wire_out') = 2 /\ Len(wire_out) = 0
    BY <1>1
<1>3. Sending' = 2 * (sent + 1) - 2 /\ Sending = 2 * sent - 0
    BY <1>1, <1>2 DEF Sending
<1> QED
    BY <1>1, <1>3

LEMMA AsideLink ==
    ASSUME LinkInv, Aside
    PROVE  /\ LinkInv'
           /\ ExactInv => ExactInv'
<1>1. /\ UNCHANGED <<ringVars, chunk, parser, newest, reset_cut, twice>>
      /\ is_open' = is_open /\ (lost => lost')
    BY DEF Aside, BulkIn, TransferLost, TransferStalls, Configured, Service, Stream, HostTimesOut,
           Ask, serviceVars, historyVars, lossVars, sessionVars
<1>2. usb_pc = "parse" /\ usb_pc' # "parse" => chunk = <<>>
    BY DEF Aside, BulkIn, TransferLost, TransferStalls, Configured, Service, Stream, HostTimesOut,
           Ask, serviceVars
<1>3. CASE sent' = sent /\ wire_out' = wire_out /\ (waiting' = waiting \/ wire_out = <<>>)
           /\ (waiting' => waiting)
    <2>1. Sending' = Sending
        BY <1>3 DEF Sending
    <2>2. ChannelTypes'
        BY <1>1, <1>3 DEF LinkInv, ChannelTypes, WireStates, ringVars
    <2>3. HostInv'
        BY <1>1, <1>3 DEF LinkInv, HostInv
    <2> QED
        BY <1>1, <1>2, <2>1, <2>2, <2>3, StepAside DEF LinkInv
<1>4. CASE is_open /\ wire_out = <<>> /\ \E attempts : Send(attempts)
    <2>1. /\ sent' \in 0 .. MaxRequests /\ sent' >= 1 /\ waiting'
          /\ wire_out' = <<Half(sent', 1), Half(sent', 2)>> /\ Sending' = Sending
        BY <1>4, SendCounts DEF LinkInv
    <2>2. wire_out' \in WireStates'
        BY <2>1 DEF WireStates, Half
    <2>3. ChannelTypes'
        BY <1>1, <2>1, <2>2 DEF LinkInv, ChannelTypes, ringVars
    <2>4. HostInv'
        BY <1>1, <1>4 DEF LinkInv, HostInv
    <2> QED
        BY <1>1, <1>2, <2>1, <2>3, <2>4, StepAside DEF LinkInv
<1>5. CASE BulkIn \/ TransferLost \/ TransferStalls \/ Configured \/ Service \/ Stream
    <2>1. sent' = sent /\ wire_out' = wire_out /\ (waiting' = waiting \/ wire_out = <<>>)
          /\ (waiting' => waiting)
        BY <1>5 DEF BulkIn, TransferLost, TransferStalls, Configured, Service, Stream, sessionVars
    <2> QED
        BY <1>3, <2>1
<1>6. CASE HostTimesOut
    <2>1. waiting /\ wire_out = <<>> /\ is_open
        BY <1>6 DEF HostTimesOut, LinkInv, HostInv
    <2>2. \/ Send(tries_left)
          \/ sent' = sent /\ wire_out' = wire_out /\ waiting' = FALSE
        BY <1>6 DEF HostTimesOut
    <2>3. CASE Send(tries_left)
        BY <1>4, <2>1, <2>3
    <2>4. CASE sent' = sent /\ wire_out' = wire_out /\ waiting' = FALSE
        BY <1>3, <2>1, <2>4
    <2> QED
        BY <2>2, <2>3, <2>4
<1>7. CASE \E attempts \in {1, ReadRetries + 1} : Ask(attempts)
    <2>1. is_open /\ wire_out = <<>> /\ \E attempts : Send(attempts)
        BY <1>7 DEF Ask, LinkInv, ChannelTypes
    <2> QED
        BY <1>4, <2>1
<1> QED
    BY <1>5, <1>6, <1>7 DEF Aside

LEMMA BulkOutLink ==
    ASSUME LinkInv, NEW count \in 1 .. 2, BulkOut(count)
    PROVE  /\ LinkInv'
           /\ ExactInv => ExactInv'
<1>1. ChannelTypes
    BY DEF LinkInv
<1>2. /\ UNCHANGED <<chunk, parser, newest, reset_cut, twice, usb_pc, is_open, waiting, sent, rx_tail>>
      /\ count <= Len(wire_out) /\ wire_out' = SubSeq(wire_out, count + 1, Len(wire_out))
    BY DEF BulkOut, serviceVars
<1>3. PICK kept \in 0 .. count :
        /\ Total' = Total + kept /\ lost' = (lost \/ kept < count)
        /\ rx_ring' \in [0 .. RingCells - 1 -> CellsOrNone] /\ rx_head' \in 0 .. RingCells - 1
        /\ \A k \in 1 .. Total : Ahead(k)' = Ahead(k)
        /\ \A k \in 1 .. Total + kept : k > Total => Ahead(k)' = wire_out[k - Total]
    BY <1>1, ArrivalAdds
<1>4. wire_out' \in {<<>>, <<Half(sent, 2)>>} /\ wire_out # <<>> /\ Sending' = Sending + count
    BY <1>1, <1>2, WireRest
<1>5. /\ Total \in Nat /\ Sending \in Int /\ Floor \in Int /\ Floor' = Floor /\ Total + kept \in Nat
      /\ \A j \in 1 .. kept : wire_out[j] \in Cells /\ No(wire_out[j]) = Sending + j - 1
    <2>1. Floor' = Floor
        BY <1>2 DEF Floor
    <2>2. \A j \in 1 .. kept : j \in 1 .. Len(wire_out)
        BY <1>1, <1>2, WireNumbers
    <2> QED
        BY <1>1, <2>1, <2>2, TheNumbers, WireNumbers
<1>6. ChannelTypes'
    <2>1. wire_out' \in WireStates'
        BY <1>2, <1>4 DEF WireStates
    <2> QED
        BY <1>1, <1>2, <1>3, <1>4, <2>1 DEF ChannelTypes
<1>7. /\ \A k \in 1 .. Total : Numbers'[k] = Numbers[k]
      /\ \A j \in 1 .. kept : Numbers'[Total + j] = Sending + j - 1
    <2>1. \A k \in 1 .. Total + kept : Numbers'[k] = No(Ahead(k)')
        BY <1>3 DEF Numbers, No
    <2>2. ASSUME NEW k \in 1 .. Total
          PROVE  Numbers'[k] = Numbers[k]
        <3>1. k \in 1 .. Total + kept
            BY <1>5
        <3> QED
            BY <2>1, <3>1, <1>3 DEF Numbers
    <2>3. ASSUME NEW j \in 1 .. kept
          PROVE  Numbers'[Total + j] = Sending + j - 1
        <3>1. PICK k \in 1 .. Total + kept : k = Total + j /\ k > Total /\ k - Total = j
            BY <1>5
        <3>2. Numbers'[k] = No(wire_out[j])
            BY <2>1, <3>1, <1>3
        <3> QED
            BY <3>1, <3>2, <1>5
    <2> QED
        BY <2>2, <2>3
<1>8. ASSUME ~reset_cut
      PROVE  /\ \A k \in 1 .. Total + kept : Ahead(k)' \in Cells
             /\ Rising(Numbers', Total + kept, Floor, Sending + count)
    <2>1. /\ \A k \in 1 .. Total : Ahead(k) \in Cells
          /\ Rising(Numbers, Total, Floor, Sending)
        BY <1>8 DEF LinkInv, OrderInv
    <2>2. ASSUME NEW k \in 1 .. Total + kept
          PROVE  Ahead(k)' \in Cells
        <3>1. CASE k <= Total
            BY <3>1, <2>1, <1>3, <1>5
        <3>2. CASE k > Total
            <4>1. k - Total \in 1 .. kept
                BY <3>2, <1>5
            <4> QED
                BY <3>2, <4>1, <1>3, <1>5
        <3> QED
            BY <3>1, <3>2, <1>5
    <2>3. Sending + count \in Int /\ Sending + count >= Sending + kept /\ kept \in Nat
        BY <1>5
    <2> QED
        BY <2>1, <2>2, <2>3, <1>5, <1>7, RisingAdd
<1>9. OrderInv'
    <2>1. SUFFICES ASSUME ~reset_cut
                   PROVE  /\ parser # Nothing => parser > newest
                          /\ usb_pc # "parse" => chunk = <<>>
                          /\ \A k \in 1 .. Total + kept : Ahead(k)' \in Cells
                          /\ Rising(Numbers', Total + kept, Floor, Sending + count)
        BY <1>2, <1>3, <1>4, <1>5 DEF OrderInv, Rising
    <2>2. (parser # Nothing => parser > newest) /\ (usb_pc # "parse" => chunk = <<>>)
        BY <2>1 DEF LinkInv, OrderInv
    <2> QED
        BY <2>1, <2>2, <1>8
<1>10. HostInv' /\ OnceInv'
    BY <1>2 DEF LinkInv, HostInv, OnceInv
<1>11. ASSUME ExactInv
       PROVE  ExactInv'
    <2>1. SUFFICES ASSUME is_open, ~lost, ~(kept < count)
                   PROVE  /\ parser \in {Nothing, newest + 1}
                          /\ Gapless(Numbers', Total + kept, Floor, Sending + count)
        BY <1>2, <1>3, <1>4, <1>5 DEF ExactInv, Gapless
    <2>2. kept = count
        BY <2>1
    <2>3. /\ parser \in {Nothing, newest + 1} /\ Sending = Floor + Total
          /\ \A k \in 1 .. Total : Numbers[k] = Floor + k - 1
        BY <1>11, <2>1 DEF ExactInv, Gapless
    <2>4. ASSUME NEW k \in 1 .. Total + kept
          PROVE  Numbers'[k] = Floor + k - 1
        <3>1. CASE k <= Total
            BY <3>1, <2>3, <1>5, <1>7
        <3>2. CASE k > Total
            <4>1. PICK j \in 1 .. kept : k = Total + j
                BY <3>2, <1>5
            <4>2. Numbers'[k] = Sending + j - 1
                BY <4>1, <1>7
            <4> QED
                BY <4>1, <4>2, <2>3, <1>5
        <3> QED
            BY <3>1, <3>2, <1>5
    <2>5. Sending + count = Floor + (Total + kept)
        BY <2>2, <2>3, <1>5
    <2> QED
        BY <2>3, <2>4, <2>5 DEF Gapless
<1> QED
    BY <1>6, <1>9, <1>10, <1>11 DEF LinkInv

LEMMA BusResetLink ==
    ASSUME LinkInv, BusReset
    PROVE  LinkInv' /\ ExactInv'
<1>1. /\ UNCHANGED <<chunk, parser, newest, reset_cut, twice, usb_pc, sent, rx_ring>>
      /\ is_open' = FALSE /\ waiting' = FALSE /\ wire_out' = <<>> /\ rx_head' = 0 /\ rx_tail' = 0
    BY DEF BusReset, Reset, IndicesCleared, serviceVars
<1>2. /\ Total' <= Total /\ Total' \in Nat /\ Total \in Nat /\ Floor \in Int /\ Sending \in Int
      /\ \A k \in 1 .. Total' : Ahead(k)' = Ahead(k)
    BY ResetClears, TheNumbers DEF LinkInv
<1>3. Floor' = Floor /\ Sending' \in Int /\ Sending' >= Sending
    <2>1. Floor' = Floor
        BY <1>1 DEF Floor
    <2>2. Sending' = 2 * sent - 0
        BY <1>1 DEF Sending
    <2>3. Sending <= 2 * sent /\ sent \in Nat
        BY WireNumbers, UsbAssumption DEF LinkInv, ChannelTypes
    <2> QED
        BY <2>1, <2>2, <2>3, <1>2
<1>4. ChannelTypes'
    BY <1>1, RingIs DEF LinkInv, ChannelTypes, WireStates
<1>5. OrderInv'
    <2> DEFINE left == Total'
               top == Sending'
    <2>1. \A k \in 1 .. left : Numbers'[k] = Numbers[k] /\ k \in 1 .. Total
        BY <1>2 DEF Numbers, No
    <2>2. left \in Nat /\ left <= Total /\ top \in Int /\ top >= Sending
          /\ \A k \in 1 .. left : Ahead(k)' = Ahead(k)
        BY <1>2, <1>3
    <2>3. SUFFICES ASSUME ~reset_cut
                   PROVE  /\ parser # Nothing => parser > newest
                          /\ usb_pc # "parse" => chunk = <<>>
                          /\ \A k \in 1 .. left : Ahead(k)' \in Cells
                          /\ Rising(Numbers', left, Floor, top)
        BY <1>1, <1>3 DEF OrderInv, Rising
    <2>4. /\ parser # Nothing => parser > newest
          /\ usb_pc # "parse" => chunk = <<>>
          /\ \A k \in 1 .. Total : Ahead(k) \in Cells
          /\ Rising(Numbers, Total, Floor, Sending)
        BY <2>3 DEF LinkInv, OrderInv
    <2> HIDE DEF left, top
    <2>5. \A k \in 1 .. left : Ahead(k)' \in Cells
        BY <2>1, <2>2, <2>4
    <2>6. Rising(Numbers', left, Floor, top)
        <3>1. \A k \in 1 .. left : Numbers'[k] = Numbers[k]
            BY <2>1
        <3>2. Floor <= Floor
            BY <1>2
        <3> QED
            BY <3>1, <3>2, <2>2, <2>4, <1>2, RisingSame
    <2> QED
        BY <2>4, <2>5, <2>6
<1> QED
    BY <1>1, <1>4, <1>5 DEF LinkInv, HostInv, OnceInv, ExactInv

LEMMA ReadRingLink ==
    ASSUME LinkInv, ReadRing
    PROVE  /\ LinkInv'
           /\ ExactInv => ExactInv'
<1>1. /\ UNCHANGED <<parser, newest, reset_cut, twice, is_open, waiting, wire_out, sent, lost,
                     rx_ring, rx_head>>
      /\ usb_pc = "read" /\ usb_pc' = "parse"
    BY DEF ReadRing, sessionVars, historyVars, lossVars
<1>2. ChannelTypes'
    <2>1. /\ Readable \in 0 .. Used /\ Len(chunk) + Readable <= ReadMax /\ Len(chunk) \in Nat
          /\ chunk \in Seq(CellsOrNone)
        <3>1. 0 \in 0 .. Readable
            BY UsedIs, UsbAssumption DEF LinkInv, ChannelTypes, Readable, Lesser
        <3> QED
            BY <3>1, FirstAre DEF LinkInv, ChannelTypes
    <2>2. /\ FirstCells(Readable) \in Seq(CellsOrNone) /\ Len(FirstCells(Readable)) = Readable
          /\ Ring(rx_tail + Readable) \in 0 .. RingCells - 1
        <3>1. Readable \in 0 .. Readable
            BY <2>1, UsedIs DEF LinkInv
        <3> QED
            BY <3>1, FirstAre DEF LinkInv
    <2>3. chunk' \in Seq(CellsOrNone) /\ Len(chunk') <= ReadMax
        <3>1. chunk' = chunk \o FirstCells(Readable)
            BY DEF ReadRing
        <3> QED
            BY <2>1, <2>2, <3>1, ConcatProperties
    <2>4. rx_tail' \in 0 .. RingCells - 1
        BY <2>2 DEF ReadRing
    <2> QED
        BY <1>1, <2>3, <2>4 DEF LinkInv, ChannelTypes, WireStates
<1>3. HostInv' /\ OnceInv'
    BY <1>1 DEF LinkInv, HostInv, OnceInv
<1>4. ASSUME ~reset_cut
      PROVE  /\ Total' = Total /\ Numbers' = Numbers /\ Floor' = Floor /\ Sending' = Sending
             /\ \A k \in 1 .. Total : Ahead(k)' = Ahead(k)
    <2>1. chunk = <<>>
        BY <1>1, <1>4 DEF LinkInv, OrderInv
    <2>2. Total' = Total /\ \A k \in 1 .. Total : Ahead(k)' = Ahead(k)
        BY <2>1, ReadMoves DEF LinkInv
    <2>3. Numbers' = Numbers
        BY <2>2 DEF Numbers, No
    <2> QED
        BY <1>1, <2>2, <2>3 DEF Floor, Sending
<1>5. OrderInv'
    <2>1. SUFFICES ASSUME ~reset_cut
                   PROVE  /\ parser # Nothing => parser > newest
                          /\ \A k \in 1 .. Total : Ahead(k)' \in Cells
                          /\ Rising(Numbers, Total, Floor, Sending)
        BY <1>1, <1>4 DEF OrderInv, Rising
    <2> QED
        BY <2>1, <1>4 DEF LinkInv, OrderInv
<1>6. ASSUME ExactInv
      PROVE  ExactInv'
    <2>1. is_open => ~reset_cut
        BY DEF LinkInv, HostInv
    <2> QED
        BY <2>1, <1>1, <1>4, <1>6 DEF ExactInv, Gapless
<1> QED
    BY <1>2, <1>3, <1>5, <1>6 DEF LinkInv

LEMMA ResetInReadLink ==
    ASSUME LinkInv, ResetInRead
    PROVE  LinkInv' /\ ExactInv'
<1>1. /\ UNCHANGED <<parser, newest, twice, sent, rx_ring>>
      /\ is_open' = FALSE /\ waiting' = FALSE /\ wire_out' = <<>> /\ rx_head' = 0 /\ reset_cut' = TRUE
    BY DEF ResetInRead, Reset
<1>2. PICK count \in 1 .. Readable :
        chunk' = chunk \o FirstCells(count) /\ rx_tail' \in {Ring(rx_tail + count), Ring(1)}
    BY DEF ResetInRead
<1>3. /\ Readable \in Nat /\ Len(chunk) + Readable <= ReadMax /\ Len(chunk) \in Nat
      /\ chunk \in Seq(CellsOrNone) /\ count \in 0 .. Readable
    <2>1. 0 \in 0 .. Readable
        BY UsedIs, UsbAssumption DEF LinkInv, ChannelTypes, Readable, Lesser
    <2>2. Readable \in 0 .. Used /\ Len(chunk) + Readable <= ReadMax
        BY <2>1, FirstAre DEF LinkInv
    <2>3. Used \in Nat
        BY TheNumbers DEF LinkInv
    <2> QED
        BY <1>2, <2>2, <2>3 DEF LinkInv, ChannelTypes
<1>4. /\ FirstCells(count) \in Seq(CellsOrNone) /\ Len(FirstCells(count)) = count
      /\ Ring(rx_tail + count) \in 0 .. RingCells - 1
    BY <1>3, FirstAre DEF LinkInv
<1>5. Ring(1) \in 0 .. RingCells - 1
    BY RingIs
<1>6. chunk' \in Seq(CellsOrNone) /\ Len(chunk') <= ReadMax
    <2>1. Len(chunk) + count <= ReadMax
        BY <1>3, UsbAssumption
    <2> QED
        BY <1>2, <1>3, <1>4, <2>1, ConcatProperties
<1>7. ChannelTypes'
    <2>1. rx_tail' \in 0 .. RingCells - 1 /\ rx_head' \in 0 .. RingCells - 1
        BY <1>1, <1>2, <1>4, <1>5, RingIs
    <2> QED
        BY <1>1, <1>6, <2>1 DEF LinkInv, ChannelTypes, WireStates
<1> QED
    BY <1>1, <1>7 DEF LinkInv, HostInv, OnceInv, ExactInv, OrderInv

(* What the parser does with the first cell on its way, by its number.      *)
LEMMA ParseCases ==
    ASSUME LinkInv, Parse
    PROVE  /\ UNCHANGED <<ringVars, usb_pc, sessionVars, reset_cut, lossVars>>
           /\ usb_pc = "parse" /\ chunk # <<>> /\ chunk' = Tail(chunk)
           /\ Head(chunk) \in CellsOrNone
           /\ \/ /\ parser = Nothing
                 /\ parser' = IF Head(chunk).half = 1 THEN Head(chunk).req ELSE Nothing
                 /\ newest' = newest /\ twice' = twice
              \/ /\ parser # Nothing /\ Continues(Head(chunk))
                 /\ parser' = Nothing /\ newest' = parser
                 /\ twice' = (twice \/ parser <= newest)
              \/ /\ parser # Nothing /\ ~Continues(Head(chunk))
                 /\ parser' = Nothing /\ newest' = newest /\ twice' = twice
<1>1. Head(chunk) \in CellsOrNone
    BY DEF Parse, LinkInv, ChannelTypes
<1> QED
    BY <1>1 DEF Parse, HandleFrame, lossVars

LEMMA ParseLink ==
    ASSUME LinkInv, Parse
    PROVE  /\ LinkInv'
           /\ ExactInv => ExactInv'
           /\ is_open /\ ~lost /\ ExactInv /\ newest' # newest =>
                 newest' = newest + 1 /\ newest' <= sent
<1>1. /\ UNCHANGED <<ringVars, usb_pc, sessionVars, reset_cut, lossVars>>
      /\ usb_pc = "parse" /\ chunk # <<>> /\ chunk' = Tail(chunk)
    BY ParseCases
<1> DEFINE c == Head(chunk)
<1>2. c \in CellsOrNone
    BY ParseCases
<1>3. /\ Total \in Nat /\ Total >= 1 /\ Total' = Total - 1
      /\ Ahead(1) = c
      /\ \A k \in 1 .. Total - 1 : Ahead(k)' = Ahead(k + 1)
      /\ chunk' \in Seq(CellsOrNone) /\ Len(chunk') <= ReadMax
    BY <1>1, ParseTakes DEF LinkInv
<1>4. /\ Numbers[1] = No(c) /\ Sending' = Sending
      /\ \A k \in 1 .. Total - 1 : Numbers'[k] = Numbers[k + 1]
    <2>1. Numbers[1] = No(c)
        BY <1>3 DEF Numbers
    <2>2. Sending' = Sending
        BY <1>1 DEF Sending, sessionVars
    <2>3. ASSUME NEW k \in 1 .. Total - 1
          PROVE  Numbers'[k] = Numbers[k + 1]
        <3>1. Numbers'[k] = No(Ahead(k)')
            BY <1>3 DEF Numbers, No
        <3>2. k + 1 \in 1 .. Total
            BY <1>3
        <3> QED
            BY <3>1, <3>2, <1>3 DEF Numbers
    <2> QED
        BY <2>1, <2>2, <2>3
<1>5. /\ \/ /\ parser = Nothing
            /\ parser' = IF c.half = 1 THEN c.req ELSE Nothing
            /\ newest' = newest /\ twice' = twice
         \/ /\ parser # Nothing /\ c.req = parser /\ c.half = 2
            /\ parser' = Nothing /\ newest' = parser
            /\ twice' = (twice \/ parser <= newest)
         \/ /\ parser # Nothing /\ ~(c.req = parser /\ c.half = 2)
            /\ parser' = Nothing /\ newest' = newest /\ twice' = twice
      /\ parser \in Nat /\ newest \in Nat /\ sent \in Nat
    BY ParseCases, UsbAssumption DEF Continues, LinkInv, ChannelTypes
<1> HIDE DEF c
<1>6. c.req \in Nat /\ c.half \in {1, 2}
    BY <1>2, UsbAssumption DEF CellsOrNone, Cells, NoCell, Requests, Nothing
<1>7. parser' \in Nat /\ newest' \in Nat
    BY <1>5, <1>6 DEF Nothing
<1>8. ChannelTypes' /\ HostInv'
    BY <1>1, <1>3, <1>7 DEF LinkInv, HostInv, ChannelTypes, WireStates, ringVars, sessionVars
<1>9. Floor \in Int /\ Sending \in Int /\ Sending <= 2 * sent
    BY TheNumbers, WireNumbers DEF LinkInv
<1>10. ASSUME ~reset_cut
       PROVE  /\ c \in Cells /\ c.req \in Nat \ {0}
              /\ c.half = 1 => No(c) = 2 * c.req - 2
              /\ c.half = 2 => No(c) = 2 * c.req - 1
              /\ \A k \in 1 .. Total : Ahead(k) \in Cells
              /\ parser # Nothing => parser > newest
              /\ Rising(Numbers, Total, Floor, Sending)
              /\ No(c) \in Int /\ Floor <= No(c) /\ No(c) < Sending
    <2>1. /\ \A k \in 1 .. Total : Ahead(k) \in Cells
          /\ parser # Nothing => parser > newest
          /\ Rising(Numbers, Total, Floor, Sending)
        BY <1>10 DEF LinkInv, OrderInv
    <2>2. 1 \in 1 .. Total
        BY <1>3
    <2>3. c \in Cells
        BY <2>1, <2>2, <1>3
    <2>4. No(c) \in Int /\ Floor <= No(c) /\ No(c) < Sending
        BY <2>1, <2>2, <1>4 DEF Rising
    <2> QED
        BY <2>1, <2>3, <2>4, NumberOf
<1>11. ASSUME ~reset_cut
       PROVE  /\ parser' # Nothing => parser' > newest'
              /\ Floor' \in Int /\ Floor' <= No(c) + 1
              /\ twice' => twice
    <2>1. Floor = IF parser = Nothing THEN 2 * newest ELSE 2 * parser - 1
        BY DEF Floor
    <2>2. Floor' = IF parser' = Nothing THEN 2 * newest' ELSE 2 * parser' - 1
        BY DEF Floor
    <2>3. CASE parser = Nothing
        <3>1. CASE c.half = 1
            <4>1. parser' = c.req /\ newest' = newest /\ twice' = twice
                BY <2>3, <3>1, <1>5
            <4>2. c.req # Nothing /\ No(c) = 2 * c.req - 2 /\ 2 * newest <= No(c)
                BY <2>1, <2>3, <3>1, <1>10, <1>11 DEF Nothing
            <4>3. Floor' = 2 * c.req - 1 /\ c.req > newest
                BY <2>2, <4>1, <4>2, <1>5, <1>6
            <4> QED
                BY <4>1, <4>2, <4>3, <1>6
        <3>2. CASE c.half = 2
            <4>1. parser' = Nothing /\ newest' = newest /\ twice' = twice
                BY <2>3, <3>2, <1>5
            <4>2. 2 * newest <= No(c) /\ No(c) \in Int
                BY <2>1, <2>3, <1>10, <1>11
            <4>3. Floor' = 2 * newest
                BY <2>2, <4>1
            <4> QED
                BY <4>1, <4>2, <4>3, <1>5
        <3> QED
            BY <3>1, <3>2, <1>6
    <2>4. CASE parser # Nothing /\ c.req = parser /\ c.half = 2
        <3>1. parser' = Nothing /\ newest' = parser /\ twice' = (twice \/ parser <= newest)
            BY <2>4, <1>5
        <3>2. parser > newest /\ No(c) = 2 * parser - 1
            BY <2>4, <1>10, <1>11
        <3>3. Floor' = 2 * parser
            BY <2>2, <3>1
        <3>4. twice' => twice
            <4>1. ~(parser <= newest)
                BY <3>2, <1>5
            <4> QED
                BY <3>1, <4>1
        <3> QED
            BY <3>1, <3>2, <3>3, <3>4, <1>5
    <2>5. CASE parser # Nothing /\ ~(c.req = parser /\ c.half = 2)
        <3>1. parser' = Nothing /\ newest' = newest /\ twice' = twice
            BY <2>5, <1>5
        <3>2. 2 * parser - 1 <= No(c) /\ parser > newest /\ No(c) \in Int
            BY <2>1, <2>5, <1>10, <1>11
        <3>3. Floor' = 2 * newest
            BY <2>2, <3>1
        <3> QED
            BY <3>1, <3>2, <3>3, <1>5
    <2> QED
        BY <2>3, <2>4, <2>5, <1>5
<1>12. OrderInv'
    <2> DEFINE rest == Floor'
    <2>1. rest = Floor'
        OBVIOUS
    <2> HIDE DEF rest
    <2>2. SUFFICES ASSUME ~reset_cut
                   PROVE  /\ parser' # Nothing => parser' > newest'
                          /\ \A k \in 1 .. Total - 1 : Ahead(k)' \in Cells
                          /\ Rising(Numbers', Total - 1, rest, Sending)
        BY <2>1, <1>1, <1>3, <1>4 DEF OrderInv, Rising
    <2>3. ASSUME NEW k \in 1 .. Total - 1
          PROVE  Ahead(k)' \in Cells
        <3>1. k + 1 \in 1 .. Total
            BY <1>3
        <3> QED
            BY <2>2, <3>1, <1>3, <1>10
    <2>4. Rising(Numbers', Total - 1, rest, Sending)
        <3>1. rest \in Int /\ rest <= Numbers[1] + 1
            BY <2>1, <2>2, <1>4, <1>11
        <3>2. Rising(Numbers, Total, Floor, Sending)
            BY <2>2, <1>10
        <3> QED
            BY <3>1, <3>2, <1>3, <1>4, <1>9, RisingDrop
    <2> QED
        BY <2>2, <2>3, <2>4, <1>11
<1>13. OnceInv'
    BY <1>1, <1>11 DEF LinkInv, OnceInv
<1>14. ASSUME ExactInv, is_open, ~lost
       PROVE  /\ parser' \in {Nothing, newest' + 1}
              /\ Floor' = Floor + 1
              /\ newest' # newest => newest' = newest + 1 /\ newest' <= sent
    <2>1. ~reset_cut
        BY <1>14 DEF LinkInv, HostInv
    <2>2. parser \in {Nothing, newest + 1} /\ Numbers[1] = Floor + 1 - 1
        <3>1. 1 \in 1 .. Total
            BY <1>3
        <3> QED
            BY <3>1, <1>14 DEF ExactInv, Gapless
    <2>3. No(c) = Floor
        BY <2>2, <1>4, <1>9
    <2>4. Floor = IF parser = Nothing THEN 2 * newest ELSE 2 * parser - 1
        BY DEF Floor
    <2>5. Floor' = IF parser' = Nothing THEN 2 * newest' ELSE 2 * parser' - 1
        BY DEF Floor
    <2>6. CASE parser = Nothing
        <3>1. c.half = 1 /\ c.req = newest + 1
            BY <2>1, <2>3, <2>4, <2>6, <1>5, <1>6, <1>10
        <3>2. parser' = newest + 1 /\ newest' = newest /\ parser' # Nothing
            BY <2>6, <3>1, <1>5 DEF Nothing
        <3>3. Floor' = 2 * (newest + 1) - 1 /\ Floor = 2 * newest
            BY <2>4, <2>5, <2>6, <3>2
        <3> QED
            BY <3>2, <3>3, <1>5
    <2>7. CASE parser = newest + 1
        <3>1. parser # Nothing /\ parser = newest + 1
            BY <2>7, <1>5 DEF Nothing
        <3>2. c.half = 2 /\ c.req = parser
            BY <2>1, <2>3, <2>4, <3>1, <1>5, <1>6, <1>10
        <3>3. parser' = Nothing /\ newest' = parser
            BY <3>1, <3>2, <1>5
        <3>4. Floor' = 2 * parser /\ Floor = 2 * parser - 1
            BY <2>4, <2>5, <3>1, <3>3
        <3>5. parser <= sent
            BY <2>1, <2>3, <3>4, <1>5, <1>9, <1>10
        <3> QED
            BY <3>1, <3>3, <3>4, <3>5, <1>5
    <2> QED
        BY <2>2, <2>6, <2>7
<1>15. ASSUME ExactInv
       PROVE  ExactInv'
    <2> DEFINE rest == Floor'
    <2>1. rest = Floor'
        OBVIOUS
    <2> HIDE DEF rest
    <2>2. SUFFICES ASSUME is_open, ~lost
                   PROVE  /\ parser' \in {Nothing, newest' + 1}
                          /\ Gapless(Numbers', Total - 1, rest, Sending)
        BY <2>1, <1>1, <1>3, <1>4 DEF ExactInv, Gapless, sessionVars, lossVars
    <2>3. rest = Floor + 1 /\ parser' \in {Nothing, newest' + 1}
        BY <2>1, <2>2, <1>14, <1>15
    <2>4. Sending = Floor + Total /\ \A k \in 1 .. Total : Numbers[k] = Floor + k - 1
        BY <2>2, <1>15 DEF ExactInv, Gapless
    <2>5. ASSUME NEW k \in 1 .. Total - 1
          PROVE  Numbers'[k] = rest + k - 1
        <3>1. k + 1 \in 1 .. Total /\ Numbers'[k] = Numbers[k + 1]
            BY <1>3, <1>4
        <3>2. Numbers[k + 1] = Floor + (k + 1) - 1
            BY <3>1, <2>4
        <3> QED
            BY <3>1, <3>2, <2>3, <1>9
    <2>6. Sending = rest + (Total - 1)
        BY <2>3, <2>4, <1>3, <1>9
    <2> QED
        BY <2>3, <2>5, <2>6 DEF Gapless
<1> QED
    BY <1>8, <1>12, <1>13, <1>14, <1>15 DEF LinkInv

(* The answer that the host waits for leaves neither its place nor the buffer *)
(* but for the host.                                                       *)
LEMMA AnswerStep ==
    ASSUME ServedInv, UsbNext
    PROVE  AnswerInv'
<1>1. /\ waiting => sent >= 1 /\ is_open
      /\ is_open => s_configured
      /\ sent \in Nat /\ newest \in Nat
      /\ wire_out # <<>> => waiting
    BY UsbAssumption DEF ServedInv, AnswerInv, LinkInv, ChannelTypes, HostInv
<1>2. ASSUME is_open, ~lost
      PROVE  /\ newest <= sent
             /\ s_tx_busy <=> in_flight
             /\ waiting /\ newest = sent =>
                   s_pending = sent \/ (in_flight /\ s_tx_buf = sent /\ ~tx_stalled)
    BY <1>2 DEF ServedInv, AnswerInv
<1>3. ASSUME NEW count \in 1 .. 2, BulkOut(count)
      PROVE  AnswerInv'
    BY <1>1, <1>2, <1>3 DEF AnswerInv, BulkOut, txVars, serviceVars
<1>4. ASSUME BulkIn
      PROVE  AnswerInv'
    BY <1>1, <1>2, <1>4 DEF AnswerInv, BulkIn, Matches, serviceVars, historyVars, lossVars
<1>5. ASSUME TransferLost
      PROVE  AnswerInv'
    BY <1>1, <1>5 DEF AnswerInv, TransferLost, sessionVars
<1>6. ASSUME TransferStalls
      PROVE  AnswerInv'
    BY <1>1, <1>2, <1>6 DEF AnswerInv, TransferStalls, serviceVars, sessionVars, historyVars, lossVars
<1>7. ASSUME BusReset \/ ResetInRead
      PROVE  AnswerInv'
    BY <1>7 DEF AnswerInv, BusReset, ResetInRead, Reset
<1>8. ASSUME Configured
      PROVE  AnswerInv'
    BY <1>1, <1>2, <1>8 DEF AnswerInv, Configured, txVars, serviceVars, sessionVars, historyVars, lossVars
<1>9. ASSUME Service
      PROVE  AnswerInv'
    <2>1. CASE s_pending # Nothing /\ Write(s_pending) /\ s_pending' = Nothing
        BY <1>1, <1>2, <1>9, <2>1
           DEF AnswerInv, Service, Write, CanWrite, historyVars, lossVars
    <2>2. CASE UNCHANGED <<s_pending, txVars>>
        BY <1>1, <1>2, <1>9, <2>2 DEF AnswerInv, Service, txVars, historyVars, lossVars
    <2> QED
        BY <2>1, <2>2, <1>9 DEF Service
<1>10. ASSUME ReadRing
       PROVE  AnswerInv'
    BY <1>1, <1>2, <1>10 DEF AnswerInv, ReadRing, txVars, sessionVars, historyVars, lossVars
<1>11. ASSUME Parse
       PROVE  AnswerInv'
    <2>1. /\ UNCHANGED <<s_configured, is_open, sent, waiting, lost>>
          /\ \/ UNCHANGED <<txVars, s_pending, newest>>
             \/ newest' = parser /\ Answer(parser)
        BY <1>11 DEF Parse, sessionVars, lossVars, HandleFrame
    <2>2. CASE UNCHANGED <<txVars, s_pending, newest>>
        BY <1>1, <1>2, <2>1, <2>2 DEF AnswerInv, txVars
    <2>3. CASE newest' = parser /\ Answer(parser)
        <3>1. SUFFICES ASSUME is_open, ~lost
                       PROVE  /\ newest' <= sent
                              /\ s_tx_busy' <=> in_flight'
                              /\ waiting /\ newest' = sent =>
                                    \/ s_pending' = sent
                                    \/ in_flight' /\ s_tx_buf' = sent /\ ~tx_stalled'
            BY <1>1, <2>1 DEF AnswerInv
        <3>2. newest' <= sent
            <4>1. newest' # newest => newest' <= sent
                BY <3>1, <1>11, ParseLink DEF ServedInv
            <4> QED
                BY <4>1, <3>1, <1>1, <1>2
        <3>3. CASE Write(parser)
            BY <3>2, <3>3, <2>3, <1>1 DEF Write
        <3>4. CASE s_pending' = parser /\ UNCHANGED txVars
            BY <3>1, <3>2, <3>4, <2>3, <1>1, <1>2 DEF txVars
        <3> QED
            BY <3>3, <3>4, <2>3 DEF Answer
    <2> QED
        BY <2>1, <2>2, <2>3
<1>12. ASSUME Stream
       PROVE  AnswerInv'
    <2>1. CASE Write(Telemetry)
        BY <1>1, <1>2, <1>12, <2>1
           DEF AnswerInv, Stream, Write, CanWrite, sessionVars, historyVars, lossVars
    <2>2. CASE UNCHANGED txVars
        BY <1>1, <1>2, <1>12, <2>2 DEF AnswerInv, Stream, txVars, sessionVars, historyVars, lossVars
    <2> QED
        BY <2>1, <2>2, <1>12 DEF Stream
<1>13. ASSUME HostTimesOut \/ \E attempts \in {1, ReadRetries + 1} : Ask(attempts)
       PROVE  AnswerInv'
    <2>1. /\ UNCHANGED <<s_configured, is_open, newest, lost, s_tx_busy, in_flight>>
          /\ wire_out = <<>>
        BY <1>1, <1>13 DEF HostTimesOut, Ask, txVars, historyVars, lossVars
    <2>2. CASE \E attempts : Send(attempts)
        <3>1. sent' = sent + 1
            BY <2>2 DEF Send
        <3>2. is_open /\ ~lost => newest <= sent /\ (s_tx_busy <=> in_flight)
            BY <1>2
        <3>3. is_open /\ ~lost => newest <= sent + 1 /\ newest # sent + 1
            BY <3>2, <1>1
        <3> QED
            BY <2>1, <3>1, <3>2, <3>3, <1>1 DEF AnswerInv
    <2>3. CASE waiting' = FALSE /\ sent' = sent
        BY <2>1, <2>3, <1>1, <1>2 DEF AnswerInv
    <2> QED
        BY <2>2, <2>3, <1>13 DEF HostTimesOut, Ask
<1> QED
    BY <1>3, <1>4, <1>5, <1>6, <1>7, <1>8, <1>9, <1>10, <1>11, <1>12, <1>13 DEF UsbNext

(* When nothing is left to do and the host still waits, something is lost.   *)
LEMMA LossStep ==
    ASSUME ServedInv, UsbNext
    PROVE  LostInv'
<1>1. unanswered' => unanswered \/ (HostTimesOut /\ Quiet)
    BY DEF UsbNext, BulkOut, BulkIn, TransferLost, TransferStalls, BusReset, ResetInRead, Reset,
           Configured, Service, ReadRing, Parse, Stream, HostTimesOut, Ask, historyVars, lossVars
<1>2. lost => lost'
    BY DEF UsbNext, BulkOut, BulkIn, TransferLost, TransferStalls, BusReset, ResetInRead, Reset,
           Configured, Service, ReadRing, Parse, Stream, HostTimesOut, Ask, historyVars, lossVars
<1>3. ASSUME HostTimesOut, Quiet, ~lost
      PROVE  FALSE
    <2>1. waiting /\ wire_out = <<>> /\ ~in_flight /\ is_open /\ sent >= 1 /\ sent \in Nat
          /\ newest \in Nat
        BY <1>3, UsbAssumption DEF HostTimesOut, ServedInv, LinkInv, HostInv, AnswerInv, ChannelTypes
    <2>2. ~reset_cut
        BY <2>1 DEF ServedInv, LinkInv, HostInv
    <2>3. Total = 0 /\ Floor \in Int
        <3>1. chunk = <<>> /\ Used = 0
            BY <1>3, <2>2 DEF Quiet, ServedInv, LinkInv, OrderInv
        <3> QED
            BY <3>1, TheNumbers DEF Total, ServedInv, LinkInv
    <2>4. Sending = 2 * sent
        BY <2>1, WireNumbers DEF ServedInv, LinkInv
    <2>5. parser \in {Nothing, newest + 1} /\ Sending = Floor
        BY <1>3, <2>1, <2>3, <2>4 DEF ServedInv, ExactInv, Gapless
    <2>6. newest = sent
        <3>1. Floor = IF parser = Nothing THEN 2 * newest ELSE 2 * parser - 1
            BY DEF Floor
        <3> QED
            BY <3>1, <2>1, <2>4, <2>5
    <2>7. s_pending = sent
        BY <1>3, <2>1, <2>6 DEF ServedInv, AnswerInv
    <2> QED
        BY <1>3, <2>1, <2>7 DEF Quiet, Nothing
<1> QED
    BY <1>1, <1>2, <1>3 DEF ServedInv, LostInv

LEMMA ServedStep ==
    ASSUME ServedInv, [UsbNext]_usbVars
    PROVE  ServedInv'
<1>1. CASE UsbNext
    <2>1. LinkInv' /\ ExactInv'
        BY <1>1, AsideLink, BulkOutLink, BusResetLink, ReadRingLink, ResetInReadLink, ParseLink
           DEF UsbNext, Aside, ServedInv
    <2> QED
        BY <1>1, <2>1, AnswerStep, LossStep DEF ServedInv
<1>2. CASE UNCHANGED usbVars
    <2>1. UNCHANGED <<ringVars, chunk>>
        BY <1>2 DEF usbVars, serviceVars
    <2>2. Total' = Total /\ Numbers' = Numbers /\ \A k \in Int : Ahead(k)' = Ahead(k)
        BY <2>1, ChannelSame
    <2>3. UNCHANGED <<rx_ring, rx_head, rx_tail, chunk, parser, newest, sent, wire_out, waiting, is_open,
                      reset_cut, twice, usb_pc, lost, unanswered, s_configured, s_tx_busy,
                      in_flight, s_pending, s_tx_buf, tx_stalled>>
        BY <1>2 DEF usbVars, ringVars, txVars, serviceVars, sessionVars, historyVars, lossVars
    <2>4. Floor' = Floor /\ Sending' = Sending
        BY <2>3 DEF Floor, Sending
    <2>5. ChannelTypes' /\ HostInv' /\ OnceInv' /\ AnswerInv' /\ LostInv'
        BY <2>3 DEF ServedInv, LinkInv, ChannelTypes, WireStates, HostInv, OnceInv, AnswerInv, LostInv
    <2>6. OrderInv'
        BY <2>1, <2>3, <2>4, StepAside DEF ServedInv
    <2>7. ExactInv'
        BY <2>1, <2>3, <2>4, StepAside DEF ServedInv
    <2> QED
        BY <2>5, <2>6, <2>7 DEF ServedInv, LinkInv
<1> QED
    BY <1>1, <1>2

(***************************************************************************)
(* The theorems.                                                           *)
(***************************************************************************)
(* The order of the numbers on their way, the answer that is pending or being *)
(* sent, and what the two properties below need of them                      *)
(* (drv_usb_cdc.c:405, app_usb_proto.c:926).                                *)
LEMMA LinkHolds == UsbSpec => []ServedInv
<1>1. UsbInit => ServedInv
    BY InitServed
<1>2. ServedInv /\ [UsbNext]_usbVars => ServedInv'
    BY ServedStep
<1> QED
    BY <1>1, <1>2, PTL DEF UsbSpec

(* Requests are executed in order and at most once, for every size of the    *)
(* ring and of a read, whatever is dropped and reset, unless a bus reset fell *)
(* between load and store of the tail (drv_usb_cdc.c:405, 811).             *)
THEOREM RequestsOnce == UsbSpec => []ExecutedOnce
<1>1. ServedInv => ExecutedOnce
    BY DEF ServedInv, LinkInv, OnceInv, ExecutedOnce
<1> QED
    BY <1>1, LinkHolds, PTL

(* A request without an answer means that the ring or the controller has lost *)
(* something, for every patience of the host and number of retries            *)
(* (app_usb_proto.c:926, 1060).                                            *)
THEOREM AnswersReachHost == UsbSpec => []UnansweredMeansLost
<1>1. ServedInv => UnansweredMeansLost
    BY DEF ServedInv, LostInv, UnansweredMeansLost
<1> QED
    BY <1>1, LinkHolds, PTL

(***************************************************************************)
(* Types.                                                                  *)
(***************************************************************************)
LinkMarks ==
    /\ s_configured \in BOOLEAN /\ s_tx_busy \in BOOLEAN /\ tx_stalled \in BOOLEAN
    /\ in_flight \in BOOLEAN /\ is_open \in BOOLEAN /\ waiting \in BOOLEAN
    /\ twice \in BOOLEAN /\ reset_cut \in BOOLEAN /\ lost \in BOOLEAN
    /\ unanswered \in BOOLEAN /\ usb_pc \in {"idle", "read", "parse"}
AnyFrame == Requests \cup {Telemetry, Nothing}
FrameTypes ==
    /\ s_tx_buf \in AnyFrame /\ s_pending \in AnyFrame
    /\ parser \in Requests \cup {Nothing} /\ newest \in Requests \cup {Nothing}
PatienceTypes ==
    /\ tries_left \in 0 .. ReadRetries + 1 /\ waited \in 0 .. HostPatience
    /\ resets \in 0 .. MaxResets

LEMMA LinkMarksStep ==
    ASSUME LinkMarks, [UsbNext]_usbVars
    PROVE  LinkMarks'
<1> USE DEF LinkMarks
<1>1. \A frame : Write(frame) => s_tx_busy' = TRUE /\ tx_stalled' = FALSE /\ in_flight' = TRUE
    BY DEF Write
<1>2. \A attempts : Send(attempts) => waiting' = TRUE
    BY DEF Send
<1>3. CASE \E count \in 1 .. 2 : BulkOut(count)
  <2>1. lost' \in BOOLEAN /\ UNCHANGED <<s_configured, s_tx_busy, tx_stalled, in_flight, is_open,
                                         waiting, twice, reset_cut, unanswered, usb_pc>>
    <3>1. PICK kept, count : lost' = (lost \/ kept < count)
        BY <1>3 DEF BulkOut
    <3>2. UNCHANGED <<s_configured, s_tx_busy, tx_stalled, in_flight, is_open, waiting, twice,
                      reset_cut, unanswered, usb_pc>>
        BY <1>3 DEF BulkOut, txVars, serviceVars
    <3> QED
        BY <3>1, <3>2
  <2> QED
      BY <2>1
<1>4. CASE BulkIn \/ TransferLost \/ TransferStalls
    BY <1>4 DEF BulkIn, TransferLost, TransferStalls, serviceVars, sessionVars, historyVars, lossVars
<1>5. CASE BusReset \/ ResetInRead
    BY <1>5 DEF BusReset, ResetInRead, Reset, serviceVars, lossVars
<1>11. CASE Configured
    BY <1>11 DEF Configured, txVars, serviceVars, sessionVars, historyVars, lossVars
<1>6. CASE Service
  <2>1. s_tx_busy' \in BOOLEAN /\ tx_stalled' \in BOOLEAN /\ in_flight' \in BOOLEAN
      BY <1>1, <1>6 DEF Service, txVars
  <2>2. usb_pc' = "read" /\ UNCHANGED <<s_configured, is_open, waiting, twice, reset_cut, lost,
                                        unanswered>>
      BY <1>6 DEF Service, historyVars, lossVars
  <2> QED
      BY <2>1, <2>2
<1>12. CASE ReadRing
  <2>1. usb_pc' = "parse" /\ UNCHANGED <<s_configured, s_tx_busy, tx_stalled, in_flight, is_open,
                                         waiting, twice, reset_cut, lost, unanswered>>
      BY <1>12 DEF ReadRing, txVars, sessionVars, historyVars, lossVars
  <2> QED
      BY <2>1
<1>13. CASE Stream
  <2>1. s_tx_busy' \in BOOLEAN /\ tx_stalled' \in BOOLEAN /\ in_flight' \in BOOLEAN
      BY <1>1, <1>13 DEF Stream, txVars
  <2>2. usb_pc' = "idle" /\ UNCHANGED <<s_configured, is_open, waiting, twice, reset_cut, lost,
                                        unanswered>>
      BY <1>13 DEF Stream, sessionVars, historyVars, lossVars
  <2> QED
      BY <2>1, <2>2
<1>7. CASE Parse
  <2>1. twice' \in BOOLEAN
    <3>1. twice' = twice \/ \E req : twice' = (twice \/ req <= newest)
        BY <1>7 DEF Parse, HandleFrame
    <3> QED
        BY <3>1
  <2>2. s_tx_busy' \in BOOLEAN /\ tx_stalled' \in BOOLEAN /\ in_flight' \in BOOLEAN
      BY <1>1, <1>7 DEF Parse, HandleFrame, Answer, txVars
  <2> QED
      BY <1>7, <2>1, <2>2 DEF Parse, sessionVars, lossVars
<1>8. CASE HostTimesOut
    BY <1>2, <1>8 DEF HostTimesOut, serviceVars
<1>9. CASE \E attempts \in {1, ReadRetries + 1} : Ask(attempts)
    BY <1>2, <1>9 DEF Ask, txVars, serviceVars, historyVars, lossVars
<1>10. CASE UNCHANGED usbVars
    BY <1>10 DEF usbVars, txVars, serviceVars, sessionVars, historyVars, lossVars
<1> QED
    BY <1>3, <1>4, <1>5, <1>6, <1>7, <1>8, <1>9, <1>10, <1>11, <1>12, <1>13 DEF UsbNext

LEMMA FrameTypeStep ==
    ASSUME ChannelTypes, FrameTypes, [UsbNext]_usbVars
    PROVE  FrameTypes'
<1> USE DEF FrameTypes
<1>1. Nothing \in AnyFrame /\ Telemetry \in AnyFrame /\ Requests \subseteq AnyFrame
    BY DEF AnyFrame
<1>2. \A frame : Write(frame) => s_tx_buf' = frame
    BY DEF Write
<1>3. CASE BulkIn \/ TransferLost \/ BusReset \/ ResetInRead
    BY <1>1, <1>3 DEF BulkIn, TransferLost, BusReset, ResetInRead, Reset, serviceVars, historyVars
<1>4. CASE Service \/ Stream
    BY <1>1, <1>2, <1>4 DEF Service, Stream, txVars, historyVars
<1>5. CASE Parse
  <2>1. Head(chunk) \in CellsOrNone
      BY <1>5, HeadTailProperties DEF Parse, ChannelTypes
  <2>2. Head(chunk).req \in Requests \cup {Nothing}
      BY <2>1 DEF CellsOrNone, Cells, NoCell
  <2>3. CASE parser = Nothing
      BY <1>1, <1>5, <2>2, <2>3 DEF Parse, txVars
  <2>4. CASE parser # Nothing /\ Continues(Head(chunk))
    <3>1. parser \in Requests /\ HandleFrame(parser) /\ parser' = Nothing
        BY <1>5, <2>4 DEF Parse
    <3> QED
        BY <1>1, <1>2, <3>1 DEF HandleFrame, Answer, txVars
  <2>5. CASE parser # Nothing /\ ~Continues(Head(chunk))
      BY <1>1, <1>5, <2>5 DEF Parse, txVars
  <2> QED
      BY <2>3, <2>4, <2>5
<1>6. CASE UNCHANGED <<s_tx_buf, s_pending, parser, newest>>
    BY <1>6
<1> QED
    BY <1>3, <1>4, <1>5, <1>6
       DEF UsbNext, BulkOut, TransferStalls, Configured, ReadRing, HostTimesOut, Ask, usbVars,
           txVars, serviceVars, historyVars

LEMMA PatienceStep ==
    ASSUME PatienceTypes, [UsbNext]_usbVars
    PROVE  PatienceTypes'
<1> USE DEF PatienceTypes
<1>1. ReadRetries \in Nat /\ HostPatience \in Nat /\ MaxResets \in Nat
    BY UsbAssumption
<1>2. ASSUME NEW attempts \in 1 .. ReadRetries + 1, Send(attempts)
      PROVE  tries_left' \in 0 .. ReadRetries + 1
    BY <1>1, <1>2 DEF Send
<1>3. CASE HostTimesOut
  <2>1. waited' \in 0 .. HostPatience /\ resets' = resets
      BY <1>1, <1>3 DEF HostTimesOut
  <2>2. tries_left' \in 0 .. ReadRetries + 1
      BY <1>1, <1>2, <1>3 DEF HostTimesOut
  <2> QED
      BY <2>1, <2>2
<1>4. CASE \E attempts \in {1, ReadRetries + 1} : Ask(attempts)
    BY <1>1, <1>2, <1>4 DEF Ask, historyVars
<1>5. CASE BusReset \/ ResetInRead
    BY <1>1, <1>5 DEF BusReset, ResetInRead, Reset
<1>6. CASE BulkIn \/ Service
    BY <1>1, <1>6 DEF BulkIn, Service, historyVars
<1>7. CASE UNCHANGED <<tries_left, waited, resets>>
    BY <1>7
<1> QED
    BY <1>3, <1>4, <1>5, <1>6, <1>7
       DEF UsbNext, BulkOut, TransferLost, TransferStalls, Configured, ReadRing, Parse, Stream,
           usbVars, sessionVars, historyVars

(* The ring, the buffers and the counters of the link keep their types.      *)
LEMMA UsbTypeCorrect == UsbSpec => []UsbTypeOK
<1> DEFINE Typed == ServedInv /\ LinkMarks /\ FrameTypes /\ PatienceTypes
<1>1. UsbInit => Typed
  <2> SUFFICES ASSUME UsbInit PROVE Typed
      OBVIOUS
  <2>1. LinkMarks /\ FrameTypes
      BY DEF UsbInit, LinkMarks, FrameTypes, AnyFrame
  <2>2. PatienceTypes
      BY UsbAssumption DEF UsbInit, PatienceTypes
  <2> QED
      BY <2>1, <2>2, InitServed
<1>2. Typed /\ [UsbNext]_usbVars => Typed'
    BY ServedStep, LinkMarksStep, FrameTypeStep, PatienceStep DEF ServedInv, LinkInv
<1>3. Typed => UsbTypeOK
  <2> SUFFICES ASSUME Typed PROVE UsbTypeOK
      OBVIOUS
  <2>1. ChannelTypes
      BY DEF ServedInv, LinkInv
  <2>2. {s_configured, s_tx_busy, tx_stalled, in_flight, is_open, waiting, twice, reset_cut, lost,
         unanswered} \subseteq BOOLEAN
      BY DEF LinkMarks
  <2>3. sent \in Requests \cup {Nothing}
      BY <2>1, UsbAssumption DEF ChannelTypes, Requests, Nothing
  <2>4. Len(wire_out) <= 2
    <3> HIDE DEF Typed
    <3>1. \A size \in 0 .. 2 : size <= 2
        OBVIOUS
    <3>2. Len(wire_out) \in 0 .. 2
        BY <2>1, WireNumbers DEF ServedInv, LinkInv, Typed
    <3> QED
        BY <3>1, <3>2
  <2> QED
      BY <2>1, <2>2, <2>3, <2>4
         DEF UsbTypeOK, LinkMarks, FrameTypes, AnyFrame, PatienceTypes, ChannelTypes, CellsOrNone
<1> QED
    BY <1>1, <1>2, <1>3, PTL DEF UsbSpec
=============================================================================
