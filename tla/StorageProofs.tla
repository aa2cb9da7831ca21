--------------------------- MODULE StorageProofs ---------------------------
(***************************************************************************)
(* What the flash keeps: theorems about boot and update and about the       *)
(* parameter store, for every size of the log and of the sectors, every set *)
(* of keys and values and every number of failures.                         *)
(*                                                                         *)
(* The provers take no induction theorem with a predicate for a parameter;  *)
(* here it is stated for a set of numbers, and what the scan of the boot log *)
(* finds is proved with it, record by record.                               *)
(***************************************************************************)
EXTENDS FirmwareUpdate, ParamStore, WellFoundedInduction, TLAPS

(***************************************************************************)
(* Induction over the naturals, for a set of numbers in place of a          *)
(* predicate.                                                              *)
(***************************************************************************)
Below == {p \in Nat \X Nat : p[1] < p[2]}

LEMMA BelowWellFounded == IsWellFoundedOn(Below, Nat)
BY NatLessThanWellFounded DEF OpToRel, Below

LEMMA LeastElement ==
    ASSUME NEW S, S \subseteq Nat, S # {}
    PROVE  \E n \in S : \A m \in S : n <= m
<1>1. PICK n \in S : \A m \in S : <<m, n>> \notin Below
    BY BelowWellFounded, WFMin
<1>2. SUFFICES ASSUME NEW m \in S PROVE n <= m
    OBVIOUS
<1>3. n \in Nat /\ m \in Nat
    OBVIOUS
<1>4. ~ (m < n)
    BY <1>1, <1>3 DEF Below
<1> QED
    BY <1>3, <1>4

LEMMA SetInduction ==
    ASSUME NEW S, 0 \in S, \A n \in Nat : n \in S => n + 1 \in S
    PROVE  \A n \in Nat : n \in S
<1>1. SUFFICES ASSUME NEW k \in Nat, k \notin S PROVE FALSE
    OBVIOUS
<1> DEFINE Outside == {n \in Nat : n \notin S}
<1>2. PICK n \in Outside : \A m \in Outside : n <= m
    <2>1. Outside \subseteq Nat /\ Outside # {}
        BY <1>1
    <2> QED
        BY <2>1, LeastElement
<1>3. n # 0 /\ n \in Nat
    BY <1>2
<1>4. n - 1 \in Nat /\ n - 1 \notin Outside
    BY <1>2, <1>3
<1> QED
    BY <1>2, <1>3, <1>4

(***************************************************************************)
(* The log.                                                                *)
(***************************************************************************)
WholeRecords == [active : Slots, pending : Slots \cup {NoSlot}, attempts : Nat,
                 confirmed : BOOLEAN, seq : 0 .. SeqWrap - 1]
Records == WholeRecords \cup {Torn}

LEMMA TornIsNotWhole == Torn \notin WholeRecords
BY DEF Torn, WholeRecords, Record, NoSlot, Slots

LEMMA NewerType == \A best, r \in Records : Newer(best, r) \in Records
BY DEF Newer

(* What the scan knows after each of its first k slots.                     *)
Follows(f, log, k) ==
    \A n \in 0 .. k : f[n] = IF n = 0 THEN NoRecord ELSE Newer(f[n - 1], log[n])
Scanned(f, log, k) == f \in [0 .. k -> Records] /\ Follows(f, log, k)

LEMMA ScanStep ==
    ASSUME NEW log \in Seq(Records), NEW k \in Nat, k + 1 <= Len(log),
           NEW f, Scanned(f, log, k)
    PROVE  Scanned([n \in 0 .. k + 1 |-> IF n <= k THEN f[n] ELSE Newer(f[k], log[k + 1])],
                   log, k + 1)
<1> DEFINE g == [n \in 0 .. k + 1 |-> IF n <= k THEN f[n] ELSE Newer(f[k], log[k + 1])]
<1>1. f \in [0 .. k -> Records] /\ f[k] \in Records /\ log[k + 1] \in Records
    BY DEF Scanned, Follows
<1>2. g \in [0 .. k + 1 -> Records]
    <2>1. Newer(f[k], log[k + 1]) \in Records
        BY <1>1, NewerType
    <2> QED
        BY <1>1, <2>1
<1>3. ASSUME NEW n \in 0 .. k + 1
      PROVE  g[n] = IF n = 0 THEN NoRecord ELSE Newer(g[n - 1], log[n])
    <2>1. CASE n <= k
        <3>1. n \in 0 .. k /\ g[n] = f[n] /\ (n # 0 => g[n - 1] = f[n - 1])
            BY <2>1
        <3> QED
            BY <3>1 DEF Scanned, Follows
    <2>2. CASE n = k + 1
        BY <2>2
    <2> QED
        BY <2>1, <2>2
<1> QED
    BY <1>2, <1>3 DEF Scanned, Follows

LEMMA ScanExists ==
    ASSUME NEW log \in Seq(Records)
    PROVE  \E f : Scanned(f, log, Len(log))
<1> DEFINE Good == {k \in Nat : k <= Len(log) => \E f : Scanned(f, log, k)}
<1>1. 0 \in Good
    <2>1. Scanned([n \in 0 .. 0 |-> NoRecord], log, 0)
        BY DEF Scanned, Follows, Records, NoRecord
    <2> QED
        BY <2>1
<1>2. ASSUME NEW k \in Nat, k \in Good PROVE k + 1 \in Good
    <2>1. SUFFICES ASSUME k + 1 <= Len(log) PROVE \E f : Scanned(f, log, k + 1)
        OBVIOUS
    <2>2. PICK f : Scanned(f, log, k)
        BY <1>2, <2>1
    <2> QED
        BY <2>1, <2>2, ScanStep
<1>3. \A k \in Nat : k \in Good
    <2> HIDE DEF Good
    <2> QED
        BY <1>1, <1>2, SetInduction
<1> QED
    BY <1>3

LEMMA ScanUnique ==
    ASSUME NEW log, NEW longer, NEW k \in Nat, \A n \in 1 .. k : longer[n] = log[n],
           NEW m \in Nat, k <= m, NEW f, Follows(f, log, k), NEW g, Follows(g, longer, m)
    PROVE  g[k] = f[k]
<1> DEFINE Same == {n \in Nat : n <= k => g[n] = f[n]}
<1>1. 0 \in Same
    BY DEF Follows
<1>2. ASSUME NEW n \in Nat, n \in Same PROVE n + 1 \in Same
    <2>1. SUFFICES ASSUME n + 1 <= k PROVE g[n + 1] = f[n + 1]
        OBVIOUS
    <2>2. n + 1 \in 0 .. k /\ n + 1 \in 0 .. m /\ n + 1 # 0 /\ (n + 1) - 1 = n
        BY <2>1
    <2>3. g[n + 1] = Newer(g[n], longer[n + 1]) /\ f[n + 1] = Newer(f[n], log[n + 1])
        BY <2>2 DEF Follows
    <2>4. g[n] = f[n] /\ longer[n + 1] = log[n + 1]
        BY <1>2, <2>1
    <2> QED
        BY <2>3, <2>4
<1>3. \A n \in Nat : n \in Same
    <2> HIDE DEF Same
    <2> QED
        BY <1>1, <1>2, SetInduction
<1> QED
    BY <1>3

(* The scan's function exists and is the one that Load takes.                *)
LEMMA LoadIsScan ==
    ASSUME NEW log \in Seq(Records)
    PROVE  \E f : Scanned(f, log, Len(log)) /\ Load(log) = f[Len(log)]
<1> DEFINE Fixed(f) == f = [n \in 0 .. Len(log) |->
                              IF n = 0 THEN NoRecord ELSE Newer(f[n - 1], log[n])]
<1>1. \E f : Fixed(f)
    <2>1. PICK f : Scanned(f, log, Len(log))
        BY ScanExists
    <2>2. Fixed(f)
        BY <2>1 DEF Scanned, Follows
    <2> QED
        BY <2>2
<1> DEFINE best == CHOOSE f : Fixed(f)
<1>2. Fixed(best)
    <2> HIDE DEF Fixed
    <2> QED
        BY <1>1
<1>3. Load(log) = best[Len(log)]
    BY DEF Load
<1>4. PICK f : Scanned(f, log, Len(log))
    BY ScanExists
<1>5. Follows(f, log, Len(log)) /\ Follows(best, log, Len(log))
    <2>1. Len(log) \in Nat
        OBVIOUS
    <2>2. ASSUME NEW n \in 0 .. Len(log)
          PROVE  best[n] = IF n = 0 THEN NoRecord ELSE Newer(best[n - 1], log[n])
        <3> HIDE DEF best
        <3> QED
            BY <1>2
    <2> HIDE DEF best
    <2> QED
        BY <1>4, <2>2 DEF Scanned, Follows
<1>6. best[Len(log)] = f[Len(log)]
    <2>1. Len(log) \in Nat
        OBVIOUS
    <2> HIDE DEF best
    <2> QED
        BY <2>1, <1>5, ScanUnique
<1> QED
    BY <1>3, <1>4, <1>6

(* The newest record of a log, and how a record added changes it.           *)
LEMMA LoadType ==
    ASSUME NEW log \in Seq(Records)
    PROVE  Load(log) \in Records
BY LoadIsScan DEF Scanned

LEMMA LoadEmpty == Load(<<>>) = NoRecord
<1>1. <<>> \in Seq(Records) /\ Len(<<>>) = 0
    OBVIOUS
<1>2. PICK f : Scanned(f, <<>>, 0) /\ Load(<<>>) = f[0]
    BY <1>1, LoadIsScan
<1> QED
    BY <1>2 DEF Scanned, Follows

LEMMA LoadAppend ==
    ASSUME NEW log \in Seq(Records), NEW r \in Records
    PROVE  Load(Append(log, r)) = Newer(Load(log), r)
<1> DEFINE longer == Append(log, r)
           k == Len(log)
<1>1. /\ longer \in Seq(Records) /\ k \in Nat /\ Len(longer) = k + 1
      /\ longer[k + 1] = r /\ \A n \in 1 .. k : longer[n] = log[n]
    OBVIOUS
<1> HIDE DEF longer, k
<1>2. PICK f : Scanned(f, log, k) /\ Load(log) = f[k]
    BY LoadIsScan DEF k
<1>3. PICK g : Scanned(g, longer, k + 1) /\ Load(longer) = g[k + 1]
    BY <1>1, LoadIsScan
<1>4. g[k] = f[k]
    <2>1. Follows(f, log, k) /\ Follows(g, longer, k + 1)
        BY <1>2, <1>3 DEF Scanned
    <2> QED
        BY <1>1, <2>1, ScanUnique
<1>5. g[k + 1] = Newer(g[k], longer[k + 1])
    BY <1>1, <1>3 DEF Scanned, Follows
<1> QED
    BY <1>1, <1>2, <1>3, <1>4, <1>5 DEF longer

LEMMA LoadOne ==
    ASSUME NEW r \in Records
    PROVE  Load(<<r>>) = r
<1>1. <<r>> = Append(<<>>, r) /\ <<>> \in Seq(Records)
    OBVIOUS
<1>2. Load(Append(<<>>, r)) = Newer(NoRecord, r)
    BY <1>1, LoadAppend, LoadEmpty
<1> QED
    BY <1>1, <1>2 DEF Newer, NoRecord

(***************************************************************************)
(* The sequence number, and what a save makes of the log.                   *)
(***************************************************************************)
LEMMA NextIsNewer ==
    ASSUME NEW w \in Nat, w >= 4, NEW a \in 0 .. w - 1
    PROVE  /\ (a + 1) % w \in 0 .. w - 1
           /\ (((a + 1) % w) - a) % w \in 1 .. (w \div 2) - 1
<1>1. (a + 1) % w = IF a + 1 = w THEN 0 ELSE a + 1
    OBVIOUS
<1>2. (((a + 1) % w) - a) % w = 1
    BY <1>1
<1>3. w \div 2 - 1 >= 1 /\ w \div 2 \in Nat
    OBVIOUS
<1> QED
    BY <1>1, <1>2, <1>3

Log(log) == log \in Seq(Records) /\ Len(log) <= LogSize

LEMMA SavedLoads ==
    ASSUME NEW log, Log(log), NEW r \in WholeRecords
    PROVE  /\ Log(Saved(log, r))
           /\ Numbered(log, r) \in WholeRecords
           /\ Load(Saved(log, r)) = Numbered(log, r)
<1> DEFINE n == Numbered(log, r)
<1>1. SeqWrap \in Nat /\ SeqWrap >= 3 /\ LogSize \in Nat /\ LogSize >= 1
      /\ (LogSize > 1 => SeqWrap >= 4)
    BY LogAssumption
<1>2. Load(log) \in Records /\ (Load(log) # NoRecord => Load(log) \in WholeRecords)
    BY LoadType DEF Log, NoRecord, Records
<1>3. n \in WholeRecords
    <2>1. CASE Load(log) = NoRecord
        BY <1>1, <2>1 DEF Numbered, WholeRecords
    <2>2. CASE Load(log) # NoRecord
        <3>1. Load(log).seq \in 0 .. SeqWrap - 1
            BY <1>2, <2>2 DEF WholeRecords
        <3>2. (Load(log).seq + 1) % SeqWrap \in 0 .. SeqWrap - 1
            BY <1>1, <3>1
        <3> QED
            BY <2>2, <3>2 DEF Numbered, WholeRecords
    <2> QED
        BY <2>1, <2>2
<1>4. n \in Records /\ n # Torn
    BY <1>3, TornIsNotWhole DEF Records
<1>5. CASE Full(log)
    <2>1. Saved(log, r) = <<n>>
        BY <1>5 DEF Saved, Appended
    <2>2. Log(<<n>>)
        BY <1>1, <1>4 DEF Log
    <2> HIDE DEF n
    <2>3. Load(<<n>>) = n
        BY <1>4, LoadOne
    <2> QED
        BY <1>3, <2>1, <2>2, <2>3 DEF n
<1>6. CASE ~Full(log)
    <2>1. Saved(log, r) = Append(log, n)
        BY <1>6 DEF Saved, Appended
    <2>2. Log(Append(log, n))
        BY <1>1, <1>4, <1>6 DEF Log, Full
    <2>3. Load(Append(log, n)) = Newer(Load(log), n)
        <3> HIDE DEF n
        <3> QED
            BY <1>4, LoadAppend DEF Log
    <2>4. Newer(Load(log), n) = n
        <3>1. CASE Load(log) = NoRecord
            BY <1>4, <3>1 DEF Newer
        <3>2. CASE Load(log) # NoRecord
            <4>1. Len(log) # 0
                BY <3>2, LoadEmpty DEF Log
            <4>2. SeqWrap >= 4
                BY <1>1, <1>6, <4>1 DEF Full, Log
            <4>3. Load(log).seq \in 0 .. SeqWrap - 1
                BY <1>2, <3>2 DEF WholeRecords
            <4>4. n.seq = (Load(log).seq + 1) % SeqWrap
                BY <3>2 DEF Numbered, WholeRecords
            <4>5. SeqNewer(n.seq, Load(log).seq)
                BY <1>1, <4>2, <4>3, <4>4, NextIsNewer DEF SeqNewer
            <4> HIDE DEF n
            <4> QED
                BY <1>4, <3>2, <4>5 DEF Newer
        <3> QED
            BY <3>1, <3>2
    <2> HIDE DEF n
    <2>5. Load(Append(log, n)) = n
        BY <2>3, <2>4
    <2> QED
        BY <1>3, <2>1, <2>2, <2>5 DEF n
<1> QED
    BY <1>5, <1>6

LEMMA TornLoads ==
    ASSUME NEW log, Log(log), ~Full(log)
    PROVE  Log(Append(log, Torn)) /\ Load(Append(log, Torn)) = Load(log)
<1>1. Torn \in Records
    BY DEF Records
<1>2. Log(Append(log, Torn))
    BY <1>1, LogAssumption DEF Log, Full
<1>3. Load(Append(log, Torn)) = Newer(Load(log), Torn)
    BY <1>1, LoadAppend DEF Log
<1> QED
    BY <1>2, <1>3 DEF Newer

LEMMA CutShortLog ==
    ASSUME NEW log, Log(log), NEW left \in CutShort(log)
    PROVE  /\ Log(left)
           /\ ~Full(log) => Load(left) = Load(log)
<1>1. CASE Full(log)
    <2>1. left \in {log, <<>>, <<Torn>>}
        BY <1>1 DEF CutShort
    <2>2. Log(<<>>) /\ Log(<<Torn>>)
        BY LogAssumption DEF Log, Records
    <2> QED
        BY <1>1, <2>1, <2>2
<1>2. CASE ~Full(log)
    <2>1. left \in {log, Append(log, Torn)}
        BY <1>2 DEF CutShort
    <2> QED
        BY <1>2, <2>1, TornLoads
<1> QED
    BY <1>1, <1>2

(***************************************************************************)
(* The boot log as the program uses it.                                     *)
(***************************************************************************)
LEMMA ControlType ==
    ASSUME Log(control)
    PROVE  ctl \in WholeRecords
<1>1. Load(control) \in Records
    BY LoadType DEF Log
<1>2. Defaults \in WholeRecords
    BY LogAssumption DEF Defaults, Record, WholeRecords, Slots
<1> QED
    BY <1>1, <1>2 DEF ctl, LoadOrDefault, Records, NoRecord

LEMMA SaveReads ==
    ASSUME Log(control), NEW r \in WholeRecords, SaveDone(r)
    PROVE  /\ Log(control') /\ saved' \in WholeRecords /\ failures' = failures
           /\ Load(control') = saved' /\ ctl' = saved'
           /\ ctl'.active = r.active /\ ctl'.pending = r.pending
           /\ ctl'.attempts = r.attempts
<1>1. control' = Saved(control, r) /\ saved' = Numbered(control, r) /\ failures' = failures
    BY DEF SaveDone
<1>2. Log(control') /\ saved' \in WholeRecords /\ Load(control') = saved'
    BY <1>1, SavedLoads
<1>3. ctl' = saved'
    BY <1>2, TornIsNotWhole DEF ctl, LoadOrDefault, NoRecord
<1>4. /\ saved'.active = r.active /\ saved'.pending = r.pending
      /\ saved'.attempts = r.attempts
    BY <1>1 DEF Numbered, WholeRecords
<1> QED
    BY <1>1, <1>2, <1>3, <1>4

LEMMA FailureReads ==
    ASSUME Log(control), SaveFailed
    PROVE  /\ Log(control') /\ saved' = saved /\ failures' = failures + 1
           /\ ~LogCuts => Load(control') = Load(control) /\ ctl' = ctl
<1>1. saved' = saved /\ failures' = failures + 1
    BY DEF SaveFailed
<1>2. CASE ~Full(control) /\ control' = Append(control, Torn)
    <2>1. Log(control') /\ Load(control') = Load(control)
        BY <1>2, TornLoads
    <2> QED
        BY <1>1, <2>1 DEF ctl, LoadOrDefault
<1>3. CASE Full(control) /\ LogCuts /\ control' \in CutShort(control)
    BY <1>1, <1>3, CutShortLog
<1> QED
    BY <1>2, <1>3 DEF SaveFailed

LEMMA CutReads ==
    ASSUME Log(control), CutLog
    PROVE  /\ Log(control')
           /\ ~LogCuts => Load(control') = Load(control) /\ ctl' = ctl
<1>1. Log(control') /\ (~Full(control) => Load(control') = Load(control))
    BY CutShortLog DEF CutLog
<1> QED
    BY <1>1 DEF CutLog, ctl, LoadOrDefault

LEMMA RestReads ==
    ASSUME UNCHANGED control
    PROVE  Load(control') = Load(control) /\ ctl' = ctl
BY DEF ctl, LoadOrDefault

LEMMA ConfirmReads ==
    ASSUME Log(control), NEW s \in Slots, SaveConfirmed(s)
    PROVE  /\ Log(control')
           /\ \/ UNCHANGED <<control, saved, failures>> /\ ctl.active = s
              \/ SaveDone(Confirmed(s))
              \/ SaveFailed
           /\ Confirmed(s) \in WholeRecords
<1>1. Confirmed(s) \in WholeRecords
    BY LogAssumption DEF Confirmed, Record, WholeRecords, Slots
<1>2. CASE AlreadyConfirmed(s) /\ NoSave
    BY <1>1, <1>2 DEF AlreadyConfirmed, NoSave
<1>3. CASE SaveDone(Confirmed(s)) \/ SaveFailed
    BY <1>1, <1>3, SaveReads, FailureReads
<1> QED
    BY <1>2, <1>3 DEF SaveConfirmed

(* The records that the actions save.                                       *)
LEMMA SavedRecords ==
    ASSUME Log(control)
    PROVE  /\ [ctl EXCEPT !.attempts = @ + 1] \in WholeRecords
           /\ [ctl EXCEPT !.pending = NoSlot, !.attempts = 0] \in WholeRecords
           /\ \A s \in Slots :
                /\ [ctl EXCEPT !.pending = s, !.attempts = 0, !.confirmed = FALSE]
                     \in WholeRecords
                /\ Record(s, NoSlot, 0, FALSE, 0) \in WholeRecords
                /\ Other(s) \in Slots /\ Other(s) # s
<1>1. ctl \in WholeRecords
    BY ControlType
<1> HIDE DEF ctl
<1>2. [ctl EXCEPT !.attempts = @ + 1] \in WholeRecords
    BY <1>1 DEF WholeRecords
<1>3. [ctl EXCEPT !.pending = NoSlot, !.attempts = 0] \in WholeRecords
    BY <1>1 DEF WholeRecords
<1>4. ASSUME NEW s \in Slots
      PROVE  [ctl EXCEPT !.pending = s, !.attempts = 0, !.confirmed = FALSE] \in WholeRecords
    BY <1>1 DEF WholeRecords
<1>5. ASSUME NEW s \in Slots
      PROVE  /\ Record(s, NoSlot, 0, FALSE, 0) \in WholeRecords
             /\ Other(s) \in Slots /\ Other(s) # s
    BY LogAssumption DEF Record, WholeRecords, Other, Slots
<1> QED
    BY <1>2, <1>3, <1>4, <1>5

(***************************************************************************)
(* The types, and the log against the record saved last.                    *)
(***************************************************************************)
Contents == Images \cup {"torn"}
Sessions == [active : BOOLEAN, image : Contents, sectors : 0 .. 2]

LogInv == Log(control) /\ saved \in Records /\ failures \in Nat

MachineInv ==
    /\ slot \in [Slots -> Contents] /\ starts \in Nat
    /\ mode \in {"boot", "fallback", "dfu", "app"}
    /\ mode \in {"dfu", "app"} => running \in Slots
    /\ s_session \in Sessions

UpdateTypeInv == LogInv /\ MachineInv

(* The newest record of the log stays the one saved last.                   *)
LogFollows == Load(control) = saved => Load(control)' = saved'

LEMMA LogStep ==
    ASSUME UpdateTypeInv, [UpdateNext]_updateVars
    PROVE  LogInv' /\ (~LogCuts => LogFollows)
<1> USE DEF UpdateTypeInv, LogInv
<1>1. Log(control) /\ saved \in Records /\ failures \in Nat
    OBVIOUS
<1>2. ASSUME NEW r \in WholeRecords, SaveDone(r)
      PROVE  LogInv' /\ LogFollows
    BY <1>2, SaveReads DEF LogFollows, Records
<1>3. ASSUME SaveFailed
      PROVE  LogInv' /\ (~LogCuts => LogFollows)
    BY <1>3, FailureReads DEF LogFollows
<1>4. ASSUME UNCHANGED <<control, saved>>, failures' \in Nat
      PROVE  LogInv' /\ LogFollows
    BY <1>4, RestReads DEF LogFollows
<1>5. ASSUME CutLog, UNCHANGED <<saved, failures>>
      PROVE  LogInv' /\ (~LogCuts => LogFollows)
    BY <1>5, CutReads DEF LogFollows
<1>6. ASSUME NEW s \in Slots, SaveConfirmed(s)
      PROVE  LogInv' /\ (~LogCuts => LogFollows)
    BY <1>2, <1>3, <1>4, <1>6, ConfirmReads
<1> HIDE DEF LogInv, LogFollows
<1>7. CASE PowerCut
    BY <1>1, <1>4, <1>5, <1>7 DEF PowerCut, PowerGone
<1>8. CASE BootDfuRequested \/ BootActive \/ BootNothing
    BY <1>1, <1>4, <1>8 DEF BootDfuRequested, BootActive, BootNothing, EnterDfu, NoSave
<1>9. CASE BootPending
    BY <1>1, <1>2, <1>3, <1>9, SavedRecords DEF BootPending
<1>10. CASE BootGiveUpPending
    BY <1>1, <1>2, <1>3, <1>10, SavedRecords DEF BootGiveUpPending, ClearPending
<1>11. CASE BootOther
    <2>1. ctl.active \in Slots
        BY <1>1, ControlType DEF WholeRecords
    <2> QED
        BY <1>1, <1>2, <1>3, <1>11, <2>1, SavedRecords DEF BootOther
<1>12. CASE \E image \in Images \cup {"torn"} : DownloadFirst(image)
    BY <1>1, <1>4, <1>12 DEF DownloadFirst, FlashFails
<1>13. CASE DownloadNext \/ DownloadFail \/ ManifestRefused
    BY <1>1, <1>4, <1>13 DEF DownloadNext, DownloadFail, ManifestRefused
<1>14. CASE Manifest
    <2>1. running \in Slots
        BY <1>14 DEF MachineInv, Manifest
    <2> QED
        BY <1>1, <1>2, <1>3, <1>14, <2>1, SavedRecords DEF Manifest, Commit
<1>15. CASE ManifestCut
    BY <1>5, <1>15 DEF ManifestCut, PowerGone
<1>16. CASE DfuReset \/ BadImageReset
    BY <1>1, <1>4, <1>16 DEF DfuReset, BadImageReset, HotReset
<1>17. CASE Confirm \/ RequestDfu
    <2>1. running \in Slots
        BY <1>17 DEF MachineInv, Confirm, RequestDfu
    <2> QED
        BY <1>6, <1>17, <2>1 DEF Confirm, RequestDfu
<1>18. CASE \E s \in Slots : SetActive(s)
    BY <1>1, <1>2, <1>3, <1>18, SavedRecords DEF SetActive
<1>19. CASE UNCHANGED updateVars
    BY <1>1, <1>4, <1>19 DEF updateVars
<1> QED
    BY <1>7, <1>8, <1>9, <1>10, <1>11, <1>12, <1>13, <1>14, <1>15, <1>16, <1>17, <1>18,
       <1>19 DEF UpdateNext

LEMMA MachineStep ==
    ASSUME UpdateTypeInv, [UpdateNext]_updateVars
    PROVE  MachineInv'
<1> USE DEF UpdateTypeInv
<1>1. ctl.active \in Slots /\ ctl.pending \in Slots \cup {NoSlot}
    BY ControlType DEF LogInv, WholeRecords
<1>2. /\ slot \in [Slots -> Contents] /\ starts \in Nat /\ s_session \in Sessions
      /\ mode \in {"boot", "fallback", "dfu", "app"}
      /\ mode \in {"dfu", "app"} => running \in Slots
    BY DEF MachineInv
<1>3. NoSession \in Sessions /\ "torn" \in Contents
    BY DEF NoSession, Sessions, Contents
<1>4. \A s \in Slots : Other(s) \in Slots
    BY DEF Other, Slots
<1> HIDE DEF ctl
<1>5. ASSUME NEW s \in Slots, Start(s)
      PROVE  MachineInv'
    BY <1>2, <1>5 DEF Start, MachineInv
<1>6. ASSUME EnterDfu
      PROVE  MachineInv'
    <2>1. TargetSlot \in Slots
        BY <1>1, <1>4 DEF TargetSlot
    <2> QED
        BY <1>2, <1>3, <1>6, <2>1 DEF EnterDfu, MachineInv
<1>7. ASSUME Restart, slot' \in [Slots -> Contents], UNCHANGED starts
      PROVE  MachineInv'
    BY <1>2, <1>3, <1>7 DEF Restart, MachineInv
<1>8. CASE PowerCut
    BY <1>2, <1>7, <1>8 DEF PowerCut, PowerGone
<1>9. CASE BootDfuRequested \/ BootNothing
    BY <1>6, <1>9 DEF BootDfuRequested, BootNothing
<1>10. CASE BootPending \/ BootActive \/ BootOther
    BY <1>1, <1>4, <1>5, <1>10 DEF BootPending, BootActive, BootOther, PendingTried
<1>11. CASE BootGiveUpPending
    BY <1>2, <1>11 DEF BootGiveUpPending, MachineInv
<1>12. ASSUME NEW image \in Contents, DownloadFirst(image)
       PROVE  MachineInv'
    <2>1. Downloaded(image) \in Contents
        BY <1>3, <1>12 DEF Downloaded
    <2>2. slot' \in [Slots -> Contents]
        BY <1>2, <1>3, <1>12, <2>1 DEF DownloadFirst
    <2>3. s_session' \in Sessions
        <3>1. [active |-> TRUE, image |-> image, sectors |-> 1] \in Sessions
            BY DEF Sessions
        <3> QED
            BY <1>3, <1>12, <3>1 DEF DownloadFirst
    <2> QED
        BY <1>2, <1>12, <2>2, <2>3 DEF DownloadFirst, MachineInv
<1>13. CASE DownloadNext \/ DownloadFail \/ ManifestRefused
    <2>1. [s_session EXCEPT !.sectors = 2] \in Sessions
        BY <1>2 DEF Sessions
    <2> QED
        BY <1>2, <1>3, <1>13, <2>1 DEF DownloadNext, DownloadFail, ManifestRefused, MachineInv
<1>14. CASE Manifest
    <2>1. s_session.image \in Contents
        BY <1>2 DEF Sessions
    <2> QED
        BY <1>2, <1>3, <1>14, <2>1 DEF Manifest, MachineInv
<1>15. CASE ManifestCut
    <2>1. s_session.image \in Contents
        BY <1>2 DEF Sessions
    <2> QED
        BY <1>2, <1>7, <1>15, <2>1 DEF ManifestCut, PowerGone
<1>16. CASE DfuReset \/ BadImageReset
    BY <1>2, <1>7, <1>16 DEF DfuReset, BadImageReset, HotReset
<1>17. CASE Confirm \/ \E s \in Slots : SetActive(s)
    BY <1>2, <1>17 DEF Confirm, SetActive, MachineInv
<1>18. CASE RequestDfu
    BY <1>2, <1>7, <1>18 DEF RequestDfu
<1>19. CASE UNCHANGED updateVars
    BY <1>2, <1>19 DEF updateVars, MachineInv
<1> QED
    BY <1>8, <1>9, <1>10, <1>11, <1>12, <1>13, <1>14, <1>15, <1>16, <1>17, <1>18, <1>19
    DEF UpdateNext, Contents

LEMMA UpdateTypesHold == UpdateSpec => []UpdateTypeInv
<1>1. ASSUME UpdateInit PROVE UpdateTypeInv
    <2>1. Log(control) /\ saved \in Records
        BY <1>1, LogAssumption DEF UpdateInit, Log, Records, NoRecord
    <2> QED
        BY <1>1, <2>1 DEF UpdateInit, UpdateTypeInv, LogInv, MachineInv, Contents, Images,
            NoSession, Sessions
<1>2. UpdateTypeInv /\ [UpdateNext]_updateVars => UpdateTypeInv'
    BY LogStep, MachineStep DEF UpdateTypeInv
<1> QED
    BY <1>1, <1>2, PTL DEF UpdateSpec

(* As long as no full log is cut while it is rewritten, the next start reads *)
(* the record that was saved last, wherever power goes and whichever write  *)
(* fails (boot_meta.c:225).  The rewriting of a full log is excepted because *)
(* the code does lose it there.                                             *)
THEOREM NextStartReadsSaved ==
    ASSUME ~LogCuts
    PROVE  UpdateSpec => []PowerCutLosesLastOnly
<1>1. ASSUME UpdateInit PROVE PowerCutLosesLastOnly
    BY <1>1, LoadEmpty DEF UpdateInit, PowerCutLosesLastOnly
<1>2. UpdateTypeInv /\ PowerCutLosesLastOnly /\ [UpdateNext]_updateVars
        => PowerCutLosesLastOnly'
    BY LogStep DEF PowerCutLosesLastOnly, LogFollows
<1> QED
    BY <1>1, <1>2, UpdateTypesHold, PTL DEF UpdateSpec

(***************************************************************************)
(* Some image.                                                             *)
(***************************************************************************)
(* A download overwrites one slot, and never the only one that verifies.    *)
OtherSpared == mode = "dfu" /\ ran => Whole(slot[Other(running)])
ImageInv == NeverBricked /\ OtherSpared

LEMMA ImageStep ==
    ASSUME UpdateTypeInv, ImageInv, [UpdateNext]_updateVars
    PROVE  ImageInv'
<1>1. /\ slot \in [Slots -> Contents]
      /\ mode \in {"dfu", "app"} => running \in Slots
      /\ ctl.active \in Slots /\ ctl.pending \in Slots \cup {NoSlot}
    BY ControlType DEF UpdateTypeInv, MachineInv, LogInv, WholeRecords
<1>2. /\ \A s \in Slots : Other(s) \in Slots /\ Other(s) # s /\ Other(Other(s)) = s
      /\ \A s, t \in Slots : t # s => t = Other(s)
    BY DEF Other, Slots
<1> HIDE DEF ctl
<1>3. ASSUME NEW s \in Slots, Whole(slot[s]), Start(s)
      PROVE  ImageInv'
    BY <1>3 DEF Start, ImageInv, NeverBricked, OtherSpared
<1>4. ASSUME EnterDfu
      PROVE  ImageInv'
    <2>1. SUFFICES ASSUME ran PROVE Whole(slot[Other(TargetSlot)]) /\ NeverBricked'
        BY <1>4 DEF EnterDfu, ImageInv, NeverBricked, OtherSpared
    <2>2. PICK s \in Slots : Whole(slot[s])
        BY <2>1 DEF ImageInv, NeverBricked
    <2>3. NeverBricked'
        BY <1>4, <2>2 DEF EnterDfu, NeverBricked
    <2>4. CASE Whole(slot[ctl.active])
        BY <1>1, <1>2, <2>3, <2>4 DEF TargetSlot
    <2>5. CASE ~Whole(slot[ctl.active])
        BY <1>1, <1>2, <2>2, <2>3, <2>5 DEF TargetSlot
    <2> QED
        BY <2>4, <2>5
<1>5. ASSUME mode = "dfu", UNCHANGED ran,
             \A s \in Slots : s # running => slot'[s] = slot[s],
             mode' # "dfu" \/ UNCHANGED running
      PROVE  ImageInv'
    <2>1. running \in Slots /\ Other(running) \in Slots /\ Other(running) # running
        BY <1>1, <1>2, <1>5
    <2>2. ran => Whole(slot'[Other(running)])
        BY <1>5, <2>1 DEF ImageInv, OtherSpared
    <2> QED
        BY <1>5, <2>1, <2>2 DEF ImageInv, NeverBricked, OtherSpared
<1>6. ASSUME UNCHANGED <<slot, ran>>, mode' # "dfu" \/ UNCHANGED <<mode, running>>
      PROVE  ImageInv'
    BY <1>6 DEF ImageInv, NeverBricked, OtherSpared
<1>7. CASE PowerCut \/ DfuReset \/ BadImageReset \/ RequestDfu
    BY <1>6, <1>7 DEF PowerCut, PowerGone, DfuReset, BadImageReset, HotReset, RequestDfu, Restart
<1>8. CASE BootDfuRequested \/ BootNothing
    BY <1>4, <1>8 DEF BootDfuRequested, BootNothing
<1>9. CASE BootPending \/ BootActive \/ BootOther
    BY <1>1, <1>2, <1>3, <1>9 DEF BootPending, BootActive, BootOther, PendingTried
<1>10. CASE BootGiveUpPending
    BY <1>6, <1>10 DEF BootGiveUpPending
<1>11. ASSUME NEW image, DownloadFirst(image)
       PROVE  ImageInv'
    <2>1. running \in Slots
        BY <1>1, <1>11 DEF DownloadFirst
    <2>2. \A s \in Slots : s # running => slot'[s] = slot[s]
        BY <1>1, <1>11, <2>1 DEF DownloadFirst
    <2> QED
        BY <1>5, <1>11, <2>2 DEF DownloadFirst
<1>12. CASE DownloadNext \/ DownloadFail \/ ManifestRefused
    BY <1>6, <1>12 DEF DownloadNext, DownloadFail, ManifestRefused
<1>13. CASE Manifest \/ ManifestCut
    <2>1. running \in Slots
        BY <1>1, <1>13 DEF Manifest, ManifestCut
    <2>2. \A s \in Slots : s # running => slot'[s] = slot[s]
        BY <1>1, <1>13, <2>1 DEF Manifest, ManifestCut
    <2> QED
        BY <1>5, <1>13, <2>2 DEF Manifest, ManifestCut, PowerGone, Restart
<1>14. CASE Confirm \/ \E s \in Slots : SetActive(s)
    BY <1>6, <1>14 DEF Confirm, SetActive
<1>15. CASE UNCHANGED updateVars
    BY <1>6, <1>15 DEF updateVars
<1> QED
    BY <1>7, <1>8, <1>9, <1>10, <1>11, <1>12, <1>13, <1>14, <1>15 DEF UpdateNext

(* Once an application was started some slot verifies for ever, at whatever  *)
(* point power goes, a record is lost, a write fails or a download is broken *)
(* off, and also when a full log is cut while it is rewritten (main.c:42,    *)
(* boot.c:112, dfu.c:75).                                                  *)
THEOREM SomeImageForEver == UpdateSpec => []NeverBricked
<1>1. UpdateInit => ImageInv
    BY DEF UpdateInit, ImageInv, NeverBricked, OtherSpared
<1>2. UpdateTypeInv /\ ImageInv /\ [UpdateNext]_updateVars => ImageInv'
    BY ImageStep
<1>3. ImageInv => NeverBricked
    BY DEF ImageInv
<1> QED
    BY <1>1, <1>2, <1>3, UpdateTypesHold, PTL DEF UpdateSpec

(***************************************************************************)
(* A bad image.                                                            *)
(***************************************************************************)
(* Nothing verifies beside an active image that is not good, and a download  *)
(* keeps it so: it goes to the other slot only when the active one is good.  *)
ActiveStands == slot[Other(ctl.active)] # "torn" => slot[ctl.active] = "good"
TargetBeside ==
    mode = "dfu" => IF running = ctl.active THEN slot[Other(running)] = "torn"
                    ELSE slot[ctl.active] = "good"
RequestStands == mailbox => mode = "boot" /\ slot[ctl.active] = "good"

(* Starts of the bad image are counted while it is the pending one: each    *)
(* was written down as an attempt, or its record failed.                    *)
CountedAnew ==
    mailbox \/ mode = "dfu" \/ (mode = "app" /\ slot[running] = "good") => starts = 0
CountedBeside == starts > 0 => slot[ctl.active] = "good" /\ slot[Other(ctl.active)] = "bad"
Attempted == IF ctl.pending # NoSlot THEN ctl.attempts ELSE BOOT_MAX_ATTEMPTS
StartsWritten == starts <= Attempted + failures /\ ctl.attempts <= BOOT_MAX_ATTEMPTS

GiveWayInv ==
    /\ ActiveStands /\ TargetBeside /\ RequestStands
    /\ CountedAnew /\ CountedBeside /\ StartsWritten

LEMMA MoreRoom ==
    \A n, room, f, g \in Nat : n <= room + f /\ g >= f => n <= room + g
OBVIOUS

LEMMA NoneIsFew == \A tries, f \in Nat : 0 <= tries + f
OBVIOUS

LEMMA MoreTries ==
    \A n, tries, most, f \in Nat : n <= tries + f /\ tries <= most => n <= most + f
OBVIOUS

LEMMA OneMore ==
    \A n, m, tries, f \in Nat :
        n <= tries + f /\ m \in {0, n, n + 1}
          => m <= (tries + 1) + f /\ m <= tries + (f + 1)
OBVIOUS

LEMMA GiveWayInit == UpdateInit => GiveWayInv
<1> SUFFICES ASSUME UpdateInit PROVE GiveWayInv
    OBVIOUS
<1>1. ctl = Defaults
    BY LoadEmpty DEF UpdateInit, ctl, LoadOrDefault
<1>2. ctl.active = 0 /\ ctl.pending = NoSlot /\ ctl.attempts = 0
    BY <1>1 DEF Defaults, Record
<1>3. slot[1] = "torn" /\ Other(0) = 1 /\ starts = 0 /\ failures = 0
    BY DEF UpdateInit, Slots, Other
<1> QED
    BY <1>2, <1>3, UpdateAssumption DEF UpdateInit, GiveWayInv, ActiveStands, TargetBeside,
       RequestStands, CountedAnew, CountedBeside, StartsWritten, Attempted

LEMMA GiveWayStep ==
    ASSUME ~LogCuts, UpdateTypeInv, GiveWayInv, [UpdateNext]_updateVars
    PROVE  GiveWayInv'
<1>1. /\ slot \in [Slots -> Contents] /\ starts \in Nat /\ failures \in Nat
      /\ mode \in {"dfu", "app"} => running \in Slots
      /\ ctl.active \in Slots /\ ctl.pending \in Slots \cup {NoSlot} /\ ctl.attempts \in Nat
      /\ BOOT_MAX_ATTEMPTS \in Nat
    BY ControlType, UpdateAssumption DEF UpdateTypeInv, MachineInv, LogInv, WholeRecords
<1>2. /\ \A s \in Slots : Other(s) \in Slots /\ Other(s) # s /\ Other(Other(s)) = s
      /\ \A s, t \in Slots : t # s => t = Other(s)
      /\ NoSlot \notin Slots
    BY DEF Other, Slots, NoSlot
<1>3. Log(control)
    BY DEF UpdateTypeInv, LogInv
<1> HIDE DEF ctl
<1> DEFINE Kept == ctl' = ctl /\ failures' \in {failures, failures + 1}
<1>4. (UNCHANGED <<control, failures>> \/ SaveFailed \/ (CutLog /\ UNCHANGED failures)) => Kept
    BY <1>3, RestReads, FailureReads, CutReads
<1>5. ASSUME NEW r \in WholeRecords, SaveDone(r)
      PROVE  /\ ctl'.active = r.active /\ ctl'.pending = r.pending
             /\ ctl'.attempts = r.attempts /\ failures' = failures
    BY <1>3, <1>5, SaveReads
<1> HIDE DEF Kept
\* What keeps the record and the count, and what keeps the slots as well.
<1>6. ASSUME Kept, UNCHANGED starts PROVE StartsWritten'
    <2>1. Attempted \in Nat
        BY <1>1 DEF Attempted
    <2>2. Attempted' = Attempted /\ ctl'.attempts = ctl.attempts
        BY <1>6 DEF Kept, Attempted
    <2>3. failures' >= failures /\ failures' \in Nat
        BY <1>1, <1>6 DEF Kept
    <2>4. starts <= Attempted + failures /\ ctl.attempts <= BOOT_MAX_ATTEMPTS
        BY DEF GiveWayInv, StartsWritten
    <2>5. starts <= Attempted + failures'
        BY <1>1, <2>1, <2>3, <2>4, MoreRoom
    <2>6. starts' <= Attempted' + failures'
        BY <1>6, <2>2, <2>5
    <2>7. ctl'.attempts <= BOOT_MAX_ATTEMPTS
        BY <2>2, <2>4
    <2> QED
        BY <2>6, <2>7 DEF StartsWritten
<1>7. ASSUME Kept, UNCHANGED <<slot, starts>>,
             mode' \notin {"dfu", "app"} \/ UNCHANGED <<mode, running>>,
             mailbox' => mailbox /\ mode' = "boot"
      PROVE  GiveWayInv'
    <2>1. ActiveStands' /\ CountedBeside'
        BY <1>7 DEF Kept, GiveWayInv, ActiveStands, CountedBeside
    <2>2. TargetBeside'
        BY <1>7 DEF Kept, GiveWayInv, TargetBeside
    <2>3. RequestStands' /\ CountedAnew'
        BY <1>7 DEF Kept, GiveWayInv, RequestStands, CountedAnew
    <2> QED
        BY <1>6, <1>7, <2>1, <2>2, <2>3 DEF GiveWayInv
<1>8. CASE PowerCut
    BY <1>4, <1>7, <1>8 DEF PowerCut, PowerGone, Restart
<1>9. CASE DfuReset \/ BadImageReset
    <2>1. ~mailbox
        BY <1>9 DEF DfuReset, BadImageReset, GiveWayInv, RequestStands
    <2> QED
        BY <1>4, <1>7, <1>9, <2>1 DEF DfuReset, BadImageReset, HotReset, Restart
<1>10. CASE DownloadNext \/ DownloadFail \/ ManifestRefused
    BY <1>4, <1>7, <1>10 DEF DownloadNext, DownloadFail, ManifestRefused,
       GiveWayInv, RequestStands
<1>11. CASE UNCHANGED updateVars
    BY <1>4, <1>7, <1>11 DEF updateVars, GiveWayInv, RequestStands
\* A start: only of the pending image beside a good active one is it counted.
<1>12. ASSUME NEW s \in Slots, Start(s), Kept, starts' = 0, ~mailbox
       PROVE  GiveWayInv'
    <2>1. ActiveStands' /\ TargetBeside' /\ RequestStands'
        BY <1>12 DEF Kept, Start, GiveWayInv, ActiveStands, TargetBeside, RequestStands
    <2>2. CountedAnew' /\ CountedBeside'
        BY <1>12 DEF CountedAnew, CountedBeside
    <2>3. StartsWritten'
        <3>1. Attempted' = Attempted /\ ctl'.attempts = ctl.attempts /\ Attempted \in Nat
            BY <1>1, <1>12 DEF Kept, Attempted
        <3>2. failures' \in Nat
            BY <1>1, <1>12 DEF Kept
        <3>3. ctl.attempts <= BOOT_MAX_ATTEMPTS
            BY DEF GiveWayInv, StartsWritten
        <3>4. starts' <= Attempted' + failures'
            BY <1>12, <3>1, <3>2, NoneIsFew
        <3> QED
            BY <3>1, <3>3, <3>4 DEF StartsWritten
    <2> QED
        BY <2>1, <2>2, <2>3 DEF GiveWayInv
<1>13. CASE BootActive
    <2>1. ~(slot[ctl.active] = "bad" /\ slot[Other(ctl.active)] = "good")
        BY DEF GiveWayInv, ActiveStands
    <2>2. starts' = 0
        BY <1>13, <2>1 DEF BootActive, Start
    <2> QED
        BY <1>1, <1>4, <1>12, <1>13, <2>2 DEF BootActive, Fallback, NoSave
<1>14. CASE BootOther
    <2>1. slot[ctl.active] = "good" /\ Whole("good")
        BY <1>14 DEF BootOther, Whole, Images, GiveWayInv, ActiveStands
    <2> QED
        BY <1>14, <2>1 DEF BootOther
<1>15. CASE BootPending
    <2>1. /\ ctl.pending \in Slots /\ ctl.attempts + 1 <= BOOT_MAX_ATTEMPTS /\ ~mailbox
          /\ Start(ctl.pending)
        BY <1>1, <1>15 DEF BootPending, PendingTried, AttemptsLeft
    <2>2. \/ /\ ctl'.active = ctl.active /\ ctl'.pending = ctl.pending
             /\ ctl'.attempts = ctl.attempts + 1 /\ failures' = failures
          \/ ctl' = ctl /\ failures' = failures + 1
        <3>1. CASE SaveFailed
            BY <1>3, <3>1, FailureReads
        <3>2. CASE SaveDone([ctl EXCEPT !.attempts = @ + 1])
            <4>1. [ctl EXCEPT !.attempts = @ + 1] \in WholeRecords
                BY <1>3, SavedRecords
            <4>2. ctl \in WholeRecords
                BY <1>3, ControlType
            <4> DEFINE r == [ctl EXCEPT !.attempts = @ + 1]
            <4>3. /\ r.active = ctl.active /\ r.pending = ctl.pending
                  /\ r.attempts = ctl.attempts + 1
                BY <4>2 DEF WholeRecords
            <4> HIDE DEF r
            <4>4. SaveDone(r) /\ r \in WholeRecords
                BY <3>2, <4>1 DEF r
            <4> QED
                BY <1>5, <4>3, <4>4
        <3> QED
            BY <1>15, <3>1, <3>2 DEF BootPending
    <2>3. slot' = slot /\ mode' = "app" /\ mailbox' = mailbox /\ running' = ctl.pending
        BY <2>1 DEF Start
    <2>4. ActiveStands' /\ TargetBeside' /\ RequestStands'
        BY <2>1, <2>2, <2>3 DEF GiveWayInv, ActiveStands, TargetBeside, RequestStands
    <2>5. ctl.pending # NoSlot /\ starts <= ctl.attempts + failures
        BY <1>2, <2>1 DEF GiveWayInv, StartsWritten, Attempted
    <2>6. starts' \in {0, starts, starts + 1}
        BY <2>1 DEF Start
    <2>7. StartsWritten'
        <3>1. ctl'.pending # NoSlot /\ ctl'.attempts <= BOOT_MAX_ATTEMPTS
            BY <1>1, <2>1, <2>2, <2>5
        <3>2. CASE ctl'.attempts = ctl.attempts + 1 /\ failures' = failures
            <4>1. starts' <= (ctl.attempts + 1) + failures
                BY <1>1, <2>5, <2>6, OneMore
            <4> QED
                BY <3>1, <3>2, <4>1 DEF StartsWritten, Attempted
        <3>3. CASE ctl' = ctl /\ failures' = failures + 1
            <4>1. starts' <= ctl.attempts + (failures + 1)
                BY <1>1, <2>5, <2>6, OneMore
            <4> QED
                BY <3>1, <3>3, <4>1 DEF StartsWritten, Attempted
        <3> QED
            BY <2>2, <3>2, <3>3
    <2>8. CountedAnew' /\ CountedBeside'
        <3>1. CASE slot[ctl.pending] = "bad" /\ slot[Other(ctl.pending)] = "good"
            <4>1. ctl.pending # ctl.active
                BY <3>1 DEF GiveWayInv, ActiveStands
            <4>2. ctl.pending = Other(ctl.active) /\ Other(ctl.pending) = ctl.active
                BY <1>1, <1>2, <2>1, <4>1
            <4>3. ctl'.active = ctl.active
                BY <2>2
            <4> QED
                BY <2>1, <2>3, <3>1, <4>2, <4>3 DEF CountedAnew, CountedBeside
        <3>2. CASE ~(slot[ctl.pending] = "bad" /\ slot[Other(ctl.pending)] = "good")
            <4>1. starts' = 0
                BY <2>1, <3>2 DEF Start
            <4> QED
                BY <4>1 DEF CountedAnew, CountedBeside
        <3> QED
            BY <3>1, <3>2
    <2> QED
        BY <2>4, <2>7, <2>8 DEF GiveWayInv
<1>16. CASE BootGiveUpPending
    <2>1. SaveFailed \/ ClearPending
        BY <1>16 DEF BootGiveUpPending
    <2>2. CASE SaveFailed
        BY <1>4, <1>7, <1>16, <2>2 DEF BootGiveUpPending
    <2>3. CASE ClearPending
        <3> DEFINE r == [ctl EXCEPT !.pending = NoSlot, !.attempts = 0]
        <3>1. SaveDone(r) /\ r \in WholeRecords
            BY <1>3, <2>3, SavedRecords DEF ClearPending
        <3>2. r.active = ctl.active /\ r.pending = NoSlot /\ r.attempts = 0
            BY <1>3, ControlType DEF WholeRecords
        <3> HIDE DEF r
        <3>3. /\ ctl'.active = ctl.active /\ ctl'.pending = NoSlot /\ ctl'.attempts = 0
              /\ failures' = failures
            BY <1>5, <3>1, <3>2
        <3>4. starts <= BOOT_MAX_ATTEMPTS + failures
            BY <1>1, MoreTries DEF GiveWayInv, StartsWritten, Attempted
        <3>5. StartsWritten'
            BY <1>1, <1>16, <3>3, <3>4 DEF BootGiveUpPending, StartsWritten, Attempted
        <3>6. ActiveStands' /\ TargetBeside' /\ RequestStands' /\ CountedAnew' /\ CountedBeside'
            BY <1>16, <3>3 DEF BootGiveUpPending, GiveWayInv, ActiveStands, TargetBeside,
               RequestStands, CountedAnew, CountedBeside
        <3> QED
            BY <3>5, <3>6 DEF GiveWayInv
    <2> QED
        BY <2>1, <2>2, <2>3
\* The download mode.
<1>17. CASE BootDfuRequested \/ BootNothing
    <2>1. EnterDfu /\ starts = 0 /\ Kept /\ UNCHANGED <<slot, starts>> /\ ~mailbox'
        <3>1. EnterDfu /\ UNCHANGED <<slot, starts>> /\ ~mailbox'
            BY <1>17 DEF BootDfuRequested, BootNothing, Fallback, EnterDfu
        <3>2. Kept
            BY <1>4, <3>1 DEF EnterDfu, NoSave
        <3>3. CASE mailbox
            BY <3>1, <3>2, <3>3 DEF GiveWayInv, CountedAnew
        <3>4. CASE ~mailbox
            <4>1. \A s \in Slots : ~Whole(slot[s])
                BY <1>17, <3>4 DEF BootDfuRequested, BootNothing, Slots
            <4>2. slot[ctl.active] # "good"
                BY <1>1, <4>1 DEF Whole, Images
            <4> QED
                BY <1>1, <3>1, <3>2, <4>2 DEF GiveWayInv, CountedBeside
        <3> QED
            BY <3>3, <3>4
    <2>2. TargetBeside'
        <3>1. mode' = "dfu" /\ running' = TargetSlot /\ ctl'.active = ctl.active
            BY <2>1 DEF EnterDfu, Kept
        <3>2. CASE Whole(slot[ctl.active])
            <4>1. TargetSlot # ctl.active
                BY <1>1, <1>2, <3>2 DEF TargetSlot
            <4>2. slot[ctl.active] = "good"
                <5>1. CASE mailbox
                    BY <5>1 DEF GiveWayInv, RequestStands
                <5>2. CASE ~mailbox
                    BY <1>1, <1>17, <3>2, <5>2 DEF BootDfuRequested, BootNothing, Slots
                <5> QED
                    BY <5>1, <5>2
            <4> QED
                BY <2>1, <3>1, <4>1, <4>2 DEF TargetBeside
        <3>3. CASE ~Whole(slot[ctl.active])
            <4>1. TargetSlot = ctl.active
                BY <3>3 DEF TargetSlot
            <4>2. slot[Other(ctl.active)] = "torn"
                BY <3>3 DEF GiveWayInv, ActiveStands, Whole, Images
            <4> QED
                BY <2>1, <3>1, <4>1, <4>2 DEF TargetBeside
        <3> QED
            BY <3>2, <3>3
    <2>3. ActiveStands' /\ RequestStands'
        BY <2>1 DEF Kept, GiveWayInv, ActiveStands, RequestStands
    <2>4. CountedAnew' /\ CountedBeside'
        BY <2>1 DEF CountedAnew, CountedBeside
    <2> QED
        BY <1>6, <2>1, <2>2, <2>3, <2>4 DEF GiveWayInv
\* A download changes the content of the slot it is for.
<1>18. ASSUME NEW content, slot' = [slot EXCEPT ![running] = content], mode = "dfu",
              ctl'.active = ctl.active, StartsWritten', UNCHANGED starts, ~mailbox',
              mode' \in {"boot", "dfu"}, mode' = "dfu" => UNCHANGED running
       PROVE  GiveWayInv'
    <2>1. running \in Slots /\ starts = 0
        BY <1>1, <1>18 DEF GiveWayInv, CountedAnew
    <2>2. CASE running = ctl.active
        <3>1. slot[Other(running)] = "torn" /\ Other(running) # running
            BY <1>2, <1>18, <2>1, <2>2 DEF GiveWayInv, TargetBeside
        <3>2. slot'[Other(running)] = "torn"
            BY <1>1, <1>2, <1>18, <2>1, <3>1
        <3> QED
            BY <1>18, <2>1, <2>2, <3>2 DEF GiveWayInv, ActiveStands, TargetBeside,
               RequestStands, CountedAnew, CountedBeside
    <2>3. CASE running # ctl.active
        <3>1. slot'[ctl.active] = "good"
            BY <1>1, <1>18, <2>1, <2>3 DEF GiveWayInv, TargetBeside
        <3> QED
            BY <1>18, <2>1, <2>3, <3>1 DEF GiveWayInv, ActiveStands, TargetBeside,
               RequestStands, CountedAnew, CountedBeside
    <2> QED
        BY <2>2, <2>3
<1>19. CASE \E image \in Contents : DownloadFirst(image)
    <2>1. PICK image \in Contents : DownloadFirst(image)
        BY <1>19
    <2>2. \E content : slot' = [slot EXCEPT ![running] = content]
        <3>1. slot = [slot EXCEPT ![running] = slot[running]]
            BY <1>1
        <3> QED
            BY <2>1, <3>1 DEF DownloadFirst
    <2>3. Kept
        BY <2>1, RestReads DEF Kept, DownloadFirst, FlashFails
    <2>4. StartsWritten'
        BY <1>6, <2>1, <2>3 DEF DownloadFirst
    <2> QED
        BY <1>18, <2>1, <2>2, <2>3, <2>4 DEF DownloadFirst, Kept, GiveWayInv, RequestStands
<1>20. CASE Manifest
    <2>1. running \in Slots /\ starts = 0 /\ ~mailbox
        BY <1>1, <1>20 DEF Manifest, GiveWayInv, CountedAnew, RequestStands
    <2>2. ctl'.active = ctl.active /\ StartsWritten'
        <3>1. CASE Commit(running)
            <4> DEFINE r == [ctl EXCEPT !.pending = running, !.attempts = 0,
                                        !.confirmed = FALSE]
            <4>1. SaveDone(r) /\ r \in WholeRecords
                BY <1>3, <2>1, <3>1, SavedRecords DEF Commit
            <4>2. r.active = ctl.active /\ r.pending = running /\ r.attempts = 0
                BY <1>3, ControlType DEF WholeRecords
            <4> HIDE DEF r
            <4>3. /\ ctl'.active = ctl.active /\ ctl'.pending = running /\ ctl'.attempts = 0
                  /\ failures' = failures
                BY <1>5, <4>1, <4>2
            <4> QED
                BY <1>1, <1>2, <1>20, <2>1, <4>3 DEF Manifest, StartsWritten, Attempted
        <3>2. CASE SaveFailed
            BY <1>4, <1>6, <1>20, <3>2 DEF Manifest, Kept
        <3> QED
            BY <1>20, <3>1, <3>2 DEF Manifest
    <2> QED
        BY <1>18, <1>20, <2>1, <2>2 DEF Manifest
<1>21. CASE ManifestCut
    <2>1. Kept
        BY <1>4, <1>21 DEF ManifestCut, PowerGone
    <2>2. StartsWritten' /\ ctl'.active = ctl.active
        BY <1>6, <1>21, <2>1 DEF ManifestCut, PowerGone, Kept
    <2> QED
        BY <1>18, <1>21, <2>2 DEF ManifestCut, PowerGone, Restart
\* A good image that runs has the log rewritten.
<1>22. ASSUME NEW s \in Slots, slot[s] = "good", mode = "app", slot[running] = "good",
              (ctl'.active = s /\ StartsWritten') \/ Kept,
              UNCHANGED <<slot, starts>>,
              UNCHANGED <<mode, running, mailbox>> \/ mode' = "boot"
       PROVE  GiveWayInv'
    <2>1. running \in Slots /\ starts = 0 /\ ~mailbox
        BY <1>1, <1>22 DEF GiveWayInv, CountedAnew, RequestStands
    <2>2. slot[ctl.active] = "good"
        BY <1>1, <1>2, <1>22 DEF GiveWayInv, ActiveStands
    <2>3. slot'[ctl'.active] = "good"
        BY <1>22, <2>2 DEF Kept
    <2>4. StartsWritten'
        BY <1>6, <1>22
    <2> QED
        BY <1>22, <2>1, <2>3, <2>4 DEF GiveWayInv, ActiveStands, TargetBeside,
           RequestStands, CountedAnew, CountedBeside
<1>23. ASSUME NEW s \in Slots, NEW r \in WholeRecords, SaveDone(r), r.active = s,
              r.pending = NoSlot, r.attempts = 0, starts' = 0
       PROVE  ctl'.active = s /\ StartsWritten'
    BY <1>1, <1>5, <1>23 DEF StartsWritten, Attempted
<1>24. CASE Confirm \/ RequestDfu
    <2>1. /\ mode = "app" /\ slot[running] = "good" /\ running \in Slots /\ starts = 0
          /\ SaveConfirmed(running) /\ UNCHANGED <<slot, starts>>
        BY <1>1, <1>24 DEF Confirm, RequestDfu, GiveWayInv, CountedAnew
    <2>2. (ctl'.active = running /\ StartsWritten') \/ Kept
        <3>1. CASE SaveDone(Confirmed(running))
            <4>1. /\ Confirmed(running).active = running
                  /\ Confirmed(running).pending = NoSlot /\ Confirmed(running).attempts = 0
                BY DEF Confirmed, Record
            <4>2. Confirmed(running) \in WholeRecords
                BY <1>3, <2>1, ConfirmReads
            <4> QED
                BY <1>23, <2>1, <3>1, <4>1, <4>2
        <3> QED
            BY <1>3, <1>4, <2>1, <3>1, ConfirmReads
    <2> QED
        BY <1>22, <1>24, <2>1, <2>2 DEF Confirm, RequestDfu, Restart
<1>25. CASE \E s \in Slots : SetActive(s)
    <2>1. PICK s \in Slots : SetActive(s)
        BY <1>25
    <2>2. mode = "app" /\ slot[running] = "good" /\ running \in Slots /\ starts = 0
        BY <1>1, <2>1 DEF SetActive, GiveWayInv, CountedAnew
    <2>3. (ctl'.active = s /\ StartsWritten') \/ Kept
        <3>1. CASE SaveDone(Record(s, NoSlot, 0, FALSE, 0))
            <4> DEFINE r == Record(s, NoSlot, 0, FALSE, 0)
            <4>1. r.active = s /\ r.pending = NoSlot /\ r.attempts = 0
                BY DEF Record
            <4>2. r \in WholeRecords /\ SaveDone(r)
                BY <1>3, <3>1, SavedRecords
            <4>3. starts' = 0
                BY <2>1, <2>2 DEF SetActive
            <4> HIDE DEF r
            <4> QED
                BY <1>23, <4>1, <4>2, <4>3
        <3> QED
            BY <1>4, <2>1, <3>1 DEF SetActive
    <2> QED
        BY <1>22, <2>1, <2>2, <2>3 DEF SetActive
<1> QED
    BY <1>8, <1>9, <1>10, <1>11, <1>13, <1>14, <1>15, <1>16, <1>17, <1>19, <1>20, <1>21,
       <1>24, <1>25 DEF UpdateNext, Contents

(* A bad image beside a good one is started BOOT_MAX_ATTEMPTS times at most  *)
(* and once more for every record that could not be written, for every limit *)
(* and every size of the log (boot.c:123); no full log is cut while it is    *)
(* rewritten, which may lose the attempts.                                  *)
THEOREM BadImageNotKept ==
    ASSUME ~LogCuts
    PROVE  UpdateSpec => []BadImageGivesWay
<1>1. UpdateTypeInv /\ GiveWayInv /\ [UpdateNext]_updateVars => GiveWayInv'
    BY GiveWayStep
<1>2. UpdateTypeInv /\ GiveWayInv => BadImageGivesWay
    <2>1. UpdateTypeInv => starts \in Nat /\ failures \in Nat /\ ctl \in WholeRecords
        BY ControlType DEF UpdateTypeInv, MachineInv, LogInv
    <2>2. UpdateTypeInv => ctl.attempts \in Nat
        BY <2>1 DEF WholeRecords
    <2>3. GiveWayInv => starts <= Attempted + failures /\ Attempted <= BOOT_MAX_ATTEMPTS
        BY UpdateAssumption DEF GiveWayInv, StartsWritten, Attempted
    <2> QED
        BY <2>1, <2>2, <2>3, UpdateAssumption, MoreTries DEF BadImageGivesWay, Attempted
<1> QED
    BY <1>1, <1>2, GiveWayInit, UpdateTypesHold, PTL DEF UpdateSpec

(***************************************************************************)
(* The parameter sector: what a key holds in a set of slots.                *)
(***************************************************************************)
ParamEntries == [key : ParamKeys, value : ParamValues]
SlotImages == [SlotIds -> ParamEntries \cup {Invalid}]

Holds(slots, i, key) == Valid(slots[i]) /\ slots[i].key = key

(* No key is held by two slots.                                            *)
Unique(slots) ==
    \A i, j \in SlotIds : Valid(slots[i]) /\ Holds(slots, j, slots[i].key) => i = j

(* What is left of the slots when some are lost.                            *)
Within(part, slots) == \A i \in SlotIds : part[i] \in {slots[i], Invalid}

LEMMA InvalidIsNoEntry == Invalid \notin ParamEntries
BY StoreAssumption DEF Invalid, ParamEntries

LEMMA FirstIsMember ==
    ASSUME NEW ids, ids \subseteq SlotIds, ids # {}
    PROVE  First(ids) \in ids
<1>1. ids \subseteq Nat
    BY StoreAssumption DEF SlotIds
<1>2. \E i \in ids : \A j \in ids : i <= j
    BY <1>1, LeastElement
<1> QED
    BY <1>2 DEF First

LEMMA LoadedHeld ==
    ASSUME NEW slots, Unique(slots), NEW key, NEW i \in SlotIds, Holds(slots, i, key)
    PROVE  /\ Loaded(slots, key) = slots[i].value
           /\ Holding(slots, key) = {i}
<1>1. Holding(slots, key) = {i}
    BY DEF Holding, Holds, Unique
<1>2. First({i}) = i
    BY FirstIsMember
<1> QED
    BY <1>1, <1>2 DEF Loaded

LEMMA LoadedVacant ==
    ASSUME NEW slots, NEW key, \A i \in SlotIds : ~Holds(slots, i, key)
    PROVE  Loaded(slots, key) = NoValue /\ Holding(slots, key) = {}
BY DEF Loaded, Holding, Holds

LEMMA LoadedWithin ==
    ASSUME NEW slots, NEW part, Unique(slots), Within(part, slots), NEW key
    PROVE  Unique(part) /\ Loaded(part, key) \in {Loaded(slots, key), NoValue}
<1>1. ASSUME NEW i \in SlotIds, Valid(part[i])
      PROVE  part[i] = slots[i]
    BY <1>1 DEF Within, Valid
<1>2. Unique(part)
    BY <1>1 DEF Unique, Holds
<1>3. CASE \E i \in SlotIds : Holds(part, i, key)
    <2>1. PICK i \in SlotIds : Holds(part, i, key)
        BY <1>3
    <2>2. Holds(slots, i, key) /\ part[i] = slots[i]
        BY <1>1, <2>1 DEF Holds
    <2> QED
        BY <1>2, <2>1, <2>2, LoadedHeld
<1>4. CASE ~\E i \in SlotIds : Holds(part, i, key)
    BY <1>2, <1>4, LoadedVacant
<1> QED
    BY <1>3, <1>4

(* An entry put in the place of the key's own, or in a vacant one.          *)
LEMMA LoadedPut ==
    ASSUME NEW slots \in SlotImages, Unique(slots), NEW e \in ParamEntries, NEW t \in SlotIds,
           \/ Holds(slots, t, e.key)
           \/ ~Valid(slots[t]) /\ Holding(slots, e.key) = {}
    PROVE  LET changed == [slots EXCEPT ![t] = e] IN
           /\ changed \in SlotImages /\ Unique(changed)
           /\ Loaded(changed, e.key) = e.value
           /\ \A key : key # e.key => Loaded(changed, key) = Loaded(slots, key)
<1> DEFINE changed == [slots EXCEPT ![t] = e]
<1>1. /\ changed \in SlotImages /\ changed[t] = e
      /\ \A i \in SlotIds : i # t => changed[i] = slots[i]
    BY DEF SlotImages
<1>2. Valid(e)
    BY InvalidIsNoEntry DEF Valid
<1>3. \A i \in SlotIds : Holds(slots, i, e.key) => i = t
    BY DEF Unique, Holds, Holding
<1> HIDE DEF changed
<1>4. Unique(changed)
    BY <1>1, <1>2, <1>3 DEF Unique, Holds
<1>5. Loaded(changed, e.key) = e.value
    <2>1. Holds(changed, t, e.key)
        BY <1>1, <1>2 DEF Holds
    <2> QED
        BY <1>1, <1>4, <2>1, LoadedHeld
<1>6. ASSUME NEW key, key # e.key
      PROVE  Loaded(changed, key) = Loaded(slots, key)
    <2>1. \A i \in SlotIds : Holds(changed, i, key) <=> (Holds(slots, i, key) /\ i # t)
        BY <1>1, <1>6 DEF Holds
    <2>2. ~Holds(slots, t, key)
        BY <1>6 DEF Holds
    <2>3. CASE \E i \in SlotIds : Holds(slots, i, key)
        <3>1. PICK i \in SlotIds : Holds(slots, i, key)
            BY <2>3
        <3>2. Holds(changed, i, key) /\ changed[i] = slots[i]
            BY <1>1, <2>1, <2>2, <3>1
        <3> QED
            BY <1>4, <3>1, <3>2, LoadedHeld
    <2>4. CASE ~\E i \in SlotIds : Holds(slots, i, key)
        BY <2>1, <2>4, LoadedVacant
    <2> QED
        BY <2>3, <2>4
<1> QED
    BY <1>1, <1>4, <1>5, <1>6 DEF changed

(* The key's entry taken away.                                             *)
LEMMA LoadedRemoved ==
    ASSUME NEW slots \in SlotImages, Unique(slots), NEW t \in SlotIds, Valid(slots[t])
    PROVE  LET changed == [slots EXCEPT ![t] = Invalid] IN
           /\ changed \in SlotImages /\ Unique(changed)
           /\ Loaded(changed, slots[t].key) = NoValue
           /\ \A key : key # slots[t].key => Loaded(changed, key) = Loaded(slots, key)
<1> DEFINE changed == [slots EXCEPT ![t] = Invalid]
<1>1. /\ changed \in SlotImages /\ ~Valid(changed[t])
      /\ \A i \in SlotIds : i # t => changed[i] = slots[i]
    BY DEF SlotImages, Valid
<1>2. \A i \in SlotIds : Holds(slots, i, slots[t].key) => i = t
    BY DEF Unique
<1> HIDE DEF changed
<1>3. Unique(changed)
    BY <1>1 DEF Unique, Holds
<1>4. Loaded(changed, slots[t].key) = NoValue
    BY <1>1, <1>2, LoadedVacant DEF Holds
<1>5. ASSUME NEW key, key # slots[t].key
      PROVE  Loaded(changed, key) = Loaded(slots, key)
    <2>1. CASE \E i \in SlotIds : Holds(slots, i, key)
        <3>1. PICK i \in SlotIds : Holds(slots, i, key)
            BY <2>1
        <3>2. Holds(changed, i, key) /\ changed[i] = slots[i]
            BY <1>1, <1>5, <3>1 DEF Holds
        <3> QED
            BY <1>3, <3>1, <3>2, LoadedHeld
    <2>2. CASE ~\E i \in SlotIds : Holds(slots, i, key)
        BY <1>1, <2>2, LoadedVacant DEF Holds
    <2> QED
        BY <2>1, <2>2
<1> QED
    BY <1>1, <1>3, <1>4, <1>5 DEF changed

(***************************************************************************)
(* The stores under way.                                                   *)
(***************************************************************************)
CogEntries == [key : {Cogging}, value : ParamValues]

SectorInv == sector \in SlotImages /\ Unique(sector)

(* The image differs from the sector in the slot the call is for.           *)
EraseInv ==
    store_pc = "erase" =>
        /\ store_rc = "none" /\ cursor = 1 /\ s_target \in SlotIds
        /\ s_slots = [sector EXCEPT ![s_target] = request]
        /\ \/ /\ request \in ParamEntries
              /\ \/ Holds(sector, s_target, request.key)
                 \/ ~Valid(sector[s_target]) /\ Holding(sector, request.key) = {}
           \/ request = Invalid /\ Valid(sector[s_target])

(* What is programmed is what the image holds, but for what went wrong.     *)
ProgramInv ==
    store_pc = "program" =>
        /\ store_rc = "none" /\ cursor \in Nat \ {0} /\ s_target \in SlotIds
        /\ s_slots \in SlotImages /\ Unique(s_slots) /\ s_slots[s_target] = request
        /\ request \in ParamEntries \cup {Invalid}
        /\ Within(sector, s_slots)
        /\ \A i \in SlotIds : i >= cursor => sector[i] = Invalid

CogInv ==
    /\ cog_sector \in CogEntries \cup {Invalid} /\ tables \in ParamValues \cup {NoValue}
    /\ store_pc \in {"cog_erase", "cog_program", "cog_verify"}
         => store_rc = "none" /\ request \in CogEntries
    /\ store_pc = "cog_program" => cog_sector = Invalid
    /\ store_pc = "cog_verify" => cog_sector \in {request, Invalid}

StoreInv == SectorInv /\ EraseInv /\ ProgramInv /\ CogInv

LEMMA StoreInvInit == StoreInit => StoreInv
<1> SUFFICES ASSUME StoreInit PROVE StoreInv
    OBVIOUS
<1>1. NoImage \in SlotImages /\ Unique(NoImage)
    BY DEF NoImage, SlotImages, Unique, Valid, Holds
<1> QED
    BY <1>1 DEF StoreInit, StoreInv, SectorInv, EraseInv, ProgramInv, CogInv

LEMMA StoreInvStep ==
    ASSUME StoreInv, [StoreNext]_storeVars
    PROVE  StoreInv'
<1>1. SectorInv /\ EraseInv /\ ProgramInv /\ CogInv
    BY DEF StoreInv
<1>2. NoImage \in SlotImages /\ Unique(NoImage)
    BY DEF NoImage, SlotImages, Unique, Valid, Holds
<1>3. NoValue = Invalid.value
    BY DEF Invalid
\* A call that is over, or has not begun.
<1>4. ASSUME store_pc' = "idle", sector' \in SlotImages, Unique(sector'),
             cog_sector' \in CogEntries \cup {Invalid}, tables' \in ParamValues \cup {NoValue}
      PROVE  StoreInv'
    BY <1>4 DEF StoreInv, SectorInv, EraseInv, ProgramInv, CogInv
<1>5. ASSUME Within(sector', sector)
      PROVE  sector' \in SlotImages => SectorInv'
    BY <1>1, <1>5, LoadedWithin DEF SectorInv
<1>6. \A image \in PartlyErased : image \in SlotImages /\ Within(image, sector)
    BY <1>1 DEF PartlyErased, SlotImages, Within, SectorInv
<1>7. CASE StoreEraseFails \/ StoreProgramFails \/ StoreVerify \/ CogEraseFails
           \/ CogProgramFails \/ CogVerify \/ CogClear \/ CogClearFails
    <2>1. store_pc' = "idle"
        BY <1>7 DEF StoreEraseFails, StoreProgramFails, StoreVerify, CogEraseFails,
           CogProgramFails, CogVerify, CogClear, CogClearFails, Finish
    <2>2. sector' \in SlotImages /\ Unique(sector')
        BY <1>1, <1>6, <1>7, LoadedWithin DEF StoreEraseFails, StoreProgramFails, StoreVerify,
           CogEraseFails, CogProgramFails, CogVerify, CogClear, CogClearFails, SectorInv
    <2>3. /\ cog_sector' \in CogEntries \cup {Invalid}
          /\ tables' \in ParamValues \cup {NoValue}
        BY <1>1, <1>7 DEF StoreEraseFails, StoreProgramFails, StoreVerify,
           CogEraseFails, CogProgramFails, CogVerify, CogClear, CogClearFails, CogInv
    <2> QED
        BY <1>4, <2>1, <2>2, <2>3
<1>8. CASE StorePowerCut
    <2>1. cog_sector' \in CogEntries \cup {Invalid}
        BY <1>1, <1>8 DEF StorePowerCut, CogInv
    <2>2. tables' \in ParamValues \cup {NoValue}
        BY <1>3, <1>8, <2>1 DEF StorePowerCut, CogEntries
    <2>3. sector' \in SlotImages /\ Unique(sector')
        BY <1>1, <1>6, <1>8, LoadedWithin DEF StorePowerCut, SectorInv
    <2> QED
        BY <1>4, <1>8, <2>1, <2>2, <2>3 DEF StorePowerCut, Finish
<1>9. ASSUME NEW key \in ParamKeys, NEW value \in ParamValues, StoreBegin(key, value)
      PROVE  StoreInv'
    <2>1. request' \in ParamEntries /\ request'.key = key
        BY <1>9 DEF StoreBegin, ParamEntries
    <2>2. UNCHANGED <<sector, cog_sector, tables>>
        BY <1>9 DEF StoreBegin
    <2>3. CASE HasTarget(sector, key)
        <3> DEFINE t == TargetOf(sector, key)
        <3>1. /\ s_target' = t /\ s_slots' = [sector EXCEPT ![t] = request']
              /\ store_pc' = "erase" /\ cursor' = 1 /\ store_rc' = "none"
            BY <1>9, <2>3 DEF StoreBegin
        <3>2. \/ t \in Holding(sector, key)
              \/ t \in Vacant(sector) /\ Holding(sector, key) = {}
            BY <2>3, FirstIsMember DEF HasTarget, TargetOf, Holding, Vacant
        <3> HIDE DEF t
        <3>3. /\ t \in SlotIds
              /\ \/ Holds(sector, t, key)
                 \/ ~Valid(sector[t]) /\ Holding(sector, key) = {}
            BY <3>2 DEF Holding, Vacant, Holds
        <3>4. EraseInv'
            <4>1. Holds(sector', t, key) <=> Holds(sector, t, key)
                BY <2>2
            <4>2. Holding(sector', key) = Holding(sector, key)
                BY <2>2
            <4> QED
                BY <2>1, <2>2, <3>1, <3>3, <4>1, <4>2 DEF EraseInv
        <3>5. SectorInv' /\ ProgramInv' /\ CogInv'
            BY <1>1, <2>2, <3>1 DEF SectorInv, ProgramInv, CogInv
        <3> QED
            BY <3>4, <3>5 DEF StoreInv
    <2>4. CASE ~HasTarget(sector, key)
        <3>1. store_pc' = "idle"
            BY <1>9, <2>4 DEF StoreBegin, Finish
        <3> QED
            BY <1>1, <1>4, <2>2, <3>1 DEF SectorInv, CogInv
    <2> QED
        BY <2>3, <2>4
<1>10. ASSUME NEW key \in ParamKeys, EraseBegin(key)
       PROVE  StoreInv'
    <2>1. UNCHANGED <<sector, cog_sector, tables>> /\ request' = Invalid
        BY <1>10 DEF EraseBegin
    <2>2. CASE Holding(sector, key) # {}
        <3> DEFINE t == First(Holding(sector, key))
        <3>1. /\ s_target' = t /\ s_slots' = [sector EXCEPT ![t] = Invalid]
              /\ store_pc' = "erase" /\ cursor' = 1 /\ store_rc' = "none"
            BY <1>10, <2>2 DEF EraseBegin
        <3>2. t \in Holding(sector, key)
            BY <2>2, FirstIsMember DEF Holding
        <3> HIDE DEF t
        <3>3. t \in SlotIds /\ Valid(sector[t])
            BY <3>2 DEF Holding
        <3>4. EraseInv'
            BY <2>1, <3>1, <3>3 DEF EraseInv
        <3>5. SectorInv' /\ ProgramInv' /\ CogInv'
            BY <1>1, <2>1, <3>1 DEF SectorInv, ProgramInv, CogInv
        <3> QED
            BY <3>4, <3>5 DEF StoreInv
    <2>3. CASE Holding(sector, key) = {}
        <3>1. store_pc' = "idle"
            BY <1>10, <2>3 DEF EraseBegin, Finish
        <3> QED
            BY <1>1, <1>4, <2>1, <3>1 DEF SectorInv, CogInv
    <2> QED
        BY <2>2, <2>3
<1>11. CASE StoreErase
    <2>1. /\ store_pc = "erase" /\ store_pc' = "program" /\ sector' = NoImage
          /\ UNCHANGED <<cog_sector, s_slots, s_target, cursor, request, store_rc, tables>>
        BY <1>11 DEF StoreErase
    <2>2. /\ store_rc = "none" /\ cursor = 1 /\ s_target \in SlotIds
          /\ s_slots = [sector EXCEPT ![s_target] = request]
          /\ request \in ParamEntries \cup {Invalid}
        BY <1>1, <2>1 DEF EraseInv
    <2>3. s_slots \in SlotImages /\ Unique(s_slots)
        BY <1>1, <2>1, LoadedPut, LoadedRemoved DEF EraseInv, SectorInv
    <2>4. s_slots[s_target] = request
        BY <1>1, <2>2 DEF SectorInv, SlotImages
    <2>5. Within(NoImage, s_slots) /\ \A i \in SlotIds : NoImage[i] = Invalid
        BY DEF Within, NoImage
    <2>6. ProgramInv'
        BY <2>1, <2>2, <2>3, <2>4, <2>5 DEF ProgramInv
    <2>7. SectorInv' /\ EraseInv' /\ CogInv'
        BY <1>1, <1>2, <2>1 DEF SectorInv, EraseInv, CogInv
    <2> QED
        BY <2>6, <2>7 DEF StoreInv
<1>12. CASE StoreProgram
    <2>1. /\ store_pc = "program" /\ cursor' = cursor + 1
          /\ sector' = [sector EXCEPT ![cursor] = s_slots[cursor]] /\ cursor <= SlotCount
          /\ UNCHANGED <<cog_sector, s_slots, s_target, store_pc, request, store_rc, tables>>
        BY <1>12 DEF StoreProgram
    <2>2. /\ s_slots \in SlotImages /\ Unique(s_slots) /\ Within(sector, s_slots)
          /\ cursor \in SlotIds
        BY <1>1, <2>1, StoreAssumption DEF ProgramInv, SlotIds
    <2>3. /\ sector' \in SlotImages /\ sector'[cursor] = s_slots[cursor]
          /\ \A i \in SlotIds : i # cursor => sector'[i] = sector[i]
        BY <1>1, <2>1, <2>2 DEF SectorInv, SlotImages
    <2>4. Within(sector', s_slots)
        BY <2>2, <2>3 DEF Within
    <2>5. SectorInv'
        BY <2>2, <2>3, <2>4, LoadedWithin DEF SectorInv
    <2>6. ASSUME NEW i \in SlotIds, i >= cursor + 1
          PROVE  sector'[i] = Invalid
        BY <1>1, <2>1, <2>2, <2>3, <2>6, StoreAssumption DEF ProgramInv, SlotIds
    <2>7. ProgramInv'
        <3>1. Within(sector, s_slots)' /\ (cursor \in Nat \ {0})'
            BY <2>1, <2>2, <2>4, StoreAssumption DEF SlotIds
        <3>2. \A i \in SlotIds : i >= cursor' => sector'[i] = Invalid
            BY <2>1, <2>6
        <3> QED
            BY <1>1, <2>1, <3>1, <3>2 DEF ProgramInv
    <2>8. EraseInv' /\ CogInv'
        BY <1>1, <2>1 DEF EraseInv, CogInv
    <2> QED
        BY <2>5, <2>7, <2>8 DEF StoreInv
<1>13. CASE StoreProgramSilently
    <2>1. /\ store_pc = "program" /\ cursor' = cursor + 1 /\ cursor <= SlotCount
          /\ UNCHANGED <<sector, cog_sector, s_slots, s_target, store_pc, request, store_rc,
                         tables>>
        BY <1>13 DEF StoreProgramSilently
    <2>2. cursor \in Nat \ {0} /\ \A i \in SlotIds : i >= cursor => sector[i] = Invalid
        BY <1>1, <2>1 DEF ProgramInv
    <2>3. \A i \in SlotIds : i >= cursor + 1 => sector[i] = Invalid
        BY <2>2, StoreAssumption DEF SlotIds
    <2>4. ProgramInv'
        BY <1>1, <2>1, <2>2, <2>3 DEF ProgramInv
    <2>5. SectorInv' /\ EraseInv' /\ CogInv'
        BY <1>1, <2>1 DEF SectorInv, EraseInv, CogInv
    <2> QED
        BY <2>4, <2>5 DEF StoreInv
<1>14. CASE CogSaveBegin \/ CogErase \/ CogProgram \/ CogProgramSilently
    <2>1. store_pc' \in {"cog_erase", "cog_program", "cog_verify"} /\ UNCHANGED sector
        BY <1>14 DEF CogSaveBegin, CogErase, CogProgram, CogProgramSilently
    <2>2. CASE CogSaveBegin
        <3>1. request' \in CogEntries
            BY <1>1, <2>2 DEF CogSaveBegin, CogInv, CogEntries
        <3> QED
            BY <1>1, <2>1, <2>2, <3>1 DEF CogSaveBegin, StoreInv, SectorInv, EraseInv,
               ProgramInv, CogInv
    <2>3. CASE CogErase
        BY <1>1, <2>1, <2>3 DEF CogErase, StoreInv, SectorInv, EraseInv, ProgramInv, CogInv
    <2>4. CASE CogProgram
        BY <1>1, <2>1, <2>4 DEF CogProgram, StoreInv, SectorInv, EraseInv, ProgramInv, CogInv
    <2>5. CASE CogProgramSilently
        BY <1>1, <2>1, <2>5 DEF CogProgramSilently, StoreInv, SectorInv, EraseInv, ProgramInv,
           CogInv
    <2> QED
        BY <1>14, <2>2, <2>3, <2>4, <2>5
<1>15. CASE UNCHANGED storeVars \/ \E value \in ParamValues : TablesIdentified(value)
    BY <1>1, <1>15 DEF storeVars, TablesIdentified, StoreInv, SectorInv, EraseInv, ProgramInv,
       CogInv
<1> QED
    BY <1>7, <1>8, <1>9, <1>10, <1>11, <1>12, <1>13, <1>14, <1>15 DEF StoreNext

(***************************************************************************)
(* What the keys hold, and the steps of a store of keys.                    *)
(***************************************************************************)
LEMMA WrittenIs ==
    StoreInv => /\ Written \in SlotImages /\ Unique(Written)
                /\ store_pc # "program" => Written = sector
                /\ Within(sector, Written)
<1> SUFFICES ASSUME StoreInv
             PROVE  /\ Written \in SlotImages /\ Unique(Written)
                    /\ store_pc # "program" => Written = sector
                    /\ Within(sector, Written)
    OBVIOUS
<1>1. SectorInv /\ ProgramInv
    BY DEF StoreInv
<1>2. CASE store_pc # "program"
    <2>1. Written = sector
        BY <1>1, <1>2 DEF Written, SectorInv, SlotImages
    <2> QED
        BY <1>1, <2>1 DEF SectorInv, Within
<1>3. CASE store_pc = "program"
    <2>1. /\ s_slots \in SlotImages /\ Unique(s_slots) /\ Within(sector, s_slots)
          /\ \A i \in SlotIds : i >= cursor => sector[i] = Invalid
        BY <1>1, <1>3 DEF ProgramInv
    <2>2. Written \in SlotImages
        BY <1>1, <2>1 DEF Written, SectorInv, SlotImages
    <2>3. \A i \in SlotIds : Written[i] = IF i >= cursor THEN s_slots[i] ELSE sector[i]
        BY <1>3 DEF Written
    <2>4. Within(Written, s_slots)
        BY <2>1, <2>3 DEF Within
    <2>5. Within(sector, Written)
        BY <2>1, <2>3 DEF Within
    <2> QED
        BY <1>3, <2>1, <2>2, <2>4, <2>5, LoadedWithin
<1> QED
    BY <1>2, <1>3

CogHeld == IF store_pc = "cog_program" THEN request.value ELSE cog_sector.value

LEMMA StoredIs ==
    /\ DOMAIN Stored = AllKeys /\ Cogging \in AllKeys
    /\ \A key \in ParamKeys : key \in AllKeys /\ key # Cogging /\ Stored[key] = Loaded(Written, key)
    /\ Stored[Cogging] = CogHeld
    /\ \A key \in AllKeys : key \in ParamKeys \/ key = Cogging
BY StoreAssumption DEF Stored, AllKeys, CogHeld

LEMMA StoredNext ==
    /\ DOMAIN Stored' = AllKeys
    /\ \A key \in ParamKeys : Stored'[key] = Loaded(Written', key)
    /\ Stored'[Cogging] = CogHeld'
BY StoreAssumption DEF Stored, AllKeys, CogHeld

LEMMA StoredType == StoreInv => Stored \in [AllKeys -> ParamValues \cup {NoValue}]
<1> SUFFICES ASSUME StoreInv PROVE Stored \in [AllKeys -> ParamValues \cup {NoValue}]
    OBVIOUS
<1>1. ASSUME NEW key \in ParamKeys
      PROVE  Loaded(Written, key) \in ParamValues \cup {NoValue}
    <2>1. CASE \E i \in SlotIds : Holds(Written, i, key)
        <3>1. PICK i \in SlotIds : Holds(Written, i, key)
            BY <2>1
        <3>2. Written[i] \in ParamEntries
            BY <3>1, WrittenIs DEF SlotImages, Holds, Valid
        <3> QED
            BY <3>1, <3>2, WrittenIs, LoadedHeld DEF ParamEntries
    <2>2. CASE ~\E i \in SlotIds : Holds(Written, i, key)
        BY <2>2, LoadedVacant
    <2> QED
        BY <2>1, <2>2
<1>2. CogHeld \in ParamValues \cup {NoValue}
    BY DEF StoreInv, CogInv, CogHeld, CogEntries, Invalid
<1>3. \A key \in AllKeys : Stored[key] \in ParamValues \cup {NoValue}
    BY <1>1, <1>2, StoredIs
<1> QED
    BY <1>3, StoredIs DEF Stored

(* The same slots and the same tables are the same keys.                    *)
LEMMA SameStored ==
    ASSUME \A key \in ParamKeys : Loaded(Written', key) = Loaded(Written, key),
           CogHeld' = CogHeld
    PROVE  Stored' = Stored
<1>1. /\ Stored = [key \in AllKeys |->
                     IF key # Cogging THEN Loaded(Written, key) ELSE CogHeld]
      /\ Stored' = [key \in AllKeys |->
                      IF key # Cogging THEN Loaded(Written', key) ELSE CogHeld']
    BY DEF Stored, CogHeld
<1>2. \A key \in AllKeys : key # Cogging => key \in ParamKeys
    BY DEF AllKeys
<1> QED
    BY <1>1, <1>2

(* The steps of the abstract store.                                         *)
Promise == [Persistent!Next]_<<Stored, Told, mishaps>>

LEMMA ForgetStep ==
    ASSUME Stored' = Stored, Told' = Invalid, UNCHANGED mishaps
    PROVE  Promise
BY DEF Promise, Persistent!Next, Persistent!Forget, Persistent!Nobody, Invalid

LEMMA ChangeStep ==
    ASSUME StoreInv, NEW k \in AllKeys, NEW v \in ParamValues \cup {NoValue},
           Stored' = [Stored EXCEPT ![k] = v], Told' = Invalid, UNCHANGED mishaps
    PROVE  Promise
<1>1. CASE Stored' = Stored
    BY <1>1, ForgetStep
<1>2. CASE Stored' # Stored /\ v = NoValue
    BY <1>2 DEF Promise, Persistent!Next, Persistent!Remove, Persistent!Nobody, Invalid
<1>3. CASE Stored' # Stored /\ v \in ParamValues
    BY <1>3 DEF Promise, Persistent!Next, Persistent!Put, Persistent!Nobody, Invalid
<1> QED
    BY <1>1, <1>2, <1>3

LEMMA TellStep ==
    ASSUME NEW k \in AllKeys, Stored[k] # NoValue, Stored' = Stored, UNCHANGED mishaps,
           Told' = [key |-> k, value |-> Stored[k]]
    PROVE  Promise
BY DEF Promise, Persistent!Next, Persistent!Acknowledge

LEMMA MishapStep ==
    ASSUME StoreInv', \A key \in AllKeys : Stored'[key] \in {Stored[key], NoValue},
           Told' = Invalid, mishaps' = mishaps + 1
    PROVE  Promise
<1>1. (StoreInv => Stored \in [AllKeys -> ParamValues \cup {NoValue}])'
    BY StoredType, PTL
<1> QED
    BY <1>1 DEF Promise, Persistent!Next, Persistent!Mishap, Persistent!Nobody, Invalid

LEMMA LostStep ==
    ASSUME StoreInv, StoreInv', Within(Written', Written), CogHeld' \in {CogHeld, NoValue},
           Told' = Invalid, mishaps' = mishaps + 1
    PROVE  Promise
<1>1. ASSUME NEW key \in ParamKeys
      PROVE  Loaded(Written', key) \in {Loaded(Written, key), NoValue}
    BY WrittenIs, LoadedWithin
<1>2. /\ \A key \in ParamKeys : Stored'[key] = Loaded(Written', key)
      /\ Stored'[Cogging] = CogHeld'
    BY StoredNext
<1>3. ASSUME NEW key \in AllKeys
      PROVE  Stored'[key] \in {Stored[key], NoValue}
    BY <1>1, <1>2, StoredIs
<1> QED
    BY <1>3, MishapStep

LEMMA PromiseStep ==
    ASSUME StoreInv, [StoreNext]_storeVars
    PROVE  Promise
<1>1. StoreInv'
    BY StoreInvStep
<1>2. SectorInv /\ EraseInv /\ ProgramInv /\ CogInv
    BY DEF StoreInv
<1>3. /\ Written \in SlotImages /\ Unique(Written) /\ Within(sector, Written)
      /\ store_pc # "program" => Written = sector
    BY WrittenIs
<1>4. store_pc' # "program" => Written' = sector'
    <2>1. (StoreInv => (store_pc # "program" => Written = sector))'
        BY WrittenIs, PTL
    <2> QED
        BY <1>1, <2>1
<1>5. Invalid.value = NoValue
    BY DEF Invalid
\* The parameter sector.
<1>6. CASE \/ \E key \in ParamKeys, value \in ParamValues : StoreBegin(key, value)
           \/ \E key \in ParamKeys : EraseBegin(key)
    <2>1. /\ store_pc = "idle" /\ store_pc' \in {"idle", "erase"}
          /\ UNCHANGED <<sector, cog_sector, mishaps>>
          /\ store_rc' # "ok" \/ request' = Invalid
        BY <1>6 DEF StoreBegin, EraseBegin, Finish
    <2>2. Written' = Written /\ CogHeld' = CogHeld
        BY <1>3, <1>4, <2>1 DEF CogHeld
    <2>3. Told' = Invalid
        BY <2>1 DEF Told
    <2> QED
        BY <2>1, <2>2, <2>3, SameStored, ForgetStep
<1>7. CASE StoreErase
    <2>1. /\ store_pc = "erase" /\ store_pc' = "program" /\ sector' = NoImage
          /\ UNCHANGED <<cog_sector, s_slots, s_target, cursor, request, store_rc, mishaps>>
        BY <1>7 DEF StoreErase
    <2>2. /\ store_rc = "none" /\ cursor = 1 /\ s_target \in SlotIds /\ Written = sector
          /\ s_slots = [sector EXCEPT ![s_target] = request]
        BY <1>2, <1>3, <2>1 DEF EraseInv
    <2>3. Written' = s_slots
        <3>1. s_slots \in SlotImages
            BY <1>1, <2>1 DEF StoreInv, ProgramInv
        <3>2. \A i \in SlotIds : i >= cursor'
            BY <2>1, <2>2 DEF SlotIds
        <3> QED
            BY <2>1, <3>1, <3>2 DEF Written, SlotImages
    <2>4. Told' = Invalid /\ CogHeld' = CogHeld
        <3>1. Told' = Invalid
            BY <2>1, <2>2 DEF Told
        <3>2. CogHeld = cog_sector.value /\ CogHeld' = cog_sector.value
            BY <2>1 DEF CogHeld
        <3> QED
            BY <3>1, <3>2
    <2>5. ASSUME NEW k \in ParamKeys, NEW v \in ParamValues \cup {NoValue},
                 Loaded(s_slots, k) = v,
                 \A key : key # k => Loaded(s_slots, key) = Loaded(sector, key)
          PROVE  Promise
        <3>1. /\ \A key \in ParamKeys : Stored'[key] = Loaded(Written', key)
              /\ Stored'[Cogging] = CogHeld' /\ DOMAIN Stored' = AllKeys
            BY StoredNext
        <3>2. Stored' = [Stored EXCEPT ![k] = v]
            <4>1. ASSUME NEW key \in AllKeys
                  PROVE  Stored'[key] = IF key = k THEN v ELSE Stored[key]
                BY <2>2, <2>3, <2>4, <2>5, <3>1, StoredIs
            <4>2. /\ Stored' = [key \in AllKeys |-> Stored'[key]]
                  /\ Stored = [key \in AllKeys |-> Stored[key]]
                BY DEF Stored
            <4> QED
                BY <4>1, <4>2
        <3> QED
            BY <2>1, <2>4, <2>5, <3>2, StoredIs, ChangeStep
    <2>6. CASE request \in ParamEntries
        <3>1. \/ Holds(sector, s_target, request.key)
              \/ ~Valid(sector[s_target]) /\ Holding(sector, request.key) = {}
            BY <1>2, <2>1, <2>6, InvalidIsNoEntry DEF EraseInv
        <3>2. /\ Loaded(s_slots, request.key) = request.value
              /\ \A key : key # request.key => Loaded(s_slots, key) = Loaded(sector, key)
            BY <1>2, <2>2, <2>6, <3>1, LoadedPut DEF SectorInv
        <3>3. request.key \in ParamKeys /\ request.value \in ParamValues
            BY <2>6 DEF ParamEntries
        <3> QED
            BY <2>5, <3>2, <3>3
    <2>7. CASE request = Invalid /\ Valid(sector[s_target])
        <3>1. sector[s_target].key \in ParamKeys
            BY <1>2, <2>2, <2>7 DEF SectorInv, SlotImages, Valid, ParamEntries
        <3> DEFINE k == sector[s_target].key
        <3>2. /\ Loaded(s_slots, k) = NoValue
              /\ \A key : key # k => Loaded(s_slots, key) = Loaded(sector, key)
            BY <1>2, <2>2, <2>7, LoadedRemoved DEF SectorInv
        <3>3. k \in ParamKeys
            BY <3>1
        <3> HIDE DEF k
        <3> QED
            BY <2>5, <3>2, <3>3
    <2> QED
        BY <1>2, <2>1, <2>6, <2>7 DEF EraseInv
<1>8. CASE StoreEraseFails
    <2>1. /\ store_pc = "erase" /\ store_pc' = "idle" /\ sector' \in PartlyErased
          /\ store_rc' = "fail" /\ UNCHANGED cog_sector /\ mishaps' = mishaps + 1
        BY <1>8 DEF StoreEraseFails, Mishap, Finish
    <2>2. Within(sector', sector)
        BY <1>2, <2>1 DEF PartlyErased, SectorInv, SlotImages, Within
    <2>3. CogHeld' = CogHeld /\ Told' = Invalid
        BY <2>1 DEF CogHeld, Told
    <2> QED
        BY <1>1, <1>3, <1>4, <2>1, <2>2, <2>3, LostStep
<1>9. CASE StoreProgram
    <2>1. /\ store_pc = "program" /\ cursor' = cursor + 1
          /\ sector' = [sector EXCEPT ![cursor] = s_slots[cursor]] /\ cursor <= SlotCount
          /\ UNCHANGED <<cog_sector, s_slots, store_pc, request, store_rc, mishaps>>
        BY <1>9 DEF StoreProgram
    <2>2. cursor \in SlotIds
        BY <1>2, <2>1, StoreAssumption DEF ProgramInv, SlotIds
    <2>3. ASSUME NEW i \in SlotIds
          PROVE  Written'[i] = Written[i]
        <3>1. /\ Written[i] = IF i >= cursor THEN s_slots[i] ELSE sector[i]
              /\ Written'[i] = IF i >= cursor + 1 THEN s_slots[i] ELSE sector'[i]
            BY <2>1 DEF Written
        <3>2. sector'[i] = IF i = cursor THEN s_slots[i] ELSE sector[i]
            BY <1>2, <2>1 DEF SectorInv, SlotImages
        <3> QED
            BY <2>2, <3>1, <3>2, StoreAssumption DEF SlotIds
    <2>4. Written' = Written
        BY <2>3 DEF Written
    <2>5. CogHeld' = CogHeld /\ Told' = Told
        BY <2>1 DEF CogHeld, Told
    <2>6. Told' = Invalid
        BY <1>2, <2>1, <2>5 DEF ProgramInv, Told
    <2> QED
        BY <2>1, <2>4, <2>5, <2>6, SameStored, ForgetStep
<1>10. CASE StoreProgramSilently
    <2>1. /\ store_pc = "program" /\ cursor' = cursor + 1 /\ mishaps' = mishaps + 1
          /\ UNCHANGED <<sector, cog_sector, s_slots, store_pc, request, store_rc>>
        BY <1>10 DEF StoreProgramSilently, Mishap
    <2>2. /\ cursor \in Nat /\ store_rc = "none"
          /\ \A i \in SlotIds : i >= cursor => sector[i] = Invalid
        BY <1>2, <2>1 DEF ProgramInv
    <2>3. ASSUME NEW i \in SlotIds
          PROVE  Written'[i] \in {Written[i], Invalid}
        <3>1. /\ Written[i] = IF i >= cursor THEN s_slots[i] ELSE sector[i]
              /\ Written'[i] = IF i >= cursor + 1 THEN s_slots[i] ELSE sector[i]
            BY <2>1 DEF Written
        <3> QED
            BY <2>2, <3>1 DEF SlotIds
    <2>4. Within(Written', Written)
        BY <2>3 DEF Within
    <2>5. CogHeld' = CogHeld /\ Told' = Invalid
        BY <2>1, <2>2 DEF CogHeld, Told
    <2> QED
        BY <1>1, <2>1, <2>4, <2>5, LostStep
<1>11. CASE StoreProgramFails
    <2>1. /\ store_pc = "program" /\ store_pc' = "idle" /\ store_rc' = "fail"
          /\ UNCHANGED <<sector, cog_sector>> /\ mishaps' = mishaps + 1
        BY <1>11 DEF StoreProgramFails, Mishap, Finish
    <2>2. Within(Written', Written)
        BY <1>3, <1>4, <2>1
    <2>3. CogHeld' = CogHeld /\ Told' = Invalid
        BY <2>1 DEF CogHeld, Told
    <2> QED
        BY <1>1, <2>1, <2>2, <2>3, LostStep
<1>12. CASE StoreVerify
    <2>1. /\ store_pc = "program" /\ store_pc' = "idle" /\ cursor > SlotCount
          /\ UNCHANGED <<sector, cog_sector, request, mishaps>>
          /\ store_rc' = IF ReadsBack THEN "ok" ELSE "fail"
        BY <1>12 DEF StoreVerify, Finish
    <2>2. /\ cursor \in Nat /\ s_target \in SlotIds /\ s_slots[s_target] = request
          /\ request \in ParamEntries \cup {Invalid}
        BY <1>2, <2>1 DEF ProgramInv
    <2>3. Written = sector
        <3>1. \A i \in SlotIds : ~(i >= cursor)
            BY <2>1, <2>2, StoreAssumption DEF SlotIds
        <3> QED
            BY <1>2, <2>1, <3>1 DEF Written, SectorInv, SlotImages
    <2>4. Stored' = Stored
        BY <1>4, <2>1, <2>3, SameStored DEF CogHeld
    <2>5. CASE request \in ParamEntries /\ ReadsBack
        <3>1. Holds(sector, s_target, request.key) /\ request.value # NoValue
              /\ request.key \in ParamKeys
            BY <2>2, <2>5, InvalidIsNoEntry, StoreAssumption
            DEF Holds, ReadsBack, Valid, ParamEntries
        <3>2. Loaded(sector, request.key) = request.value
            BY <1>2, <2>2, <2>5, <3>1, LoadedHeld DEF SectorInv, ReadsBack
        <3>3. Stored[request.key] = request.value /\ request.key \in AllKeys
            BY <2>3, <3>1, <3>2, StoredIs
        <3>4. Told' = request
            BY <2>1, <2>5 DEF Told
        <3>5. request = [key |-> request.key, value |-> request.value]
            BY <2>5 DEF ParamEntries
        <3> QED
            BY <2>1, <2>4, <3>1, <3>3, <3>4, <3>5, TellStep
    <2>6. CASE request = Invalid \/ ~ReadsBack
        <3>1. Told' = Invalid
            BY <2>1, <2>6 DEF Told
        <3> QED
            BY <2>1, <2>4, <3>1, ForgetStep
    <2> QED
        BY <2>2, <2>5, <2>6
\* The cogging tables.
<1>13. CASE \E value \in ParamValues : TablesIdentified(value)
    <2>1. UNCHANGED <<sector, cog_sector, s_slots, store_pc, cursor, request, store_rc, mishaps>>
        BY <1>13 DEF TablesIdentified
    <2>2. Written' = Written /\ CogHeld' = CogHeld /\ Told' = Told
        BY <2>1 DEF Written, CogHeld, Told
    <2> QED
        BY <2>1, <2>2, SameStored DEF Promise
<1>14. ASSUME store_pc # "program", store_pc' # "program", UNCHANGED sector
       PROVE  Written' = Written
    BY <1>3, <1>4, <1>14
<1>15. CASE CogSaveBegin
    <2>1. Told' = Invalid /\ UNCHANGED mishaps
        BY <1>15 DEF CogSaveBegin, Told
    <2>2. Written' = Written /\ CogHeld' = CogHeld
        BY <1>14, <1>15 DEF CogSaveBegin, CogHeld
    <2> QED
        BY <2>1, <2>2, SameStored, ForgetStep
<1>16. ASSUME NEW v \in ParamValues \cup {NoValue}, Written' = Written, CogHeld' = v,
              Told' = Invalid, UNCHANGED mishaps
       PROVE  Promise
    <2>1. Stored' = [Stored EXCEPT ![Cogging] = v]
        <3>1. ASSUME NEW key \in AllKeys
              PROVE  Stored'[key] = IF key = Cogging THEN v ELSE Stored[key]
            BY <1>16, StoredIs, StoredNext
        <3>2. /\ Stored' = [key \in AllKeys |-> Stored'[key]]
              /\ Stored = [key \in AllKeys |-> Stored[key]]
            BY DEF Stored
        <3> QED
            BY <3>1, <3>2
    <2> QED
        BY <1>16, <2>1, StoredIs, ChangeStep
<1>17. CASE CogErase
    <2>1. /\ store_pc = "cog_erase" /\ store_pc' = "cog_program"
          /\ UNCHANGED <<sector, request, store_rc, mishaps>>
        BY <1>17 DEF CogErase
    <2>2. store_rc = "none" /\ request.value \in ParamValues
        BY <1>2, <2>1 DEF CogInv, CogEntries
    <2>3. Written' = Written /\ CogHeld' = request.value /\ Told' = Invalid
        BY <1>14, <2>1, <2>2 DEF CogHeld, Told
    <2> QED
        BY <1>16, <2>1, <2>2, <2>3
<1>18. CASE CogProgram
    <2>1. /\ store_pc = "cog_program" /\ store_pc' # "program"
          /\ UNCHANGED <<sector, request, store_rc, mishaps>>
          /\ store_pc' # "cog_program" => cog_sector' = request
        BY <1>18 DEF CogProgram
    <2>2. Written' = Written /\ CogHeld' = CogHeld
        BY <1>14, <2>1 DEF CogHeld
    <2>3. Told' = Invalid
        BY <1>2, <2>1 DEF CogInv, Told
    <2> QED
        BY <2>1, <2>2, <2>3, SameStored, ForgetStep
<1>19. CASE CogEraseFails \/ CogProgramFails \/ CogProgramSilently \/ CogClearFails
    <2>1. /\ store_pc # "program" /\ store_pc' \notin {"program", "cog_program"}
          /\ UNCHANGED sector /\ mishaps' = mishaps + 1
          /\ cog_sector' \in {cog_sector, Invalid}
          /\ store_pc = "cog_program" => cog_sector' = cog_sector
        BY <1>19 DEF CogEraseFails, CogProgramFails, CogProgramSilently, CogClearFails, Mishap,
           Finish
    <2>2. Told' = Invalid
        BY <1>2, <1>19 DEF CogEraseFails, CogProgramFails, CogProgramSilently, CogClearFails,
           Finish, CogInv, Told
    <2>3. CogHeld' \in {CogHeld, NoValue}
        BY <1>2, <1>5, <2>1 DEF CogHeld, CogInv
    <2>4. Within(Written', Written)
        BY <1>14, <2>1 DEF Within
    <2> QED
        BY <1>1, <2>1, <2>2, <2>3, <2>4, LostStep
<1>20. CASE CogVerify
    <2>1. /\ store_pc = "cog_verify" /\ store_pc' = "idle"
          /\ UNCHANGED <<sector, cog_sector, request, mishaps>>
          /\ store_rc' = IF Valid(cog_sector) THEN "ok" ELSE "fail"
        BY <1>20 DEF CogVerify, Finish
    <2>2. Written' = Written /\ CogHeld' = CogHeld /\ CogHeld = cog_sector.value
        BY <1>14, <2>1 DEF CogHeld
    <2>3. CASE Valid(cog_sector)
        <3>1. cog_sector = request /\ request \in CogEntries
            BY <1>2, <2>1, <2>3 DEF CogInv, Valid
        <3>2. request = [key |-> Cogging, value |-> request.value] /\ request.value # NoValue
            BY <3>1, StoreAssumption DEF CogEntries
        <3>3. Told' = request
            BY <2>1, <2>3 DEF Told
        <3> QED
            BY <2>1, <2>2, <3>1, <3>2, <3>3, StoredIs, SameStored, TellStep
    <2>4. CASE ~Valid(cog_sector)
        <3>1. Told' = Invalid
            BY <2>1, <2>4 DEF Told
        <3> QED
            BY <2>1, <2>2, <3>1, SameStored, ForgetStep
    <2> QED
        BY <2>3, <2>4
<1>21. CASE CogClear
    <2>1. Written' = Written /\ CogHeld' = NoValue /\ UNCHANGED mishaps
        BY <1>5, <1>14, <1>21 DEF CogClear, Finish, CogHeld
    <2>2. Told' = Invalid
        BY <1>21 DEF CogClear, Finish, Told
    <2> QED
        BY <1>16, <2>1, <2>2
\* Power, and nothing.
<1>22. CASE StorePowerCut
    <2>1. /\ store_pc' = "idle" /\ store_rc' = "none" /\ mishaps' = mishaps + 1
          /\ cog_sector' \in {cog_sector, Invalid}
          /\ store_pc # "cog_erase" => cog_sector' = cog_sector
          /\ sector' = sector \/ (store_pc = "erase" /\ sector' \in PartlyErased)
        BY <1>22 DEF StorePowerCut, Finish, Mishap
    <2>2. Within(sector', sector)
        BY <1>2, <2>1 DEF PartlyErased, SectorInv, SlotImages, Within
    <2>3. Within(Written', Written)
        BY <1>3, <1>4, <2>1, <2>2
    <2>4. CogHeld' \in {CogHeld, NoValue} /\ Told' = Invalid
        BY <1>2, <1>5, <2>1 DEF CogHeld, CogInv, Told
    <2> QED
        BY <1>1, <2>1, <2>3, <2>4, LostStep
<1>23. CASE UNCHANGED storeVars
    <2>1. Written' = Written /\ CogHeld' = CogHeld /\ Told' = Told /\ UNCHANGED mishaps
        BY <1>23 DEF storeVars, Written, CogHeld, Told
    <2> QED
        BY <2>1, SameStored DEF Promise
<1> QED
    BY <1>6, <1>7, <1>8, <1>9, <1>10, <1>11, <1>12, <1>13, <1>15, <1>17, <1>18, <1>19, <1>20,
       <1>21, <1>22, <1>23 DEF StoreNext

(* The two sectors implement a store of keys, for every number of slots,    *)
(* keys, values and mishaps: a store or an erasure changes its own key and no *)
(* other, what is acknowledged is in the flash, and what a failure or a power *)
(* cut costs is keys, never a mixed or an old value (app_param.c:172,        *)
(* app_cogging_store.c:110).                                               *)
THEOREM StoreKeepsKeys == StoreSpec => KeysKept
<1>1. StoreInit => Persistent!Init
    <2> SUFFICES ASSUME StoreInit PROVE Persistent!Init
        OBVIOUS
    <2>1. StoreInv /\ Written = NoImage
        BY StoreInvInit, WrittenIs DEF StoreInit
    <2>2. \A key \in ParamKeys : Loaded(Written, key) = NoValue
        BY <2>1, LoadedVacant DEF NoImage, Holds, Valid
    <2>3. CogHeld = NoValue
        BY DEF StoreInit, CogHeld, Invalid
    <2>4. \A key \in AllKeys : Stored[key] = NoValue
        BY <2>2, <2>3, StoredIs
    <2>5. Stored = [key \in AllKeys |-> NoValue]
        BY <2>4, StoredIs DEF Stored
    <2> QED
        BY <2>5 DEF StoreInit, Persistent!Init, Persistent!Nobody, Told, Invalid
<1>2. StoreInv /\ [StoreNext]_storeVars => StoreInv' /\ Promise
    BY StoreInvStep, PromiseStep
<1> QED
    BY <1>1, <1>2, StoreInvInit, PTL DEF StoreSpec, KeysKept, Persistent!Spec, Promise

(***************************************************************************)
(* Types.                                                                  *)
(***************************************************************************)
AnyEntry == Entries \cup {Invalid}
Sectors == [SlotIds -> AnyEntry]

LEMMA StoreTypeStep ==
    ASSUME StoreTypeOK, [StoreNext]_storeVars
    PROVE  StoreTypeOK'
<1> USE DEF StoreTypeOK
<1>1. /\ Invalid \in AnyEntry /\ NoImage \in Sectors /\ Invalid.value = NoValue
      /\ \A key \in AllKeys, value \in ParamValues : [key |-> key, value |-> value] \in AnyEntry
      /\ \A e \in AnyEntry : e.value \in ParamValues \cup {NoValue}
    BY DEF Entries, Invalid, NoImage, AnyEntry, Sectors
<1>2. /\ {sector, s_slots} \subseteq Sectors /\ {cog_sector, request} \subseteq AnyEntry
      /\ SlotCount \in Nat \ {0} /\ MaxMishaps \in Nat
    BY StoreAssumption DEF AnyEntry, Sectors
<1>3. Mishap => mishaps' \in 0 .. MaxMishaps
    BY <1>2 DEF Mishap
<1>4. PartlyErased \subseteq Sectors
    BY <1>1, <1>2 DEF PartlyErased, Sectors
<1>5. ASSUME NEW rc \in {"none", "ok", "fail"}, Finish(rc)
      PROVE  /\ s_slots' \in Sectors /\ store_rc' \in {"none", "ok", "fail"} /\ store_pc' = "idle"
             /\ s_target' \in SlotIds \cup {0} /\ cursor' \in 0 .. SlotCount + 2
    BY <1>1, <1>2, <1>5 DEF Finish
<1>6. ASSUME NEW slots \in Sectors, NEW t, NEW e \in AnyEntry
      PROVE  [slots EXCEPT ![t] = e] \in Sectors
    BY <1>6 DEF Sectors
<1>7. ASSUME NEW key \in ParamKeys, NEW value \in ParamValues, StoreBegin(key, value)
      PROVE  StoreTypeOK'
  <2>1. [key |-> key, value |-> value] \in AnyEntry
      BY <1>1 DEF AllKeys
  <2>2. CASE HasTarget(sector, key)
    <3>1. TargetOf(sector, key) \in SlotIds
      <4>1. Holding(sector, key) \subseteq SlotIds /\ Vacant(sector) \subseteq SlotIds
          BY DEF Holding, Vacant
      <4> QED
          BY <2>2, <4>1, FirstIsMember DEF TargetOf, HasTarget
    <3>2. s_slots' \in Sectors
        BY <1>2, <1>6, <1>7, <2>1, <2>2 DEF StoreBegin
    <3> QED
        BY <1>2, <1>7, <2>1, <2>2, <3>1, <3>2 DEF StoreBegin, AnyEntry, Sectors
  <2>3. CASE ~HasTarget(sector, key)
      BY <1>5, <1>7, <2>1, <2>3 DEF StoreBegin, AnyEntry, Sectors
  <2> QED
      BY <2>2, <2>3
<1>8. ASSUME NEW key \in ParamKeys, EraseBegin(key)
      PROVE  StoreTypeOK'
  <2>1. CASE Holding(sector, key) # {}
    <3>1. First(Holding(sector, key)) \in SlotIds
        BY <2>1, FirstIsMember DEF Holding
    <3>2. s_slots' \in Sectors
        BY <1>1, <1>2, <1>6, <1>8, <2>1 DEF EraseBegin
    <3> QED
        BY <1>1, <1>2, <1>8, <2>1, <3>1, <3>2 DEF EraseBegin, AnyEntry, Sectors
  <2>2. CASE Holding(sector, key) = {}
      BY <1>1, <1>5, <1>8, <2>2 DEF EraseBegin, AnyEntry, Sectors
  <2> QED
      BY <2>1, <2>2
<1>9. CASE StoreErase
    BY <1>1, <1>9 DEF StoreErase, AnyEntry, Sectors
<1>10. CASE StoreEraseFails
    BY <1>3, <1>4, <1>5, <1>10 DEF StoreEraseFails, AnyEntry, Sectors
<1>11. CASE StoreProgram
  <2>1. sector' \in Sectors
      BY <1>2, <1>11 DEF StoreProgram, Sectors
  <2>2. cursor' \in 0 .. SlotCount + 2
      BY <1>2, <1>11 DEF StoreProgram
  <2> QED
      BY <1>11, <2>1, <2>2 DEF StoreProgram, AnyEntry, Sectors
<1>12. CASE StoreProgramFails \/ StoreVerify \/ CogProgramFails \/ CogVerify
    BY <1>3, <1>5, <1>12
       DEF StoreProgramFails, StoreVerify, CogProgramFails, CogVerify, AnyEntry, Sectors
<1>13. CASE StoreProgramSilently
  <2>1. cursor' \in 0 .. SlotCount + 2
      BY <1>2, <1>13 DEF StoreProgramSilently
  <2> QED
      BY <1>3, <1>13, <2>1 DEF StoreProgramSilently
<1>14. CASE \E value \in ParamValues : TablesIdentified(value)
    BY <1>14 DEF TablesIdentified
<1>15. CASE CogSaveBegin
  <2>1. request' \in AnyEntry
      BY <1>1, <1>15 DEF CogSaveBegin, AllKeys
  <2> QED
      BY <1>2, <1>15, <2>1 DEF CogSaveBegin, AnyEntry
<1>16. CASE CogErase
    BY <1>1, <1>16 DEF CogErase, AnyEntry
<1>17. CASE CogEraseFails
    BY <1>1, <1>2, <1>3, <1>5, <1>17 DEF CogEraseFails, AnyEntry, Sectors
<1>18. CASE CogProgram
    BY <1>2, <1>18 DEF CogProgram
<1>19. CASE CogProgramSilently
    BY <1>3, <1>19 DEF CogProgramSilently
<1>20. CASE CogClear \/ CogClearFails
    BY <1>1, <1>2, <1>3, <1>5, <1>20 DEF CogClear, CogClearFails, AnyEntry, Sectors
<1>21. CASE StorePowerCut
  <2>1. sector' \in Sectors /\ cog_sector' \in AnyEntry
      BY <1>1, <1>2, <1>4, <1>21 DEF StorePowerCut
  <2>2. tables' \in ParamValues \cup {NoValue}
      BY <1>1, <1>21, <2>1 DEF StorePowerCut
  <2> QED
      BY <1>1, <1>3, <1>5, <1>21, <2>1, <2>2 DEF StorePowerCut, AnyEntry, Sectors
<1>22. CASE UNCHANGED storeVars
    BY <1>22 DEF storeVars
<1> QED
    BY <1>7, <1>8, <1>9, <1>10, <1>11, <1>12, <1>13, <1>14, <1>15, <1>16, <1>17, <1>18, <1>19,
       <1>20, <1>21, <1>22 DEF StoreNext

(* The variables of the two stores keep their types: the cursor never runs   *)
(* past the sector (app_param.c, app_cogging_store.c).                       *)
LEMMA StoreTypeCorrect == StoreSpec => []StoreTypeOK
<1>1. StoreInit => StoreTypeOK
    BY StoreAssumption DEF StoreInit, StoreTypeOK, NoImage, Invalid
<1> QED
    BY <1>1, StoreTypeStep, PTL DEF StoreSpec
=============================================================================
