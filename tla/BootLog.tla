------------------------------- MODULE BootLog -------------------------------
(***************************************************************************)
(* The append-only records of App/Platform/Src/boot_meta.c: the boot        *)
(* control log that the bootloader and the application share.              *)
(*                                                                         *)
(* A log is the sequence of the slots of its sector that are not erased; a  *)
(* half-written record is Torn.  Magic numbers and checksums are what     *)
(* makes a torn record recognisable and are not modelled further.  The     *)
(* 16-bit sequence number counts modulo SeqWrap.                            *)
(***************************************************************************)
EXTENDS Integers, Sequences

CONSTANTS
    LogSize,        \* records a sector holds (256)
    SeqWrap          \* values of the sequence number (2^16)

ASSUME LogAssumption == LogSize \in Nat \ {0} /\ SeqWrap \in Nat /\ SeqWrap > 2 * LogSize

Slots == {0, 1}
NoSlot == 255

(* boot_control_record_t.                                                  *)
Record(active, pending, attempts, confirmed, seq) ==
    [active |-> active, pending |-> pending, attempts |-> attempts,
     confirmed |-> confirmed, seq |-> seq]

(* What the checksum rejects: a half-written record, or none at all.       *)
Torn == Record(NoSlot, NoSlot, 0, FALSE, 0)
NoRecord == Torn

Defaults == Record(0, NoSlot, 0, FALSE, 0)

(* seq_newer, and a comparison that forgets the wrap.                       *)
SeqLarger(a, b) == a > b
SeqNewer(a, b) == (a - b) % SeqWrap \in 1 .. (SeqWrap \div 2) - 1

(* boot_control_load: the newest whole record, the sector scanned from its  *)
(* first slot on.                                                           *)
Newer(best, r) ==
    IF r = Torn THEN best
    ELSE IF best = NoRecord THEN r
    ELSE IF SeqNewer(r.seq, best.seq) THEN r ELSE best

Load(log) ==
    LET best[n \in 0 .. Len(log)] ==
          IF n = 0 THEN NoRecord ELSE Newer(best[n - 1], log[n])
    IN best[Len(log)]
LoadOrDefault(log) == IF Load(log) = NoRecord THEN Defaults ELSE Load(log)

Full(log) == Len(log) = LogSize

(* log_next_slot and log_append: a full sector is erased first.             *)
Appended(log, r) == IF Full(log) THEN <<r>> ELSE Append(log, r)

(* The record boot_control_save writes.                                    *)
Numbered(log, r) ==
    [r EXCEPT !.seq = IF Load(log) = NoRecord THEN 0 ELSE (Load(log).seq + 1) % SeqWrap]

Saved(log, r) == Appended(log, Numbered(log, r))

(* What is left of the log when the write is cut short.                     *)
CutShort(log) == IF Full(log) THEN {log, <<>>, <<Torn>>} ELSE {log, Append(log, Torn)}
===============================================================================
