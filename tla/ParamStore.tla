----------------------------- MODULE ParamStore -----------------------------
(***************************************************************************)
(* The stored parameters: the key-value sector of                          *)
(* App/Platform/Src/app_param.c, the sector of the cogging tables           *)
(* (App/Control/Src/app_cogging_store.c) and the flash operations below     *)
(* them (Driver/hpm_impl/drv_flash.c).                                      *)
(*                                                                         *)
(* Both sectors are rewritten in place: erased, then programmed piece by    *)
(* piece.  Only the io task writes.  Each flash operation runs with the     *)
(* interrupts off, may fail, may report success and leave rubbish behind,   *)
(* and the power may go at any moment: mishaps, bounded by MaxMishaps.      *)
(* The magic and checksum of a record are what makes rubbish recognisable.  *)
(***************************************************************************)
EXTENDS Integers

CONSTANTS
    ParamKeys,      \* keys of the parameter sector
    ParamValues,
    SlotCount,      \* slots of the sector (16)
    MaxMishaps

(* The cogging tables, a key of their own sector.                          *)
Cogging == "cogging"
AllKeys == ParamKeys \cup {Cogging}
NoValue == "none"

ASSUME StoreAssumption ==
    /\ SlotCount \in Nat \ {0} /\ MaxMishaps \in Nat
    /\ Cogging \notin ParamKeys /\ NoValue \notin ParamValues

SlotIds == 1 .. SlotCount
Entries == [key : AllKeys, value : ParamValues]
Invalid == [key |-> NoValue, value |-> NoValue]

VARIABLES
    sector,         \* the slots of the parameter sector
    cog_sector,     \* the record of the cogging sector, one entry in two pages
    s_slots,        \* the image of the sector that a store writes back
    store_pc,       \* where the store stands
    s_target,       \* the slot it is for
    cursor,         \* the next slot, or page, it programs
    request,        \* what it is to hold: an entry, or Invalid for an erasure
    store_rc,       \* what the last call returned: 0 or -1, or it still runs
    tables,         \* the cogging tables in memory
    mishaps

storeVars == <<sector, cog_sector, s_slots, store_pc, s_target, cursor, request, store_rc,
               tables, mishaps>>

NoImage == [i \in SlotIds |-> Invalid]

StoreTypeOK ==
    /\ sector \in [SlotIds -> Entries \cup {Invalid}]
    /\ s_slots \in [SlotIds -> Entries \cup {Invalid}]
    /\ cog_sector \in Entries \cup {Invalid} /\ request \in Entries \cup {Invalid}
    /\ store_pc \in {"idle", "erase", "program", "cog_erase", "cog_program", "cog_verify"}
    /\ s_target \in SlotIds \cup {0} /\ cursor \in 0 .. SlotCount + 2
    /\ store_rc \in {"none", "ok", "fail"} /\ tables \in ParamValues \cup {NoValue}
    /\ mishaps \in 0 .. MaxMishaps

StoreInit ==
    /\ sector = NoImage /\ cog_sector = Invalid /\ s_slots = NoImage
    /\ store_pc = "idle" /\ s_target = 0 /\ cursor = 0 /\ request = Invalid
    /\ store_rc = "none" /\ tables = NoValue /\ mishaps = 0

(***************************************************************************)
(* The parameter sector.                                                   *)
(***************************************************************************)
(* param_slot_valid                                                        *)
Valid(entry) == entry # Invalid
Holding(slots, key) == {i \in SlotIds : Valid(slots[i]) /\ slots[i].key = key}
Vacant(slots) == {i \in SlotIds : ~Valid(slots[i])}
First(ids) == CHOOSE i \in ids : \A j \in ids : i <= j

(* app_param_load: the first valid slot with the key.                       *)
Loaded(slots, key) ==
    IF Holding(slots, key) = {} THEN NoValue ELSE slots[First(Holding(slots, key))].value

(* The slot a store writes: the key's own, else the first that is vacant.   *)
TargetFirst(slots, key) == First(SlotIds)
TargetOf(slots, key) ==
    IF Holding(slots, key) # {} THEN First(Holding(slots, key)) ELSE First(Vacant(slots))

HasTarget(slots, key) == Holding(slots, key) \cup Vacant(slots) # {}

Finish(rc) ==
    /\ store_rc' = rc /\ store_pc' = "idle"
    /\ s_slots' = NoImage /\ s_target' = 0 /\ cursor' = 0

(* app_param_store, up to the erasure: read, look for the slot, put the      *)
(* record in the image.                                                    *)
StoreBegin(key, value) ==
    /\ store_pc = "idle"
    /\ request' = [key |-> key, value |-> value]
    /\ IF HasTarget(sector, key)
       THEN /\ s_target' = TargetOf(sector, key)
            /\ s_slots' = [sector EXCEPT ![TargetOf(sector, key)] = request']
            /\ store_pc' = "erase" /\ cursor' = 1 /\ store_rc' = "none"
       ELSE Finish("fail")
    /\ UNCHANGED <<sector, cog_sector, tables, mishaps>>

(* app_param_erase: the same without the key.                              *)
EraseBegin(key) ==
    /\ store_pc = "idle" /\ request' = Invalid
    /\ IF Holding(sector, key) # {}
       THEN /\ s_target' = First(Holding(sector, key))
            /\ s_slots' = [sector EXCEPT ![First(Holding(sector, key))] = Invalid]
            /\ store_pc' = "erase" /\ cursor' = 1 /\ store_rc' = "none"
       ELSE Finish("ok")
    /\ UNCHANGED <<sector, cog_sector, tables, mishaps>>

StoreErase ==
    /\ store_pc = "erase"
    /\ sector' = NoImage /\ store_pc' = "program"
    /\ UNCHANGED <<cog_sector, s_slots, s_target, cursor, request, store_rc, tables, mishaps>>

Mishap == mishaps < MaxMishaps /\ mishaps' = mishaps + 1

(* What an erasure leaves that did not complete.                            *)
PartlyErased == {[i \in SlotIds |-> IF i \in gone THEN Invalid ELSE sector[i]]
                 : gone \in SUBSET SlotIds}

StoreEraseFails ==
    /\ store_pc = "erase" /\ Mishap
    /\ sector' \in PartlyErased /\ Finish("fail")
    /\ UNCHANGED <<cog_sector, request, tables>>

(* A vacant slot of the image is left erased.                               *)
StoreProgram ==
    /\ store_pc = "program" /\ cursor <= SlotCount
    /\ sector' = [sector EXCEPT ![cursor] = s_slots[cursor]]
    /\ cursor' = cursor + 1
    /\ UNCHANGED <<cog_sector, s_slots, store_pc, s_target, request, store_rc, tables, mishaps>>

StoreProgramFails ==
    /\ store_pc = "program" /\ cursor <= SlotCount /\ Valid(s_slots[cursor]) /\ Mishap
    /\ Finish("fail")
    /\ UNCHANGED <<sector, cog_sector, request, tables>>

(* The flash reports success and holds something else.                      *)
StoreProgramSilently ==
    /\ store_pc = "program" /\ cursor <= SlotCount /\ Valid(s_slots[cursor]) /\ Mishap
    /\ cursor' = cursor + 1
    /\ UNCHANGED <<sector, cog_sector, s_slots, store_pc, s_target, request, store_rc, tables>>

(* The slot is read back and compared.                                     *)
ReadsBackTrusted == TRUE
ReadsBack == sector[s_target] = s_slots[s_target]

StoreVerify ==
    /\ store_pc = "program" /\ cursor > SlotCount
    /\ Finish(IF ReadsBack THEN "ok" ELSE "fail")
    /\ UNCHANGED <<sector, cog_sector, request, tables, mishaps>>

(***************************************************************************)
(* The cogging tables.                                                     *)
(***************************************************************************)
(* Tables come from an identification, which leaves them in memory.         *)
TablesIdentified(value) ==
    /\ store_pc = "idle" /\ tables' = value
    /\ UNCHANGED <<sector, cog_sector, s_slots, store_pc, s_target, cursor, request, store_rc,
                   mishaps>>

(* app_cogging_store_save, entered with FOC off; the erasure comes first.   *)
CogSaveBegin ==
    /\ store_pc = "idle" /\ tables # NoValue
    /\ request' = [key |-> Cogging, value |-> tables]
    /\ store_pc' = "cog_erase" /\ cursor' = 1 /\ store_rc' = "none"
    /\ UNCHANGED <<sector, cog_sector, s_slots, s_target, tables, mishaps>>

CogErase ==
    /\ store_pc = "cog_erase"
    /\ cog_sector' = Invalid /\ store_pc' = "cog_program"
    /\ UNCHANGED <<sector, s_slots, s_target, cursor, request, store_rc, tables, mishaps>>

CogEraseFails ==
    /\ store_pc = "cog_erase" /\ Mishap
    /\ cog_sector' \in {cog_sector, Invalid} /\ Finish("fail")
    /\ UNCHANGED <<sector, request, tables>>

(* The record is whole with its second page.                               *)
CogProgram ==
    /\ store_pc = "cog_program"
    /\ IF cursor = 1 THEN cursor' = 2 /\ UNCHANGED <<cog_sector, store_pc>>
       ELSE cog_sector' = request /\ store_pc' = "cog_verify" /\ UNCHANGED cursor
    /\ UNCHANGED <<sector, s_slots, s_target, request, store_rc, tables, mishaps>>

CogProgramFails ==
    /\ store_pc = "cog_program" /\ Mishap /\ Finish("fail")
    /\ UNCHANGED <<sector, cog_sector, request, tables>>

CogProgramSilently ==
    /\ store_pc = "cog_program" /\ Mishap /\ store_pc' = "cog_verify"
    /\ UNCHANGED <<sector, cog_sector, s_slots, s_target, cursor, request, store_rc, tables>>

(* The record is read back into the buffer it was written from: its magic   *)
(* and checksum are all there is to compare.                               *)
CogVerify ==
    /\ store_pc = "cog_verify" /\ Finish(IF Valid(cog_sector) THEN "ok" ELSE "fail")
    /\ UNCHANGED <<sector, cog_sector, request, tables, mishaps>>

(* app_cogging_store_clear: the tables in memory go with the record.        *)
CogClear ==
    /\ store_pc = "idle" /\ request' = Invalid /\ Finish("ok")
    /\ cog_sector' = Invalid /\ tables' = NoValue
    /\ UNCHANGED <<sector, mishaps>>

CogClearFails ==
    /\ store_pc = "idle" /\ Mishap /\ request' = Invalid /\ Finish("fail")
    /\ cog_sector' \in {cog_sector, Invalid}
    /\ UNCHANGED <<sector, tables>>

(***************************************************************************)
(* Power.                                                                  *)
(***************************************************************************)
(* The power goes, also in the middle of an erasure; the start loads the     *)
(* tables again (app_cogging_store_load).                                   *)
StorePowerCut ==
    /\ Mishap /\ Finish("none") /\ request' = Invalid
    /\ sector' \in IF store_pc = "erase" THEN PartlyErased ELSE {sector}
    /\ cog_sector' \in IF store_pc = "cog_erase" THEN {cog_sector, Invalid} ELSE {cog_sector}
    /\ tables' = cog_sector'.value

StoreNext ==
    \/ \E key \in ParamKeys, value \in ParamValues : StoreBegin(key, value)
    \/ \E key \in ParamKeys : EraseBegin(key)
    \/ StoreErase \/ StoreEraseFails
    \/ StoreProgram \/ StoreProgramFails \/ StoreProgramSilently \/ StoreVerify
    \/ \E value \in ParamValues : TablesIdentified(value)
    \/ CogSaveBegin \/ CogErase \/ CogEraseFails
    \/ CogProgram \/ CogProgramFails \/ CogProgramSilently \/ CogVerify
    \/ CogClear \/ CogClearFails
    \/ StorePowerCut

StoreSpec == StoreInit /\ [][StoreNext]_storeVars

(***************************************************************************)
(* Properties.                                                             *)
(***************************************************************************)
(* What each key holds: while the sector is written back, the slots that     *)
(* are not yet programmed count with what the image holds for them.         *)
Written == [i \in SlotIds |->
    IF store_pc = "program" /\ i >= cursor THEN s_slots[i] ELSE sector[i]]

Stored == [key \in AllKeys |->
    IF key # Cogging THEN Loaded(Written, key)
    ELSE IF store_pc = "cog_program" THEN request.value ELSE cog_sector.value]

(* The put a call that returned 0 acknowledges.                             *)
Told == IF store_rc = "ok" THEN request ELSE Invalid

(* The sectors implement a store of keys: a store or an erasure changes its  *)
(* own key and no other, a store that returned 0 is in the flash, also when  *)
(* a programming operation reported a success it did not have, and what a    *)
(* failure or a power cut costs is the keys not yet written back, never a    *)
(* mixed or an old value.                                                  *)
Persistent == INSTANCE KeyValue
    WITH Key <- AllKeys, Value <- ParamValues, Nothing <- NoValue,
         kv <- Stored, told <- Told
KeysKept == Persistent!Spec
===============================================================================
