------------------------------ MODULE BondTable ------------------------------
(* The bonded-slave table of the KMA dongle, blm_pair.c: a RAM table and the  *)
(* log of 8-byte records that backs it in one flash sector.  Records are only *)
(* ever appended or marked as deleted while the dongle works; the sector is   *)
(* compacted at power-on.  Power may be lost between any two flash commands.  *)
(*                                                                            *)
(* Flash addresses count 8-byte areas: area s is FLASH_ADR_PARING + 8*s, and  *)
(* cfgIdx is user_bond_slave_flash_cfg_idx / 8 (so -1 stands for -8).         *)
EXTENDS Integers, Sequences, FiniteSets

CONSTANTS
    Device,         \* slave identities: address type and address together
    NoDevice,       \* the contents of an area that holds no slave's address
    MaxNum,         \* USER_PAIR_SLAVE_MAX_NUM
    CleanSlot,      \* 2048/8: from this area on the sector is cleaned at boot
    SectorSlots,    \* 4096/8: areas in the sector
    MaxAdds         \* bound: pairings in one power cycle

ASSUME BondAssumption ==
    /\ NoDevice \notin Device
    /\ MaxNum \in Nat \ {0} /\ CleanSlot \in Nat /\ SectorSlots \in Nat
    /\ MaxAdds \in Nat
    /\ MaxNum <= CleanSlot /\ CleanSlot <= SectorSlots

VARIABLES
    flash,      \* the areas, of the sector and of what follows it
    tbl,        \* user_tbl_slaveMac: bond_device with bond_flash_idx, 1..curNum
    cfgIdx,     \* user_bond_slave_flash_cfg_idx: the newest area in use
    pc,         \* the flash operation in progress; "ready" when there is none
    n,          \* its loop counter
    arg,        \* the slave whose record user_tbl_slave_mac_add is to write
    adds        \* pairings since power-on (for the bound MaxAdds)

vars == <<flash, tbl, cfgIdx, pc, n, arg, adds>>

Slots == 0 .. SectorSlots + MaxAdds
Marks == {"bond", "erased", "free"}      \* 0x5A, 0x00, 0xff
Area == [mark : Marks, dev : Device \cup {NoDevice}]
Entry == [dev : Device \cup {NoDevice}, slot : Slots]

Blank == [mark |-> "free", dev |-> NoDevice]

(* flash_write_page of a whole record.  NOR flash only clears bits: over an   *)
(* area that is already written the mark is ANDed and the address is lost.    *)
WriteRecord(s, d) ==
    [flash EXCEPT ![s] =
        IF @.mark = "free" THEN [mark |-> "bond", dev |-> d]
                           ELSE [mark |-> @.mark, dev |-> NoDevice]]

(* Faulty variant: deleting blanks the area instead of marking it. *)
WriteErasedBlank(s) == [flash EXCEPT ![s] = Blank]

(* Faulty variant: the deletion never reaches the flash. *)
WriteErasedLost(s) == flash

(* flash_write_page of the one byte ADR_ERASE_MARK. *)
WriteErased(s) == [flash EXCEPT ![s].mark = "erased"]

Without(i) == [j \in 1 .. Len(tbl) - 1 |-> IF j < i THEN tbl[j] ELSE tbl[j + 1]]

(* user_tbl_slave_mac_search: where the slave is found.                       *)
Matches(d) == {i \in 1 .. Len(tbl) : tbl[i].dev = d}

Init ==
    /\ flash = [s \in Slots |-> Blank]
    /\ tbl = <<>> /\ cfgIdx = 0 /\ pc = "scan" /\ n = 0
    /\ arg = NoDevice /\ adds = 0

-----------------------------------------------------------------------------
(* user_master_host_pairing_flash_init: the traversal of the sector ...       *)
ScanDone == cfgIdx >= SectorSlots \/ flash[cfgIdx].mark = "free"

(* Faulty variant: only valid areas advance the traversal. *)
ScanAreaStuck ==
    /\ pc = "scan" /\ ~ScanDone
    /\ flash[cfgIdx].mark = "bond" /\ Len(tbl) < MaxNum
    /\ tbl' = Append(tbl, [dev |-> flash[cfgIdx].dev, slot |-> cfgIdx])
    /\ cfgIdx' = cfgIdx + 1
    /\ UNCHANGED <<flash, pc, n, arg, adds>>

ScanArea ==
    /\ pc = "scan" /\ ~ScanDone
    /\ IF flash[cfgIdx].mark = "bond"
         THEN IF Len(tbl) < MaxNum
                THEN /\ tbl' = Append(tbl, [dev |-> flash[cfgIdx].dev, slot |-> cfgIdx])
                     /\ cfgIdx' = cfgIdx + 1 /\ pc' = pc
                ELSE pc' = "halt" /\ UNCHANGED <<tbl, cfgIdx>>    \* while(1);
         ELSE cfgIdx' = cfgIdx + 1 /\ UNCHANGED <<tbl, pc>>
    /\ UNCHANGED <<flash, n, arg, adds>>

(* Faulty variant: the sector is never cleaned. *)
ScanEndNoClean ==
    /\ pc = "scan" /\ ScanDone
    /\ cfgIdx' = cfgIdx - 1 /\ pc' = "ready"
    /\ UNCHANGED <<flash, tbl, n, arg, adds>>

(* ... its end, and the test at the head of user_bond_slave_flash_clean.      *)
ScanEnd ==
    /\ pc = "scan" /\ ScanDone
    /\ cfgIdx' = cfgIdx - 1
    /\ pc' = IF cfgIdx - 1 < CleanSlot THEN "ready" ELSE "erase"
    /\ UNCHANGED <<flash, tbl, n, arg, adds>>

(* Faulty variant: the table is not written back after the erase. *)
CleanEraseOnly ==
    /\ pc = "erase"
    /\ flash' = [s \in Slots |-> IF s < SectorSlots THEN Blank ELSE flash[s]]
    /\ cfgIdx' = -1 /\ n' = 0 /\ pc' = "ready"
    /\ UNCHANGED <<tbl, arg, adds>>

(* user_bond_slave_flash_clean: erase the sector, then rewrite the table.     *)
CleanErase ==
    /\ pc = "erase"
    /\ flash' = [s \in Slots |-> IF s < SectorSlots THEN Blank ELSE flash[s]]
    /\ cfgIdx' = -1 /\ n' = 0 /\ pc' = "rewrite"
    /\ UNCHANGED <<tbl, arg, adds>>

(* Faulty variant: bond_flash_idx keeps pointing at the old areas. *)
CleanRewriteStaleIdx ==
    /\ pc = "rewrite" /\ n < Len(tbl)
    /\ cfgIdx' = cfgIdx + 1
    /\ flash' = WriteRecord(cfgIdx + 1, tbl[n + 1].dev)
    /\ n' = n + 1
    /\ UNCHANGED <<tbl, pc, arg, adds>>

CleanRewrite ==
    /\ pc = "rewrite" /\ n < Len(tbl)
    /\ cfgIdx' = cfgIdx + 1
    /\ flash' = WriteRecord(cfgIdx + 1, tbl[n + 1].dev)
    /\ tbl' = [tbl EXCEPT ![n + 1].slot = cfgIdx + 1]
    /\ n' = n + 1
    /\ UNCHANGED <<pc, arg, adds>>

CleanEnd ==
    /\ pc = "rewrite" /\ n >= Len(tbl)
    /\ pc' = "ready" /\ n' = 0
    /\ UNCHANGED <<flash, tbl, cfgIdx, arg, adds>>

-----------------------------------------------------------------------------
(* The write of user_tbl_slave_mac_add: inc flash idx, write, record.         *)
StoreRecord(d) ==
    /\ cfgIdx' = cfgIdx + 1
    /\ flash' = WriteRecord(cfgIdx + 1, d)
    /\ tbl' = Append(tbl, [dev |-> d, slot |-> cfgIdx + 1])
    /\ pc' = "ready" /\ arg' = NoDevice
    /\ UNCHANGED <<n, adds>>

(* user_tbl_slave_mac_delete_by_index and the body of _delete_by_adr.         *)
DeleteIndex(i) ==
    /\ flash' = WriteErased(tbl[i].slot)
    /\ tbl' = Without(i)

(* Faulty variant: a full table is not emptied first. *)
AddOverfull(d) ==
    /\ pc = "ready" /\ Matches(d) = {} /\ adds < MaxAdds
    /\ adds' = adds + 1 /\ arg' = d /\ pc' = "store"
    /\ UNCHANGED <<flash, tbl, cfgIdx, n>>

(* Faulty variant: the caller adds a slave that is bonded already. *)
AddAgain(d) ==
    /\ pc = "ready" /\ Len(tbl) < MaxNum /\ adds < MaxAdds
    /\ adds' = adds + 1 /\ arg' = d /\ pc' = "store"
    /\ UNCHANGED <<flash, tbl, cfgIdx, n>>

(* user_tbl_slave_mac_add, called by the connection handler for a slave that  *)
(* is not bonded: when the table is full, delete the oldest ...               *)
Add(d) ==
    /\ pc = "ready" /\ Matches(d) = {} /\ adds < MaxAdds
    /\ adds' = adds + 1 /\ arg' = d
    /\ IF Len(tbl) >= MaxNum
         THEN DeleteIndex(1)
         ELSE UNCHANGED <<flash, tbl>>
    /\ pc' = "store"
    /\ UNCHANGED <<cfgIdx, n>>

(* ... and then write the new record.                                         *)
AddStore == pc = "store" /\ StoreRecord(arg)

(* user_tbl_slave_mac_delete_by_adr: the first match. *)
DeleteByAdr(d) ==
    /\ pc = "ready"
    /\ \E i \in Matches(d) : (\A j \in Matches(d) : i <= j) /\ DeleteIndex(i)
    /\ UNCHANGED <<cfgIdx, pc, n, arg, adds>>

(* user_tbl_slave_mac_delete_all, from user_tbl_salve_mac_unpair_proc: one    *)
(* flash write per entry; the table is emptied after the last of them.        *)
DeleteAll ==
    /\ pc = "ready" /\ tbl # <<>>
    /\ pc' = "wipe" /\ n' = 0
    /\ UNCHANGED <<flash, tbl, cfgIdx, arg, adds>>

DeleteAllMark ==
    /\ pc = "wipe" /\ n < Len(tbl)
    /\ flash' = WriteErased(tbl[n + 1].slot)
    /\ tbl' = [tbl EXCEPT ![n + 1].dev = NoDevice]            \* memset
    /\ n' = n + 1
    /\ UNCHANGED <<cfgIdx, pc, arg, adds>>

DeleteAllEnd ==
    /\ pc = "wipe" /\ n >= Len(tbl)
    /\ tbl' = <<>> /\ n' = 0 /\ pc' = "ready"
    /\ UNCHANGED <<flash, cfgIdx, arg, adds>>

(* Power is lost and comes back: RAM is cleared and flash_init starts again.  *)
(* The debug trap keeps the dongle dead, but a power cycle restarts it too.   *)
PowerLoss ==
    /\ tbl' = <<>> /\ cfgIdx' = 0 /\ pc' = "scan" /\ n' = 0
    /\ arg' = NoDevice /\ adds' = 0
    /\ UNCHANGED flash

Boot == ScanArea \/ ScanEnd \/ CleanErase \/ CleanRewrite \/ CleanEnd
Finish == AddStore \/ DeleteAllMark \/ DeleteAllEnd

Next ==
    \/ Boot \/ Finish \/ DeleteAll \/ PowerLoss
    \/ \E d \in Device : Add(d) \/ DeleteByAdr(d)

(* The operation in progress is straight-line code: it goes on until it ends  *)
(* or power is lost.                                                          *)
Spec == Init /\ [][Next]_vars /\ WF_vars(Boot) /\ WF_vars(Finish)
-----------------------------------------------------------------------------
BondAreas == {s \in 0 .. SectorSlots - 1 : flash[s].mark = "bond"}

TypeOK ==
    /\ flash \in [Slots -> Area]
    /\ tbl \in Seq(Entry) /\ Len(tbl) <= MaxNum
    /\ cfgIdx \in -1 .. SectorSlots + MaxAdds
    /\ pc \in {"scan", "erase", "rewrite", "ready", "store", "wipe", "halt"}
    /\ n \in 0 .. MaxNum /\ adds \in 0 .. MaxAdds
    /\ arg \in Device \cup {NoDevice}
    /\ pc = "store" => arg \in Device

(* Power-on never meets more valid records than the RAM table holds, wherever *)
(* the last power loss struck: the trap `while(1)` of the traversal in        *)
(* user_master_host_pairing_flash_init ("we think it's code bug") is dead.    *)
BootAccepts == pc # "halt"

(* Between operations the RAM table is exactly what the next power-on would   *)
(* load: each entry owns one valid area holding its address, areas ascend,    *)
(* no valid area is without an entry, and all areas after cfgIdx are free.    *)
Durable ==
    pc = "ready" =>
        /\ \A i, j \in 1 .. Len(tbl) : i < j => tbl[i].slot < tbl[j].slot
        /\ BondAreas = {tbl[i].slot : i \in 1 .. Len(tbl)}
        /\ \A i \in 1 .. Len(tbl) : flash[tbl[i].slot].dev = tbl[i].dev
        /\ \A s \in Slots : flash[s].mark = "free" <=> s > cfgIdx

(* No slave has two valid records in flash, whatever was interrupted: the     *)
(* delete by address removes the only one there is.                           *)
OneRecordEach ==
    \A s, t \in BondAreas : flash[s].dev = flash[t].dev => s = t

(* The pairings that one power cycle has room for: the areas of the sector     *)
(* that the clean at power-on leaves free in the worst case.                  *)
PairingBudget == MaxAdds <= SectorSlots - CleanSlot

(* Records stay inside the 4096-byte sector that flash_init scans and         *)
(* flash_clean erases ("rest available sector is big enough, no need clean"). *)
InSector == cfgIdx < SectorSlots \/ pc = "scan"

(* "never erase flash when dongle is working": after power-on a flash command *)
(* turns one free area into a valid record or one valid record into a deleted *)
(* one, and touches nothing else.                                             *)
LogDiscipline ==
    [][(pc \notin {"erase", "rewrite"} /\ flash' # flash) =>
        \E s \in Slots :
            /\ \A t \in Slots \ {s} : flash'[t] = flash[t]
            /\ <<flash[s].mark, flash'[s].mark>>
                  \in {<<"free", "bond">>, <<"bond", "erased">>}]_vars

(* A power-on that is not cut short reaches the working state again: the      *)
(* traversal, the erase and the rewriting of the table come to an end.        *)
BootCompletes == <>[][~PowerLoss]_vars => []<>(pc = "ready")

-----------------------------------------------------------------------------
(* The list a power-on would load, from the valid areas of the sector; while  *)
(* the sector is rewritten the list lives in RAM only.                        *)
Nth(areas, i) == CHOOSE s \in areas : Cardinality({t \in areas : t <= s}) = i

Bonds ==
    IF pc = "rewrite"
      THEN [i \in 1 .. Len(tbl) |-> tbl[i].dev]
      ELSE [i \in 1 .. Cardinality(BondAreas) |-> flash[Nth(BondAreas, i)].dev]

Store == INSTANCE BondStore WITH bonds <- Bonds, compacting <- pc = "rewrite"

(* blm_pair.c implements the bond list: every flash command is one change of  *)
(* the list or none, and only a power loss during the compaction at boot      *)
(* loses slaves nobody asked to forget, the newest first.                     *)
ImplementsBondStore == Store!Spec
=============================================================================
