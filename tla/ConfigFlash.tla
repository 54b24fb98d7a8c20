---------------------------- MODULE ConfigFlash -----------------------------
(***************************************************************************)
(* The modem's configuration in flash (source/config_flash.cpp): Banks      *)
(* places for a record, used in turn; a record has the next index, and the  *)
(* highest one is read at start.  Flash is erased one sector at a time, when *)
(* its first bank is to be written.  Power may fail at any moment.          *)
(***************************************************************************)
EXTENDS Integers, FiniteSetsExt

CONSTANTS Banks,         \* FLASH_BANKS: 16
          SectorBanks,   \* records in a sector of 2048 bytes: 8
          FirstIndex,    \* 0x100
          MaxIndex,      \* bound of the model on indices
          Configs,       \* configurations the operator may save
          Default,       \* NFPR_default_config
          NoConfig       \* contents of a blank record

ASSUME ConfigFlashAssumption ==
  /\ SectorBanks \in Nat \ {0} /\ Banks \in Nat
  /\ Banks % SectorBanks = 0 /\ Banks > SectorBanks
  /\ FirstIndex \in Nat \ {0} /\ FirstIndex % Banks = 0
  /\ MaxIndex \in Nat /\ MaxIndex > FirstIndex
  /\ Default \notin Configs /\ NoConfig \notin Configs \cup {Default, "torn"}
  /\ "torn" \notin Configs \cup {Default}

VARIABLES
  flash,          \* the record in each bank
  raw_config,     \* raw_config_data, in RAM
  config_index,   \* the index in RAM; 0 if no record was found
  pc,             \* what the processor is at: "off", "idle", or the next flash step
  sector,         \* the sector a reset to default is to erase next
  last,           \* history: the record last saved, or read at start
  under,          \* history: the index of a save not finished, or 0
  resetting       \* history: a reset was begun and the modem not started since

vars == <<flash, raw_config, config_index, pc, sector, last, under, resetting>>

BankNumbers == 0..Banks - 1
Sectors == 0..Banks \div SectorBanks - 1
SectorOf(b) == b \div SectorBanks

\* The magic number and the index come first and are programmed at once: a
\* record cut short has them, but "torn" contents.  Index 0 is no magic number.
Record(i, c) == [index |-> i, config |-> c]
Blank == Record(0, NoConfig)
Garbage == Record(0, "torn")

\* virt_EEPROM_read: the record with the highest index.
\* Mutant: the first record found.
Mut_Highest ==
  LET found == {b \in BankNumbers : flash[b].index # 0} IN
  IF found = {} THEN 0 ELSE flash[Min(found)].index
Highest == Max({flash[b].index : b \in BankNumbers})
Readable == IF Highest = 0 THEN Blank ELSE flash[Highest % Banks]

new_index == IF config_index = 0 THEN FirstIndex ELSE config_index + 1
Bank == new_index % Banks
\* Mutant: off by one.
Mut_NewSector == new_index % SectorBanks = 1
NewSector == new_index % SectorBanks = 0

Erased(s) == [b \in BankNumbers |-> IF SectorOf(b) = s THEN Blank ELSE flash[b]]

\* NFPR_config_read; without a record it saves the default, in the first place.
NFPR_config_read ==
  /\ pc = "off"
  /\ config_index' = Highest
  /\ last' = Readable /\ resetting' = FALSE
  /\ IF Highest = 0
     THEN raw_config' = Default /\ pc' = "erase" /\ under' = FirstIndex
     ELSE raw_config' = Readable.config /\ pc' = "idle" /\ under' = 0
  /\ UNCHANGED <<flash, sector>>

\* NFPR_config_save, called by the command "save".
NFPR_config_save(c) ==
  /\ pc = "idle" /\ new_index <= MaxIndex
  /\ raw_config' = c
  /\ under' = new_index
  /\ pc' = IF NewSector THEN "erase" ELSE "header"
  /\ UNCHANGED <<flash, config_index, sector, last, resetting>>

\* virt_EEPROM_write, in the steps that a power failure may separate.
\* Mutant: the sector of the record before.
Mut_EraseSector ==
  /\ pc = "erase"
  /\ flash' = Erased(SectorOf(config_index % Banks))
  /\ pc' = "header"
  /\ UNCHANGED <<raw_config, config_index, sector, last, under, resetting>>

EraseSector ==
  /\ pc = "erase"
  /\ flash' = Erased(SectorOf(Bank))
  /\ pc' = "header"
  /\ UNCHANGED <<raw_config, config_index, sector, last, under, resetting>>

\* Only blank flash can be programmed; the result is not looked at.
ProgramHeader ==
  /\ pc = "header"
  /\ flash' = IF flash[Bank] = Blank
              THEN [flash EXCEPT ![Bank] = Record(new_index, "torn")] ELSE flash
  /\ pc' = "body"
  /\ UNCHANGED <<raw_config, config_index, sector, last, under, resetting>>

ProgramBody ==
  /\ pc = "body"
  /\ flash' = IF flash[Bank] = Record(new_index, "torn")
              THEN [flash EXCEPT ![Bank] = Record(new_index, raw_config)] ELSE flash
  /\ config_index' = new_index
  /\ last' = Record(new_index, raw_config) /\ under' = 0
  /\ pc' = "idle"
  /\ UNCHANGED <<raw_config, sector, resetting>>

\* The command "reset_to_default": all is erased and the modem restarts.
HMI_cmd_reset_to_default ==
  /\ pc = "idle"
  /\ pc' = "reset" /\ sector' = 0 /\ resetting' = TRUE
  /\ UNCHANGED <<flash, raw_config, config_index, last, under>>

\* Mutant: one sector too many.
Mut_EraseNext ==
  /\ pc = "reset"
  /\ flash' = Erased(sector)
  /\ IF sector <= Max(Sectors)
     THEN sector' = sector + 1 /\ UNCHANGED <<raw_config, config_index, pc>>
     ELSE sector' = 0 /\ pc' = "off" /\ raw_config' = Default /\ config_index' = 0
  /\ UNCHANGED <<last, under, resetting>>

EraseNext ==
  /\ pc = "reset"
  /\ flash' = Erased(sector)
  /\ IF sector < Max(Sectors)
     THEN sector' = sector + 1 /\ UNCHANGED <<raw_config, config_index, pc>>
     ELSE sector' = 0 /\ pc' = "off" /\ raw_config' = Default /\ config_index' = 0
  /\ UNCHANGED <<last, under, resetting>>

\* What a failure leaves of a sector that is being erased: any of its records.
PartlyErased(s) ==
  {[b \in BankNumbers |-> IF b \in gone THEN Blank ELSE flash[b]] :
     gone \in SUBSET {b \in BankNumbers : SectorOf(b) = s}}

PowerFail ==
  /\ pc # "off"
  /\ flash' \in CASE pc = "erase" -> PartlyErased(SectorOf(Bank))
                  [] pc = "reset" -> PartlyErased(sector)
                  [] OTHER        -> {flash}
  /\ pc' = "off" /\ raw_config' = Default /\ config_index' = 0 /\ sector' = 0
  /\ UNCHANGED <<last, under, resetting>>

\* The flash of a new modem holds no record, but may not be blank.
Init ==
  /\ flash \in [BankNumbers -> {Blank, Garbage}]
  /\ raw_config = Default /\ config_index = 0
  /\ pc = "off" /\ sector = 0
  /\ last = Blank /\ under = 0 /\ resetting = FALSE

Next ==
  \/ NFPR_config_read
  \/ \E c \in Configs : NFPR_config_save(c)
  \/ EraseSector \/ ProgramHeader \/ ProgramBody
  \/ HMI_cmd_reset_to_default \/ EraseNext
  \/ PowerFail

Spec == Init /\ [][Next]_vars

-----------------------------------------------------------------------------
(* Properties.                                                              *)

Contents == Configs \cup {Default, NoConfig, "torn"}
Records == [index : 0..MaxIndex, config : Contents]

\* Types of the flash and of what is in RAM.
FlashTypeOK ==
  /\ flash \in [BankNumbers -> Records]
  /\ raw_config \in Contents
  /\ config_index \in 0..MaxIndex
  /\ pc \in {"off", "idle", "erase", "header", "body", "reset"}
  /\ sector \in Sectors
  /\ last \in Records /\ under \in 0..MaxIndex /\ resetting \in BOOLEAN

\* virt_EEPROM_write never programs a bank that is not blank, which would fail
\* unnoticed, however saves, resets and power failures follow each other.
BlankBeforeProgram == pc = "header" => flash[Bank] = Blank

\* Whenever power fails, the modem will start with the configuration saved last
\* or with the record it was writing; it never falls back on an older one or on
\* none, unless a reset was under way.
LatestKept ==
  resetting \/ Readable = last \/ (under # 0 /\ Readable.index = under)

\* The configurations in flash, and the one on its way there.
Present == {flash[b].config : b \in {x \in BankNumbers : flash[x].index # 0}}
Pending == IF pc \in {"erase", "header", "body"} THEN raw_config ELSE NoConfig

Store == INSTANCE ConfigStore WITH
  Configs <- Configs, Default <- Default, NoConfig <- NoConfig,
  kept <- Readable.config, present <- Present, pending <- Pending,
  losing <- resetting, up <- pc # "off"

\* Sectors, banks and indices give the operator a configuration that a save
\* replaces at once: only power failures can make a save fail, which leaves the
\* one before or the one it was writing, and only a reset, also one cut short,
\* goes back to a configuration that was saved before it, or to none.
StoreImplemented == Store!Spec
=============================================================================
