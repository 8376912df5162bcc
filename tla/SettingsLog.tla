----------------------------- MODULE SettingsLog -----------------------------
(***************************************************************************)
(* The settings kept in the internal flash of the MDx radios and of the    *)
(* Module17 (platform/drivers/NVM/nvmem_settings_MDx.c, nvmem_Mod17.c): an *)
(* array of data blocks, and one flag bit per block which is cleared when  *)
(* the block is written.  The active block is the one before the first bit *)
(* still set.                                                              *)
(*                                                                         *)
(* A block is its value, or Garbage when its CRC does not match; two       *)
(* different values have different CRCs.  Flash can only clear bits:       *)
(* programming a block twice leaves garbage.  Every flash operation is a   *)
(* step; a flag is one bit of one byte, so it is cleared or not.           *)
(***************************************************************************)
EXTENDS Integers, FiniteSetsExt

CONSTANTS
  NBlocks,    \* size of memory_t.data and number of flag bits
  Capacity,   \* blocks that fit in the flash sector
  Limit,      \* the last block number nvm_writeSettings does not erase at
  WordBits,   \* bits of a word of flags
  Values, Default, Erased, Garbage,
  FirstWord,  \* value -> the bits set in the first word of its block
  MaxSaves,   \* bound on the saves, for model checking
  Cuts        \* places at which the power may be cut

ASSUME SizesAssumption ==
  /\ {NBlocks, Capacity, Limit, WordBits, MaxSaves} \subseteq Nat \ {0}
  /\ NBlocks + WordBits < 65536 /\ Capacity < 65536
ASSUME DefaultAssumption == {Default, Erased, Garbage} \cap Values = {}
ASSUME FirstWordAssumption == FirstWord \in [Values -> SUBSET (0 .. WordBits - 1)]

VARIABLES
  magic,   \* memory->magic is MEM_MAGIC
  used,    \* number of flag bits cleared
  data,    \* the blocks of the sector
  word0,   \* bits set in the word after the flags, the first one of data[0]
  pc,      \* the flash operation to do next, "off", "idle" or "fault"
  target,  \* block being written
  value,   \* settings being saved
  saved,   \* those of the last save that completed, or Default
  saves    \* number of saves so far

vars == <<magic, used, data, word0, pc, target, value, saved, saves>>
flash == <<magic, used, data, word0>>

Sector == 0 .. Capacity - 1
Word == 0 .. WordBits - 1

-----------------------------------------------------------------------------
(* findActiveBlock: the number of the block before the first bit set,      *)
(* computed in 16 bits; past the last flag the search goes on in data[0].  *)
(* The mutant is one block off.                                            *)
FirstSet ==
  IF used < NBlocks THEN used
  ELSE NBlocks + (IF word0 = {} THEN WordBits ELSE Min(word0))

Last_Unflagged == (FirstSet - 2) % 65536
Last == (FirstSet - 1) % 65536

(* Reading that block to check its CRC leaves the sector. *)
Astray == magic /\ Last \notin Sector

(* The result, -1 standing for its negative codes. *)
findActiveBlock ==
  IF magic /\ Last \in Sector /\ data[Last] \in Values THEN Last ELSE -1

(* Mutant of the next definition: without the check of the CRC. *)
Reads_NoCrc == IF magic /\ Last \in Sector THEN data[Last] ELSE Default

(* What nvm_readSettings gives, state_init falling back to the defaults. *)
Reads == IF findActiveBlock >= 0 THEN data[findActiveBlock] ELSE Default

-----------------------------------------------------------------------------
Blank ==
  /\ magic' = FALSE
  /\ used' = 0
  /\ data' = [b \in Sector |-> Erased]
  /\ word0' = Word

Init ==
  /\ magic = FALSE /\ used = 0
  /\ data = [b \in Sector |-> Erased]
  /\ word0 = Word
  /\ pc = "off"
  /\ target = 0 /\ value = Default /\ saved = Default
  /\ saves = 0

Boot ==
  /\ pc = "off"
  /\ pc' = IF Astray THEN "fault" ELSE "idle"
  /\ UNCHANGED <<flash, target, value, saved, saves>>

(* Mutants of the next definition: the active block is written again, and  *)
(* the one before.                                                         *)
NextBlock_Same == findActiveBlock
NextBlock_Minus == findActiveBlock - 1
NextBlock == findActiveBlock + 1

(* nvm_writeSettings, nvm_writeSettingsAndVfo, up to the first operation. *)
Save(v) ==
  /\ pc = "idle"
  /\ saves < MaxSaves
  /\ saves' = saves + 1
  /\ value' = v
  /\ \/ /\ Astray
        /\ pc' = "fault"
        /\ UNCHANGED <<target, saved>>
     \/ /\ ~Astray
        /\ findActiveBlock \notin 0 .. Limit - 1
        /\ pc' = "erase"
        /\ target' = 0
        /\ UNCHANGED saved
     \/ /\ findActiveBlock \in 0 .. Limit - 1
        /\ IF v = Reads
           THEN saved' = v /\ UNCHANGED <<pc, target>>
           ELSE pc' = "data" /\ target' = NextBlock /\ UNCHANGED saved
  /\ UNCHANGED flash

EraseSector ==
  /\ pc = "erase"
  /\ Blank
  /\ pc' = "magic"
  /\ UNCHANGED <<target, value, saved, saves>>

WriteMagic ==
  /\ pc = "magic"
  /\ magic' = TRUE
  /\ pc' = "data"
  /\ UNCHANGED <<used, data, word0, target, value, saved, saves>>

Programmed(content) == IF data[target] \in {Erased, content} THEN content ELSE Garbage

WriteData ==
  /\ pc = "data"
  /\ IF target \in Sector
     THEN /\ data' = [data EXCEPT ![target] = Programmed(value)]
          /\ word0' = IF target = 0 THEN word0 \cap FirstWord[value] ELSE word0
          /\ pc' = "flag"
     ELSE /\ pc' = "fault"
          /\ UNCHANGED <<data, word0>>
  /\ UNCHANGED <<magic, used, target, value, saved, saves>>

(* Past the last flag the bit cleared is one of data[0]. *)
ClearFlag ==
  /\ pc = "flag"
  /\ IF target < NBlocks
     THEN used' = target + 1 /\ UNCHANGED <<data, word0>>
     ELSE /\ word0' = word0 \ {target - NBlocks}
          /\ data' = IF target - NBlocks \in word0
                     THEN [data EXCEPT ![0] = Garbage] ELSE data
          /\ UNCHANGED used
  /\ pc' = "idle"
  /\ saved' = value
  /\ UNCHANGED <<magic, target, value, saves>>

(* The power is cut before an operation, or in the middle of the data. *)
PowerCut ==
  /\ pc \in Cuts
  /\ pc' = "off"
  /\ data' \in {data} \cup
       (IF pc = "data" /\ target \in Sector
        THEN {[data EXCEPT ![target] = Garbage]} ELSE {})
  /\ UNCHANGED <<magic, used, word0, target, value, saved, saves>>

Next ==
  \/ Boot \/ PowerCut
  \/ \E v \in Values : Save(v)
  \/ EraseSector \/ WriteMagic \/ WriteData \/ ClearFlag

Spec == Init /\ [][Next]_vars

-----------------------------------------------------------------------------
TypeOK ==
  /\ magic \in BOOLEAN
  /\ used \in 0 .. NBlocks
  /\ data \in [Sector -> Values \cup {Erased, Garbage}]
  /\ word0 \in SUBSET Word
  /\ pc \in {"off", "idle", "fault", "erase", "magic", "data", "flag"}
  /\ target \in Nat
  /\ value \in Values \cup {Default}
  /\ saved \in Values \cup {Default}
  /\ saves \in 0 .. MaxSaves

(* The active block is the one containing the last saved settings: what    *)
(* the comment of findActiveBlock says, and what every boot relies on.     *)
LastSavedIsRead == pc = "idle" => Reads = saved

(* The same, as long as blocks are left and no save was interrupted after  *)
(* the erase or between its data and its flag: no block is spoilt and      *)
(* those past the active one are erased.                                   *)
Intact ==
  /\ used \in 1 .. NBlocks - 1
  /\ \A b \in Sector : data[b] # Garbage /\ (b > Last => data[b] = Erased)

IntactSavedIsRead == pc = "idle" /\ Intact => Reads = saved

(* What is read are the settings of the last save that completed, or the   *)
(* defaults: never half of a save, nor settings of an earlier one,         *)
(* whatever the moments of the power cuts.  (While no block is written     *)
(* past the last flag: Limit <= NBlocks, which the Module17 breaks.)       *)
NothingStale == Reads \in {saved, Default}

(* What the next boot reads changes when a flag is cleared or the sector   *)
(* is erased, and at no other moment of a save.                            *)
SwitchesAtTheFlag == [][Reads' # Reads => pc \in {"flag", "erase"}]_vars
=============================================================================
