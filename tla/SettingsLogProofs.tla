-------------------------- MODULE SettingsLogProofs --------------------------
(***************************************************************************)
(* Proofs about SettingsLog, for every size of the log, every set of       *)
(* settings and power cuts at any moments.                                 *)
(*                                                                         *)
(* Whatever is written is written to the block FirstSet, the one after the *)
(* active block, so what the next boot reads does not change until its     *)
(* flag is cleared; and only the block that was just written can be read   *)
(* from then on, as nothing after it holds settings.                       *)
(***************************************************************************)
EXTENDS SettingsLog, WellFoundedInduction, TLAPS

Active == magic /\ Last \in Sector /\ data[Last] \in Values

(* Where a save is, and what it has written. *)
Writing ==
  /\ ~magic => used = 0
  /\ pc \in {"data", "flag"} => magic
  /\ pc = "erase" => target = 0
  /\ pc = "magic" => target = 0
  /\ pc \in {"magic", "data", "flag"} => target = FirstSet
  /\ pc \in {"erase", "magic", "data", "flag"} => value \in Values
  /\ pc = "flag" => target \in Sector /\ data[target] \in {value, Garbage}

IInv == TypeOK /\ Writing /\ (Intact => Reads = saved)

LEMMA Sizes ==
  /\ NBlocks \in Nat /\ NBlocks > 0 /\ MaxSaves \in Nat /\ WordBits \in Nat /\ WordBits > 0
  /\ NBlocks + WordBits < 65536 /\ Capacity \in Nat /\ Capacity < 65536
  /\ Limit \in Nat
  BY SizesAssumption

LEMMA SmallestIn ==
  ASSUME NEW S \in SUBSET Nat, S # {}
  PROVE  Min(S) \in S /\ \A y \in S : Min(S) <= y
<1> DEFINE Below == {ss \in Nat \X Nat : ss[1] < ss[2]}
<1>1. IsWellFoundedOn(Below, Nat)
  BY NatLessThanWellFounded DEF OpToRel
<1> HIDE DEF Below
<1>2. PICK x \in S : \A y \in S : ~(<<y, x>> \in Below)
  BY <1>1, WFMin, Zenon
<1>3. \A y \in S : x <= y
  <2> TAKE y \in S
  <2>1. ~(<<y, x>> \in Below)
    BY <1>2
  <2>2. ~(y < x)
    BY <2>1 DEF Below
  <2> QED BY <2>2
<1> QED BY <1>3 DEF Min

LEMMA FirstSetIs ==
  ASSUME TypeOK
  PROVE  /\ FirstSet \in 0 .. NBlocks + WordBits
         /\ used < NBlocks => FirstSet = used
         /\ used = NBlocks => FirstSet >= NBlocks
         /\ used = NBlocks /\ word0 # {} => FirstSet - NBlocks \in word0
         /\ used = NBlocks /\ word0 = {} => FirstSet = NBlocks + WordBits
<1>1. word0 # {} => Min(word0) \in word0
  BY SmallestIn, SizesAssumption DEF TypeOK, Word
<1>2. word0 # {} => Min(word0) \in 0 .. WordBits - 1
  BY <1>1 DEF TypeOK, Word
<1>3. used \in 0 .. NBlocks /\ NBlocks \in Nat /\ WordBits \in Nat
  BY SizesAssumption DEF TypeOK
<1>4. CASE used < NBlocks
  BY <1>3, <1>4 DEF FirstSet
<1>5. CASE used = NBlocks /\ word0 # {}
  <2>1. FirstSet = NBlocks + Min(word0)
    BY <1>3, <1>5 DEF FirstSet
  <2>2. FirstSet - NBlocks = Min(word0)
    BY <1>2, <1>3, <1>5, <2>1
  <2> QED BY <1>1, <1>2, <1>3, <1>5, <2>1, <2>2
<1>6. CASE used = NBlocks /\ word0 = {}
  BY <1>3, <1>6 DEF FirstSet
<1> QED BY <1>3, <1>4, <1>5, <1>6

LEMMA LastIs ==
  ASSUME TypeOK
  PROVE  /\ Last \in Nat
         /\ FirstSet = 0 => Last \notin Sector
         /\ FirstSet > 0 => Last = FirstSet - 1
<1>1. FirstSet \in 0 .. NBlocks + WordBits
  BY FirstSetIs
<1> QED BY <1>1, SizesAssumption DEF Last, Sector

LEMMA ReadsIs ==
  ASSUME TypeOK
  PROVE  /\ Reads = IF Active THEN data[Last] ELSE Default
         /\ findActiveBlock = IF Active THEN Last ELSE -1
         /\ findActiveBlock >= 0 <=> Active
<1>1. Last \in Nat
  BY LastIs
<1>2. findActiveBlock = IF Active THEN Last ELSE -1
  BY DEF findActiveBlock, Active
<1>3. findActiveBlock >= 0 <=> Active
  BY <1>1, <1>2
<1> QED BY <1>2, <1>3 DEF Reads

(* Where the active block is and what is read from it. *)
Located ==
  /\ FirstSet \in Nat /\ Last \in Nat
  /\ used < NBlocks => FirstSet = used
  /\ used = NBlocks => FirstSet >= NBlocks
  /\ used = NBlocks /\ word0 # {} => FirstSet - NBlocks \in word0
  /\ FirstSet = 0 => Last \notin Sector
  /\ FirstSet > 0 => Last = FirstSet - 1
  /\ Reads = IF Active THEN data[Last] ELSE Default

LEMMA Locates == TypeOK => Located
<1> SUFFICES ASSUME TypeOK PROVE Located
  OBVIOUS
<1>1. FirstSet \in Nat
  BY FirstSetIs, SizesAssumption
<1> QED BY <1>1, FirstSetIs, LastIs, ReadsIs DEF Located

(* Past the last flag the search goes on at the first bit that is set.     *)
LEMMA FirstSetNext ==
  ASSUME TypeOK', used' = NBlocks, 0 \notin word0'
  PROVE  FirstSet' # NBlocks
<1>1. word0' \in SUBSET Nat
  BY Sizes DEF TypeOK, Word
<1>2. CASE word0' = {}
  BY <1>2, Sizes DEF FirstSet
<1>3. CASE word0' # {}
  <2>1. Min(word0') \in word0' /\ Min(word0') \in Nat
    BY <1>1, <1>3, SmallestIn
  <2> QED BY <1>3, <2>1, Sizes DEF FirstSet
<1> QED BY <1>2, <1>3

(* What is read hangs on the flash alone. *)
LEMMA SameFlash ==
  ASSUME UNCHANGED flash
  PROVE  /\ FirstSet' = FirstSet /\ Last' = Last /\ Reads' = Reads
         /\ Intact' <=> Intact
<1>1. /\ magic' = magic /\ used' = used /\ data' = data /\ word0' = word0
  BY DEF flash
<1>2. FirstSet' = FirstSet
  BY <1>1 DEF FirstSet
<1>3. Last' = Last
  BY <1>2 DEF Last
<1>4. findActiveBlock' = findActiveBlock
  BY <1>1, <1>3 DEF findActiveBlock
<1> QED BY <1>1, <1>2, <1>3, <1>4 DEF Reads, Intact

-----------------------------------------------------------------------------
LEMMA InitInv == Init => IInv
<1> SUFFICES ASSUME Init PROVE IInv
  OBVIOUS
<1>1. TypeOK
  <2>1. data \in [Sector -> Values \cup {Erased, Garbage}]
    BY DEF Init
  <2>2. magic \in BOOLEAN /\ word0 \in SUBSET Word
    BY DEF Init
  <2>3. target \in Nat /\ value = Default /\ saved = Default /\ saves \in 0 .. MaxSaves
        /\ pc = "off"
    BY Sizes DEF Init
  <2>4. used \in 0 .. NBlocks
    BY Sizes DEF Init
  <2> QED BY <2>1, <2>2, <2>3, <2>4 DEF TypeOK
<1>2. Writing
  BY DEF Init, Writing
<1>3. ~Intact
  BY DEF Init, Intact
<1> QED BY <1>1, <1>2, <1>3 DEF IInv

LEMMA BootKeeps == ASSUME IInv, Boot PROVE IInv' /\ Reads' = Reads
<1>1. UNCHANGED <<flash, target, value, saved, saves>> /\ pc' \in {"fault", "idle"}
  BY DEF Boot
<1>2. TypeOK'
  BY <1>1 DEF IInv, TypeOK, flash
<1>3. Writing'
  BY <1>1 DEF IInv, Writing, flash
<1> QED BY <1>1, <1>2, <1>3, SameFlash DEF IInv

LEMMA SaveKeeps == ASSUME IInv, NEW v \in Values, Save(v) PROVE IInv' /\ Reads' = Reads
<1>1. /\ TypeOK /\ Located /\ UNCHANGED flash /\ value' = v
      /\ saves' \in 0 .. MaxSaves /\ pc = "idle"
  BY Locates, SizesAssumption DEF IInv, TypeOK, Save
<1>2. CASE pc' \in {"fault", "idle"} /\ target' = target /\ saved' \in {saved, Reads}
  <2>1. TypeOK'
    <3>1. Reads \in Values \cup {Default}
      BY <1>1 DEF Located, Active
    <3> QED BY <1>1, <1>2, <3>1 DEF TypeOK, flash
  <2>2. Writing'
    BY <1>1, <1>2 DEF IInv, Writing, flash
  <2> QED BY <1>1, <1>2, <2>1, <2>2, SameFlash DEF IInv
<1>3. CASE pc' = "erase" /\ target' = 0 /\ saved' = saved
  <2>1. TypeOK' /\ Writing'
    BY <1>1, <1>3 DEF IInv, TypeOK, Writing, flash
  <2> QED BY <1>1, <1>3, <2>1, SameFlash DEF IInv
<1>4. CASE /\ findActiveBlock \in 0 .. Limit - 1
           /\ pc' = "data" /\ target' = NextBlock /\ saved' = saved
  <2>1. Active /\ findActiveBlock = Last
    BY <1>1, <1>4, ReadsIs
  <2>2. NextBlock = FirstSet
    BY <1>1, <2>1 DEF NextBlock, Located, Active
  <2>3. TypeOK'
    BY <1>1, <1>4, <2>2 DEF TypeOK, flash, Located
  <2>4. Writing'
    BY <1>1, <1>4, <2>1, <2>2, SameFlash DEF IInv, Writing, flash, Active
  <2> QED BY <1>1, <1>4, <2>3, <2>4, SameFlash DEF IInv
<1> QED BY <1>1, <1>2, <1>3, <1>4 DEF Save

LEMMA EraseKeeps == ASSUME IInv, EraseSector PROVE IInv' /\ Reads' = Default
<1>1. /\ magic' = FALSE /\ used' = 0 /\ data' = [b \in Sector |-> Erased] /\ word0' = Word
      /\ pc' = "magic" /\ UNCHANGED <<target, value, saved, saves>>
      /\ TypeOK /\ target = 0 /\ value \in Values
  BY DEF EraseSector, Blank, IInv, Writing
<1>2. TypeOK'
  <2>1. data' \in [Sector -> Values \cup {Erased, Garbage}]
    BY <1>1
  <2>2. magic' \in BOOLEAN /\ word0' \in SUBSET Word
    BY <1>1
  <2>3. used' \in 0 .. NBlocks
    BY <1>1, Sizes
  <2> QED BY <1>1, <2>1, <2>2, <2>3 DEF TypeOK
<1>3. Located'
  BY <1>2, Locates, PTL
<1>4. Writing'
  BY <1>1, <1>3, SizesAssumption DEF Writing, Located
<1>5. ~Intact'
  BY <1>1 DEF Intact
<1>6. Reads' = Default
  BY <1>1, <1>3 DEF Located, Active
<1> QED BY <1>2, <1>4, <1>5, <1>6 DEF IInv

LEMMA MagicKeeps == ASSUME IInv, WriteMagic PROVE IInv' /\ Reads' = Reads
<1>1. /\ magic' = TRUE /\ pc' = "data"
      /\ UNCHANGED <<used, data, word0, target, value, saved, saves>>
      /\ TypeOK /\ target = FirstSet /\ target = 0 /\ value \in Values
  BY DEF WriteMagic, IInv, Writing
<1>2. TypeOK' /\ FirstSet' = FirstSet
  BY <1>1 DEF TypeOK, FirstSet
<1>3. Located /\ Located'
  BY <1>1, <1>2, Locates, PTL
<1>4. used = 0 /\ ~Active /\ ~Active'
  BY <1>1, <1>2, <1>3, SizesAssumption DEF Located, Active, TypeOK
<1>5. Writing'
  BY <1>1, <1>2 DEF Writing
<1>6. ~Intact'
  BY <1>1, <1>4 DEF Intact
<1> QED BY <1>2, <1>3, <1>4, <1>5, <1>6 DEF IInv, Located

LEMMA DataKeeps == ASSUME IInv, WriteData PROVE IInv' /\ Reads' = Reads
<1>1. /\ UNCHANGED <<magic, used, target, value, saved, saves>>
      /\ TypeOK /\ Located /\ magic /\ target = FirstSet /\ value \in Values
  BY Locates DEF WriteData, IInv, Writing
<1>2. CASE target \in Sector
  <2>1. /\ data' = [data EXCEPT ![target] = Programmed(value)]
        /\ word0' = IF target = 0 THEN word0 \cap FirstWord[value] ELSE word0
        /\ pc' = "flag" /\ Programmed(value) \in {value, Garbage}
    BY <1>2 DEF WriteData, Programmed
  <2>2. TypeOK'
    BY <1>1, <1>2, <2>1 DEF TypeOK
  <2>3. FirstSet' = FirstSet
    <3>1. CASE target = 0
      BY <1>1, <3>1, SizesAssumption DEF Located, TypeOK, FirstSet
    <3>2. CASE target # 0
      BY <1>1, <2>1, <3>2 DEF FirstSet
    <3> QED BY <3>1, <3>2
  <2>4. Located'
    BY <2>2, Locates, PTL
  <2>4a. Last' = Last /\ Last # target
    BY <1>1, <1>2, <2>3 DEF Last, Located
  <2>5. Writing'
    BY <1>1, <1>2, <2>1, <2>3 DEF IInv, Writing, TypeOK
  <2>6. data'[Last] = data[Last] \/ Last \notin Sector
    BY <1>1, <2>1, <2>4a DEF TypeOK
  <2>7. Reads' = Reads
    BY <1>1, <2>4, <2>4a, <2>6 DEF Located, Active
  <2>8. ~Intact'
    <3>1. data'[target] \in {value, Garbage}
      BY <1>1, <1>2, <2>1 DEF TypeOK
    <3>2. used # 0 => target > Last
      BY <1>1, Sizes DEF Located, TypeOK
    <3>3. value # Erased
      BY <1>1, DefaultAssumption
    <3> QED BY <1>1, <1>2, <2>4a, <3>1, <3>2, <3>3 DEF Intact, TypeOK
  <2> QED BY <2>2, <2>5, <2>7, <2>8 DEF IInv
<1>3. CASE target \notin Sector
  <2>1. UNCHANGED flash /\ pc' = "fault"
    BY <1>1, <1>3 DEF WriteData, flash
  <2>2. TypeOK' /\ Writing'
    BY <1>1, <2>1 DEF IInv, TypeOK, Writing, flash
  <2> QED BY <1>1, <2>1, <2>2, SameFlash DEF IInv
<1> QED BY <1>2, <1>3

LEMMA FlagKeeps == ASSUME IInv, ClearFlag PROVE IInv'
<1>1. /\ UNCHANGED <<magic, target, value, saves>> /\ pc' = "idle" /\ saved' = value
      /\ TypeOK /\ Located /\ magic /\ target = FirstSet /\ value \in Values
      /\ target \in Sector /\ data[target] \in {value, Garbage}
  BY Locates DEF ClearFlag, IInv, Writing
<1>2. CASE target < NBlocks
  <2>1. used' = target + 1 /\ data' = data /\ word0' = word0 /\ target = used
    BY <1>1, <1>2, SizesAssumption DEF ClearFlag, Located, TypeOK
  <2>2. TypeOK'
    <3>1. used' \in 0 .. NBlocks
      BY <1>1, <1>2, <2>1, Sizes DEF TypeOK
    <3> QED BY <1>1, <2>1, <3>1 DEF TypeOK
  <2>3. Writing'
    BY <1>1 DEF Writing
  <2>4. Located'
    BY <2>2, Locates, PTL
  <2>5. Intact' => Reads' = saved'
    <3> SUFFICES ASSUME Intact' PROVE Reads' = value
      BY <1>1
    <3>1. Last' = target
      <4>1. used' < NBlocks /\ target \in Nat
        BY <1>1, Sizes DEF Intact, TypeOK
      <4>2. FirstSet' = target + 1
        BY <2>1, <2>4, <4>1 DEF Located
      <4> QED BY <2>4, <4>1, <4>2 DEF Located
    <3>2. data'[target] = value
      BY <1>1, <2>1 DEF Intact
    <3> QED BY <1>1, <2>4, <3>1, <3>2 DEF Located, Active
  <2> QED BY <2>2, <2>3, <2>5 DEF IInv
<1>3. CASE ~(target < NBlocks)
  <2>1. /\ word0' = word0 \ {target - NBlocks} /\ used' = used /\ used = NBlocks
        /\ data' \in {data, [data EXCEPT ![0] = Garbage]}
    BY <1>1, <1>3, SizesAssumption DEF ClearFlag, Located, TypeOK
  <2>2. TypeOK'
    BY <1>1, <2>1 DEF TypeOK
  <2>3. Writing' /\ ~Intact'
    BY <1>1, <2>1, SizesAssumption DEF Writing, Intact
  <2> QED BY <2>2, <2>3 DEF IInv
<1> QED BY <1>2, <1>3

LEMMA CutKeeps == ASSUME IInv, PowerCut PROVE IInv' /\ Reads' = Reads
<1>1. /\ UNCHANGED <<magic, used, word0, target, value, saved, saves>> /\ pc' = "off"
      /\ TypeOK /\ Located
  BY Locates DEF PowerCut, IInv
<1>2. CASE data' = data
  <2>1. TypeOK' /\ Writing' /\ UNCHANGED flash
    BY <1>1, <1>2 DEF IInv, TypeOK, Writing, flash
  <2> QED BY <1>1, <2>1, SameFlash DEF IInv
<1>3. CASE pc = "data" /\ target \in Sector /\ data' = [data EXCEPT ![target] = Garbage]
  <2>1. TypeOK' /\ Writing' /\ FirstSet' = FirstSet
    BY <1>1, <1>3 DEF IInv, TypeOK, Writing, FirstSet
  <2>2. Last' = Last
    BY <2>1 DEF Last
  <2>2a. Located'
    BY <2>1, Locates, PTL
  <2>3. target = FirstSet
    BY <1>3 DEF IInv, Writing
  <2>4. ~Intact' /\ (data'[Last] = data[Last] \/ Last \notin Sector)
    BY <1>1, <1>3, <2>3 DEF Intact, TypeOK, Located
  <2>5. Reads' = Reads
    BY <1>1, <2>2, <2>2a, <2>4 DEF Located, Active
  <2> QED BY <2>1, <2>4, <2>5 DEF IInv
<1> QED BY <1>2, <1>3 DEF PowerCut

LEMMA StepInv == IInv /\ [Next]_vars => IInv'
<1> SUFFICES ASSUME IInv, [Next]_vars PROVE IInv'
  OBVIOUS
<1>1. CASE Next
  BY <1>1, BootKeeps, SaveKeeps, EraseKeeps, MagicKeeps, DataKeeps, FlagKeeps, CutKeeps DEF Next
<1>2. CASE UNCHANGED vars
  <2>1. UNCHANGED flash /\ UNCHANGED <<pc, target, value, saved, saves>>
    BY <1>2 DEF vars, flash
  <2>2. TypeOK' /\ Writing'
    BY <2>1, SameFlash DEF IInv, TypeOK, Writing, flash
  <2> QED BY <2>1, <2>2, SameFlash DEF IInv
<1> QED BY <1>1, <1>2

LEMMA Invariance == Spec => []IInv
  BY InitInv, StepInv, PTL DEF Spec

-----------------------------------------------------------------------------
(* Every variable keeps to its type, and no flag is cleared past the last. *)
THEOREM TypeCorrect == Spec => []TypeOK
<1>1. IInv => TypeOK
  BY DEF IInv
<1> QED BY <1>1, Invariance, PTL

(* In a sector that no interrupted save has spoilt every boot reads the    *)
(* settings of the last save, for a log of any size.                       *)
THEOREM IntactSavedIsReadAlways == Spec => []IntactSavedIsRead
<1>1. IInv => IntactSavedIsRead
  BY DEF IInv, IntactSavedIsRead
<1> QED BY <1>1, Invariance, PTL

(* A save takes effect at one point, the clearing of its flag, or at the   *)
(* erase of the sector: a power cut anywhere else changes nothing of what  *)
(* the next boot reads.                                                    *)
THEOREM SwitchesAtTheFlagAlways == Spec => SwitchesAtTheFlag
<1>1. IInv /\ [Next]_vars => [Reads' # Reads => pc \in {"flag", "erase"}]_vars
  <2> SUFFICES ASSUME IInv, Next, pc \notin {"flag", "erase"} PROVE Reads' = Reads
    BY DEF vars
  <2>1. ~EraseSector /\ ~ClearFlag
    BY DEF EraseSector, ClearFlag
  <2> QED BY <2>1, BootKeeps, SaveKeeps, MagicKeeps, DataKeeps, CutKeeps DEF Next
<1> QED BY <1>1, Invariance, PTL DEF Spec, SwitchesAtTheFlag

-----------------------------------------------------------------------------
(* With no block past the last flag: no settings are found beyond the      *)
(* block that is written.                                                  *)
Beyond ==
  /\ \A b \in Sector : b > FirstSet => data[b] \notin Values
  /\ pc \in {"magic", "data", "flag"} => target <= NBlocks

FreshInv == IInv /\ Beyond /\ NothingStale

LEMMA FreshInit == Init => FreshInv
<1> SUFFICES ASSUME Init PROVE FreshInv
  OBVIOUS
<1>1. IInv
  BY InitInv
<1>2. Beyond
  BY DefaultAssumption DEF Init, Beyond
<1>3. Reads = Default
  BY <1>1, Locates DEF IInv, Located, Active, Init
<1> QED BY <1>1, <1>2, <1>3 DEF FreshInv, NothingStale

(* What does not touch the flash, or only the block to be written.         *)
LEMMA FreshSame ==
  ASSUME FreshInv, TypeOK', Reads' = Reads, saved' \in {saved, Reads}, FirstSet' = FirstSet,
         \A b \in Sector : b > FirstSet => data'[b] = data[b],
         pc' \in {"magic", "data", "flag"} => target' <= NBlocks
  PROVE  Beyond' /\ NothingStale'
<1>1. Beyond'
  BY DEF FreshInv, Beyond, Sector
<1>2. NothingStale'
  BY DEF FreshInv, NothingStale
<1> QED BY <1>1, <1>2

LEMMA FreshFlag == ASSUME FreshInv, ClearFlag PROVE Beyond' /\ NothingStale'
<1>1. /\ UNCHANGED <<magic, target, value, saves>> /\ pc' = "idle" /\ saved' = value
      /\ TypeOK /\ Located /\ magic /\ target = FirstSet /\ value \in Values
      /\ target \in Sector /\ data[target] \in {value, Garbage} /\ target <= NBlocks
  BY Locates DEF ClearFlag, FreshInv, Beyond, IInv, Writing
<1>2. TypeOK' /\ Located'
  BY FlagKeeps, Locates, PTL DEF FreshInv, IInv
<1>3. FirstSet' > FirstSet /\ data'[target] \in {value, Garbage}
      /\ \A b \in Sector : b > target => data'[b] = data[b]
  <2>1. CASE target < NBlocks
    <3>1. used' = target + 1 /\ data' = data /\ target \in Nat
      BY <1>1, <2>1, Sizes DEF ClearFlag, Located, TypeOK
    <3>2. used' < NBlocks \/ used' = NBlocks
      BY <2>1, <3>1, Sizes
    <3> QED BY <1>1, <1>2, <3>1, <3>2 DEF Located
  <2>2. CASE target = NBlocks
    <3>1. /\ word0' = word0 \ {0} /\ used' = NBlocks /\ target \in Nat /\ target > 0
          /\ data' \in {data, [data EXCEPT ![0] = Garbage]}
      BY <1>1, <2>2, Sizes DEF ClearFlag, Located, TypeOK
    <3>2. FirstSet' # NBlocks
      BY <1>2, <3>1, FirstSetNext, Sizes
    <3> QED BY <1>1, <1>2, <2>2, <3>1, <3>2 DEF Located, TypeOK
  <2> QED BY <1>1, <2>1, <2>2, Sizes DEF TypeOK
<1>4. Beyond'
  <2> SUFFICES ASSUME NEW b \in Sector, b > FirstSet' PROVE data'[b] \notin Values
    BY <1>1 DEF Beyond
  <2>1. b > target
    BY <1>1, <1>2, <1>3 DEF Sector, Located
  <2> QED BY <1>1, <1>3, <2>1 DEF FreshInv, Beyond
<1>5. Last' = target \/ (Last' > target /\ Last' \in Nat)
  <2>1. FirstSet \in Nat /\ FirstSet' \in Nat /\ FirstSet' > 0 /\ FirstSet' > target
    BY <1>1, <1>2, <1>3 DEF Located
  <2>2. Last' = FirstSet' - 1
    BY <1>2, <2>1 DEF Located
  <2>3. target \in Nat
    BY <1>1, <2>1
  <2>4. \A f, t \in Nat : f > t => f - 1 \in Nat /\ (f - 1 = t \/ f - 1 > t)
    OBVIOUS
  <2>5. FirstSet' - 1 \in Nat /\ (FirstSet' - 1 = target \/ FirstSet' - 1 > target)
    BY <2>1, <2>3, <2>4
  <2> QED BY <2>2, <2>5
<1>6. Active' => data'[Last'] = value
  <2> SUFFICES ASSUME Active' PROVE data'[Last'] = value
    OBVIOUS
  <2>1. CASE Last' = target
    BY <1>3, <2>1, DefaultAssumption DEF Active
  <2>2. CASE Last' > target
    BY <1>1, <1>3, <2>2 DEF Active, FreshInv, Beyond
  <2> QED BY <1>5, <2>1, <2>2
<1>7. NothingStale'
  BY <1>1, <1>2, <1>6 DEF NothingStale, Located
<1> QED BY <1>4, <1>7

LEMMA FreshStep == ASSUME Limit <= NBlocks PROVE FreshInv /\ [Next]_vars => FreshInv'
<1> SUFFICES ASSUME FreshInv, [Next]_vars PROVE FreshInv'
  OBVIOUS
<1>1. IInv /\ IInv' /\ TypeOK /\ TypeOK'
  BY StepInv DEF FreshInv, IInv
<1> SUFFICES Beyond' /\ NothingStale'
  BY <1>1 DEF FreshInv
<1>2. CASE Boot
  BY <1>1, <1>2, BootKeeps, SameFlash, FreshSame DEF Boot, flash
<1>3. ASSUME NEW v \in Values, Save(v) PROVE Beyond' /\ NothingStale'
  <2>1. UNCHANGED flash /\ saved' \in {saved, Reads} /\ Reads' = Reads
    BY <1>1, <1>3, SaveKeeps DEF Save
  <2>2. pc' \in {"magic", "data", "flag"} => target' <= NBlocks
    <3> SUFFICES ASSUME pc' \in {"magic", "data", "flag"} PROVE target' <= NBlocks
      OBVIOUS
    <3>1. findActiveBlock \in 0 .. Limit - 1 /\ target' = findActiveBlock + 1
      BY <1>3 DEF Save, NextBlock
    <3> QED BY <3>1, Sizes
  <2> QED BY <1>1, <2>1, <2>2, SameFlash, FreshSame DEF flash
<1>4. CASE EraseSector
  <2>1. data' = [b \in Sector |-> Erased] /\ target' = 0
    BY <1>1, <1>4 DEF EraseSector, Blank, IInv, Writing
  <2>2. Beyond'
    BY <2>1, DefaultAssumption, Sizes DEF Beyond
  <2>3. Reads' = Default
    BY <1>1, <1>4, EraseKeeps
  <2> QED BY <2>2, <2>3 DEF NothingStale
<1>5. CASE WriteMagic
  <2>1. FirstSet' = FirstSet
    BY <1>5 DEF WriteMagic, FirstSet
  <2>2. target' <= NBlocks
    BY <1>5 DEF WriteMagic, FreshInv, Beyond
  <2> QED BY <1>1, <1>5, <2>1, <2>2, MagicKeeps, FreshSame DEF WriteMagic
<1>6. CASE WriteData
  <2>1. target' <= NBlocks /\ target = FirstSet /\ saved' = saved
    BY <1>1, <1>6 DEF WriteData, FreshInv, Beyond, IInv, Writing
  <2>2. FirstSet' = FirstSet
    <3>1. CASE target = 0 /\ target \in Sector
      <4>1. used = 0 /\ used' = 0
        BY <1>1, <1>6, <2>1, <3>1, Locates, Sizes DEF WriteData, Located, TypeOK
      <4> QED BY <4>1, Sizes DEF FirstSet
    <3>2. CASE target # 0 \/ target \notin Sector
      BY <1>6, <3>2 DEF WriteData, FirstSet
    <3> QED BY <3>1, <3>2
  <2>3. \A b \in Sector : b > FirstSet => data'[b] = data[b]
    BY <1>1, <1>6, <2>1, Locates DEF WriteData, TypeOK, Sector, Located
  <2> QED BY <1>1, <1>6, <2>1, <2>2, <2>3, DataKeeps, FreshSame
<1>7. CASE ClearFlag
  BY <1>7, FreshFlag
<1>8. CASE PowerCut
  <2>1. FirstSet' = FirstSet /\ pc' = "off" /\ saved' = saved
    BY <1>8 DEF PowerCut, FirstSet
  <2>2. \A b \in Sector : b > FirstSet => data'[b] = data[b]
    <3>1. data' = data \/ (target = FirstSet /\ data' = [data EXCEPT ![target] = Garbage])
      BY <1>1, <1>8 DEF PowerCut, IInv, Writing
    <3> QED BY <1>1, <3>1, Locates DEF TypeOK, Sector, Located
  <2> QED BY <1>1, <1>8, <2>1, <2>2, CutKeeps, FreshSame
<1>9. CASE UNCHANGED vars
  <2>1. UNCHANGED flash /\ saved' = saved /\ target' = target /\ pc' = pc
    BY <1>9 DEF vars, flash
  <2> QED BY <1>1, <2>1, SameFlash, FreshSame DEF flash, FreshInv, Beyond
<1> QED BY <1>2, <1>3, <1>4, <1>5, <1>6, <1>7, <1>8, <1>9 DEF Next

(* What is read is the last save that completed or the defaults, never an  *)
(* earlier one: of the MDx radios, whose log writes no block past the last *)
(* flag.  On the Module17 the limit is 2047 blocks for 1024 flags.         *)
THEOREM NothingStaleAlways == ASSUME Limit <= NBlocks PROVE Spec => []NothingStale
<1>1. Init => FreshInv
  BY FreshInit
<1>2. FreshInv /\ [Next]_vars => FreshInv'
  BY FreshStep
<1>3. FreshInv => NothingStale
  BY DEF FreshInv
<1> QED BY <1>1, <1>2, <1>3, PTL DEF Spec
=============================================================================
