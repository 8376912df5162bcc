-------------------------------- MODULE Eeep --------------------------------
(***************************************************************************)
(* The emulated EEPROM of the CS7000 radios (platform/drivers/NVM/eeep.c): *)
(* a log of records in the flash page marked ACTIVE; when the page is full *)
(* the last record of every key is copied to the next page, which becomes  *)
(* the active one.                                                         *)
(*                                                                         *)
(* Every flash operation is a step of its own, so that the power can be    *)
(* cut between any two of them; those whose pc is in MayFail can also      *)
(* report an error, having reached the chip or not.  Sizes are in cells of *)
(* four bytes, that of the two kinds of header; a byte is programmed       *)
(* entirely or not at all, so that a page header changes in one step.      *)
(*                                                                         *)
(* An error in the middle of a page change leaves readAddr in the old page *)
(* and writeAddr in the new one, and the calls that follow go on like      *)
(* that: "adrift" says that this has happened since the radio was started. *)
(* What they then do is modelled up to the first record that is programmed *)
(* over something else ("spoilt").                                         *)
(***************************************************************************)
EXTENDS Integers, Sequences, SequencesExt, FiniteSets, FiniteSetsExt

CONSTANTS
  NPages,      \* erase blocks of the partition
  PageCells,   \* size of an erase block
  Keys,        \* virtual addresses
  Values, NoValue,
  DataCells,   \* key -> size of its data
  MaxCells,    \* size of the largest record, of 254 bytes of data
  MaxEntries,  \* EEEP_MAX_ENTRIES
  MaxWrites,   \* bound on the calls of eeep_write, for model checking
  MayFail      \* places at which a flash operation may report an error

Pages == 0 .. NPages - 1
EntryCells(k) == 1 + DataCells[k]

ASSUME PagesAssumption == NPages \in Nat /\ NPages > 1
ASSUME DataAssumption ==
  /\ MaxCells \in Nat
  /\ DataCells \in [Keys -> Nat]
  /\ \A k \in Keys : EntryCells(k) <= MaxCells
ASSUME NoValueAssumption == NoValue \notin Values
ASSUME MaxWritesAssumption == MaxWrites \in Nat

(* As many of the largest records as swapBlock can copy and one more fit   *)
(* in a page: 1 + 8 * 65 + 65 cells of 1024 with the flash of the CS7000.  *)
ASSUME PageAssumption ==
  /\ MaxEntries \in Nat
  /\ PageCells \in Nat
  /\ 1 + MaxEntries * MaxCells + MaxCells <= PageCells

VARIABLES
  header,     \* page -> status in its header
  log,        \* page -> records written since it was erased
  readPage,   \* page of priv->readAddr, its first record
  writePage,  \* page of priv->writeAddr
  writeAt,    \* cell of priv->writeAddr in that page
  adrift,     \* auxiliary: readAddr and writeAddr were left in two pages
  pc,         \* the flash operation to do next
  pending,    \* arguments of eeep_write
  todo,       \* keys swapBlock still has to copy, of those in entryList
  result,     \* of the last eeep_write: "none", "ok" or "error"
  writes      \* number of calls so far

flash == <<header, log>>
addresses == <<readPage, writePage, writeAt>>
vars == <<flash, addresses, adrift, pc, pending, todo, result, writes>>

(* A record begins at cell "at" of its page.  A "partial" one is a header  *)
(* of which only the status was programmed: nextRecordAddress then skips   *)
(* no more than the header.                                                *)
Record ==
  [status : {"partial", "invalid", "valid"}, at : Nat, key : Keys, val : Values]

RecordCells(rec) == IF rec.status = "partial" THEN 1 ELSE EntryCells(rec.key)

(* The end of a log: after the header of the page when there is no record. *)
Used(recs) ==
  IF recs = <<>> THEN 1 ELSE recs[Len(recs)].at + RecordCells(recs[Len(recs)])

-----------------------------------------------------------------------------
(* Reading. *)

(* The valid records of a key.                                             *)
Found(recs, k) ==
  {i \in DOMAIN recs : recs[i].status = "valid" /\ recs[i].key = k}

(* The data of the last valid record of a key (findRecord, eeep_read).     *)
Latest(recs, k) ==
  IF Found(recs, k) = {} THEN NoValue ELSE recs[Max(Found(recs, k))].val

(* The page eeep_init takes is the first one marked active.                *)
Active == {p \in Pages : header[p] = "active"}
BootPage == Min(Active)

(* The keys of entryList, and the one whose turn it is: swapBlock lists    *)
(* them in the order of their first records.                               *)
LiveKeys(recs) == {k \in Keys : Found(recs, k) # {}}
First(k) == Min(Found(log[readPage], k))
NextKey == CHOOSE k \in todo : \A j \in todo : First(k) <= First(j)

-----------------------------------------------------------------------------
Init ==
  /\ header = [p \in Pages |-> "erased"]
  /\ log = [p \in Pages |-> <<>>]
  /\ readPage = 0 /\ writePage = 0 /\ writeAt = 1
  /\ adrift = FALSE
  /\ pc = "off"
  /\ pending = {} /\ todo = {}
  /\ result = "none"
  /\ writes = 0

(* The page swapBlock moves to, round robin; the mutant forgets to wrap. *)
NextPage_NoWrap == readPage + 1
NextPage == (readPage + 1) % NPages

(* Free cells as eeep_write computes them from the distance of the two     *)
(* addresses.                                                              *)
FreeCells == PageCells - ((writePage - readPage) * PageCells + writeAt)

(* The numbers are unsigned: a difference below zero is larger than any    *)
(* record.  It never is while both addresses are in one page (PagesHold).  *)
Full(k) == 0 <= FreeCells /\ FreeCells < EntryCells(k)

Fail ==
  /\ pc' = "idle"
  /\ result' = "error"
  /\ todo' = {}
  /\ pending' = {}

(* eeep_init.  With no active page the partition is erased, and the power  *)
(* may be cut before the first page is marked.                             *)
Boot ==
  /\ pc = "off"
  /\ Active # {}
  /\ readPage' = BootPage /\ writePage' = BootPage
  /\ writeAt' = Used(log[BootPage])
  /\ pc' = "idle"
  /\ UNCHANGED <<flash, adrift, pending, todo, result, writes>>

Format ==
  /\ pc = "off"
  /\ Active = {}
  /\ log' = [p \in Pages |-> <<>>]
  /\ \/ /\ header' = [p \in Pages |-> IF p = 0 THEN "active" ELSE "erased"]
        /\ pc' = "idle"
     \/ /\ header' = [p \in Pages |-> "erased"]
        /\ UNCHANGED pc
  /\ readPage' = 0 /\ writePage' = 0 /\ writeAt' = 1
  /\ UNCHANGED <<adrift, pending, todo, result, writes>>

(* eeep_write, up to its first flash operation. *)
Write(k, v) ==
  /\ pc = "idle"
  /\ writes < MaxWrites
  /\ writes' = writes + 1
  /\ pending' = {<<k, v>>}
  /\ result' = "none"
  /\ pc' = IF Full(k) THEN "erase" ELSE "append"
  /\ UNCHANGED <<flash, addresses, adrift, todo>>

(* swapBlock: erase the next page and list the live records.  Both         *)
(* addresses are in one page here: while they are not, Full never holds.   *)
(* The mutant does not look at the length of the list.                     *)
Erase_Unlimited ==
  /\ pc = "erase"
  /\ header' = [header EXCEPT ![NextPage] = "erased"]
  /\ log' = [log EXCEPT ![NextPage] = <<>>]
  /\ todo' = LiveKeys(log[readPage])
  /\ pc' = "mark"
  /\ UNCHANGED <<addresses, adrift, pending, result, writes>>

Erase ==
  /\ pc = "erase"
  /\ header' = [header EXCEPT ![NextPage] = "erased"]
  /\ log' = [log EXCEPT ![NextPage] = <<>>]
  /\ IF Cardinality(LiveKeys(log[readPage])) > MaxEntries
     THEN Fail    \* -ENOSPC
     ELSE /\ todo' = LiveKeys(log[readPage])
          /\ pc' = "mark"
          /\ UNCHANGED <<pending, result>>
  /\ UNCHANGED <<addresses, adrift, writes>>

(* swapBlock: the new page is being copied to. *)
Mark ==
  /\ pc = "mark"
  /\ writePage' = NextPage /\ writeAt' = 1
  /\ header' = [header EXCEPT ![NextPage] = "copying"]
  /\ pc' = IF todo = {} THEN "activate" ELSE "append"
  /\ UNCHANGED <<log, readPage, adrift, pending, todo, result, writes>>

(* writeRecord is called with the last record of every key of todo, which  *)
(* is read from the old page, then for the new one.                        *)
Current ==
  IF todo # {} THEN <<NextKey, Latest(log[readPage], NextKey)>>
  ELSE CHOOSE w \in pending : TRUE

(* The header of a record was programmed, at least its status, by a write  *)
(* that failed, and writeAddr has not moved: the next header goes over it. *)
Torn == writeAt < Used(log[writePage])
TornRecord == log[writePage][Len(log[writePage])]

(* The record is programmed over bits that are not its own: over the       *)
(* header of another key, or past the end of the page, which is only       *)
(* reached when adrift (PagesHold).                                        *)
Overprints ==
  \/ Torn /\ TornRecord.status = "invalid" /\ TornRecord.key # Current[1]
  \/ adrift /\ writeAt + EntryCells(Current[1]) > PageCells

(* The log with the header of the record, whole or not; a header there was *)
(* is of the same key and size and stays whole.                            *)
Written(status) ==
  LET recs == log[writePage]
      rec == [status |-> IF Torn /\ TornRecord.status = "invalid" THEN "invalid" ELSE status,
              at |-> writeAt, key |-> Current[1], val |-> Current[2]]
  IN  [log EXCEPT ![writePage] = Append(IF Torn THEN Front(recs) ELSE recs, rec)]

(* writeRecord: the header of the record, then its data; the mutant marks  *)
(* the record valid at once.                                               *)
AppendStatus_Valid == "valid"
AppendStatus == "invalid"

AppendRecord ==
  /\ pc = "append" /\ ~ Overprints
  /\ log' = Written(AppendStatus)
  /\ writeAt' = writeAt + EntryCells(Current[1])
  /\ pc' = "validate"
  /\ UNCHANGED <<header, readPage, writePage, adrift, pending, todo, result, writes>>

(* Keys, sizes and data get mixed: what the flash holds after that is not  *)
(* modelled, and the behaviour ends.                                       *)
Overprint ==
  /\ pc = "append" /\ Overprints
  /\ pc' = "spoilt"
  /\ UNCHANGED <<flash, addresses, adrift, pending, todo, result, writes>>

Validated ==
  [log EXCEPT ![writePage][Len(log[writePage])].status = "valid"]

(* writeRecord: the record becomes valid. *)
Validate ==
  /\ pc = "validate"
  /\ log' = Validated
  /\ IF todo # {}
     THEN /\ todo' = todo \ {NextKey}
          /\ pc' = IF todo = {NextKey} THEN "activate" ELSE "append"
          /\ UNCHANGED <<pending, result>>
     ELSE /\ pc' = "idle"
          /\ pending' = {}
          /\ result' = "ok"
          /\ UNCHANGED todo
  /\ UNCHANGED <<header, addresses, adrift, writes>>

(* The end of swapBlock: the new page becomes active, then the old one     *)
(* inactive; the mutant leaves reads in the old page.                      *)
Activate ==
  /\ pc = "activate"
  /\ header' = [header EXCEPT ![writePage] = "active"]
  /\ pc' = "retire"
  /\ UNCHANGED <<log, addresses, adrift, pending, todo, result, writes>>

Retire_NotMoved ==
  /\ pc = "retire"
  /\ header' = [header EXCEPT ![readPage] = "inactive"]
  /\ pc' = "append"
  /\ UNCHANGED <<log, addresses, adrift, pending, todo, result, writes>>

Retire ==
  /\ pc = "retire"
  /\ header' = [header EXCEPT ![readPage] = "inactive"]
  /\ readPage' = writePage
  /\ pc' = "append"
  /\ UNCHANGED <<log, writePage, writeAt, adrift, pending, todo, result, writes>>

(* A flash operation reports an error, and may have been done all the      *)
(* same, the header of a record also in part; writeAddr moves when the     *)
(* code moved it before the operation.  Reads (which the driver of the     *)
(* chip never refuses) do not fail here.                                   *)
FlashError ==
  /\ pc \in MayFail
  /\ \/ /\ pc = "erase"
        /\ \/ UNCHANGED flash
           \/ /\ header' = [header EXCEPT ![NextPage] = "erased"]
              /\ log' = [log EXCEPT ![NextPage] = <<>>]
        /\ UNCHANGED <<writePage, writeAt>>
     \/ /\ pc = "mark"
        /\ header' \in {header, [header EXCEPT ![NextPage] = "copying"]}
        /\ writePage' = NextPage /\ writeAt' = 1
        /\ UNCHANGED log
     \/ /\ pc = "append" /\ ~ Overprints
        /\ log' \in {log, Written("partial"), Written("invalid")}
        /\ UNCHANGED <<header, writePage, writeAt>>
     \/ /\ pc = "validate"    \* the data or the status of the record
        /\ log' \in {log, Validated}
        /\ UNCHANGED <<header, writePage, writeAt>>
     \/ /\ pc = "activate"
        /\ header' \in {header, [header EXCEPT ![writePage] = "active"]}
        /\ UNCHANGED <<log, writePage, writeAt>>
     \/ /\ pc = "retire"
        /\ header' \in {header, [header EXCEPT ![readPage] = "inactive"]}
        /\ UNCHANGED <<log, writePage, writeAt>>
  /\ adrift' = (writePage' # readPage)
  /\ pc' = "idle"
  /\ result' = "error"
  /\ todo' = {} /\ pending' = {}
  /\ UNCHANGED <<readPage, writes>>

(* The power is cut: between two operations, or within the header of a     *)
(* record.  The other operations are done or not.                          *)
PowerCut ==
  /\ pc \notin {"off", "spoilt"}
  /\ \/ UNCHANGED log
     \/ pc = "append" /\ ~ Overprints /\ log' = Written("partial")
  /\ pc' = "off"
  /\ adrift' = FALSE
  /\ pending' = {} /\ todo' = {}
  /\ result' = "none"
  /\ UNCHANGED <<header, addresses, writes>>

Next ==
  \/ Boot \/ Format
  \/ \E k \in Keys, v \in Values : Write(k, v)
  \/ Erase \/ Mark \/ AppendRecord \/ Overprint \/ Validate \/ Activate \/ Retire
  \/ FlashError \/ PowerCut

Spec == Init /\ [][Next]_vars

-----------------------------------------------------------------------------
(* What eeep_init, then eeep_read, would find if the power was cut now. *)
Stored ==
  [k \in Keys |-> IF Active = {} THEN NoValue ELSE Latest(log[BootPage], k)]

TypeOK ==
  /\ header \in [Pages -> {"erased", "copying", "active", "inactive"}]
  /\ log \in [Pages -> Seq(Record)]
  /\ readPage \in Pages /\ writePage \in Pages /\ writeAt \in Nat
  /\ adrift \in BOOLEAN
  /\ pc \in {"off", "idle", "spoilt",
             "erase", "mark", "append", "validate", "activate", "retire"}
  /\ pending \in SUBSET (Keys \X Values)
  /\ todo \in SUBSET Keys
  /\ result \in {"none", "ok", "error"}
  /\ writes \in 0 .. MaxWrites

(* No record runs past the end of its page: after swapBlock, writeRecord   *)
(* does not look at the space left again.  Only when a page change has     *)
(* failed may one run past it (Overprint), which this does not cover.      *)
PagesHold == \A p \in Pages : Used(log[p]) <= PageCells

(* Between two calls a reader of the running radio sees exactly what the   *)
(* next boot will find, as long as no page change has failed since the     *)
(* last boot.  Errors elsewhere, and power cuts anywhere, make no          *)
(* difference.  Once one has failed, reads go on in the old page, or past  *)
(* all records, and differ: this is a known fault, and exempt.             *)
ReadsWhatIsStored ==
  (pc = "idle" /\ ~ adrift) =>
    \A k \in Keys : Latest(log[readPage], k) = Stored[k]

(* The store implements KeyValueStore, whatever moment the power is cut at *)
(* and whichever operation fails, page changes included.  A write answered *)
(* with success is durable unless a page change has failed since the last  *)
(* boot: the writes that follow may then be lost although they were        *)
(* answered with success, but what was stored before is not, up to a       *)
(* record that is programmed over another one, where the model ends.       *)
Abstract == INSTANCE KeyValueStore WITH
  store <- Stored, request <- pending, reply <- result, unreliable <- adrift
Durable == Abstract!Spec
=============================================================================
