----------------------------- MODULE EeepProofs -----------------------------
(***************************************************************************)
(* Proofs about Eeep, for any number of pages, keys, values and calls and  *)
(* any sizes of records of which MaxEntries and one more fit in a page.    *)
(*                                                                         *)
(* Until a page change fails, a call is in one of two phases.  While it    *)
(* stays in a page, readAddr and writeAddr are in the same one, the first  *)
(* of the active pages, so boot comes back to it; its new record is the    *)
(* last of the log and invalid, so nobody sees it until its status         *)
(* changes.  While it moves, every key that is no longer on the list has   *)
(* the same data in both pages: when the new page becomes active either    *)
(* page gives the same answers, and it does not matter which of the two    *)
(* boot finds.  The space the copies may still take is part of the         *)
(* invariant, as swapBlock never looks at it.                              *)
(*                                                                         *)
(* After a page change has failed no other one begins before the next      *)
(* boot, as eeep_write finds the page never full, so that the page boot    *)
(* goes to is only ever appended to.                                       *)
(***************************************************************************)
EXTENDS Eeep, FiniteSetTheorems, WellFoundedInduction, TLAPS

-----------------------------------------------------------------------------
(* Numbers and sets of numbers. *)

LEMMA NatMin == \A S \in SUBSET Nat : S # {} => \E n \in S : \A m \in S : n <= m
<1> SUFFICES ASSUME NEW S \in SUBSET Nat, S # {}
             PROVE  \E n \in S : \A m \in S : n <= m
  OBVIOUS
<1> DEFINE Below == {mn \in Nat \X Nat : mn[1] < mn[2]}
<1>1. IsWellFoundedOn(Below, Nat)
  BY NatLessThanWellFounded DEF OpToRel
<1> HIDE DEF Below
<1>2. PICK n \in S : \A m \in S : ~ (<<m, n>> \in Below)
  BY <1>1, WFMin, Zenon
<1>3. \A m \in S : ~ (m < n)
  BY <1>2 DEF Below
<1> QED BY <1>3

LEMMA MinProperties ==
  ASSUME NEW S \in SUBSET Nat, S # {}
  PROVE  Min(S) \in S /\ \A m \in S : Min(S) <= m
<1>1. \E n \in S : \A m \in S : n =< m
  BY NatMin
<1> QED BY <1>1, Zenon DEF Min

LEMMA MinIs ==
  ASSUME NEW S \in SUBSET Nat, NEW n \in S, \A m \in S : n <= m
  PROVE  Min(S) = n
<1>1. Min(S) \in S /\ Min(S) <= n
  BY MinProperties
<1>2. Min(S) \in Nat /\ n \in Nat /\ n <= Min(S)
  BY <1>1
<1> QED BY <1>1, <1>2

LEMMA MaxProperties ==
  ASSUME NEW n \in Nat, NEW S \in SUBSET (1 .. n), S # {}
  PROVE  Max(S) \in S /\ \A m \in S : m <= Max(S)
<1> DEFINE Rest == {n - m : m \in S}
<1>1. Rest \in SUBSET Nat /\ Rest # {}
  <2>1. \A m \in S : n - m \in Nat
    OBVIOUS
  <2> QED BY <2>1
<1>2. PICK r \in Rest : \A q \in Rest : r <= q
  BY <1>1, NatMin
<1>3. PICK x \in S : r = n - x
  BY <1>2
<1>4. \A m \in S : x >= m
  BY <1>2, <1>3
<1>5. Max(S) \in S /\ \A m \in S : Max(S) >= m
  BY <1>4, Zenon DEF Max
<1> QED BY <1>5

LEMMA MaxIs ==
  ASSUME NEW n \in Nat, NEW S \in SUBSET (1 .. n), NEW x \in S, \A m \in S : m <= x
  PROVE  Max(S) = x
<1>1. Max(S) \in S /\ x <= Max(S)
  BY MaxProperties
<1>2. Max(S) \in 1 .. n /\ x \in 1 .. n /\ Max(S) <= x
  BY <1>1
<1> QED BY <1>1, <1>2

LEMMA OneLess == \A n, c \in Nat : (n - 1) * c = n * c - c
OBVIOUS

-----------------------------------------------------------------------------
(* The operators of the log. *)

LEMMA NextPageIs ==
  ASSUME NEW r \in Pages
  PROVE  LET n == (r + 1) % NPages
         IN  n \in Pages /\ n # r /\ (n = 0 \/ n = r + 1)
<1>1. NPages \in Nat /\ NPages > 1 /\ r \in Nat /\ r < NPages
  BY PagesAssumption DEF Pages
<1>2. CASE r + 1 < NPages
  <2>1. (r + 1) % NPages = r + 1
    BY <1>1, <1>2
  <2> QED BY <1>1, <1>2, <2>1 DEF Pages
<1>3. CASE r + 1 = NPages
  <2>1. (r + 1) % NPages = 0
    BY <1>1, <1>3
  <2> QED BY <1>1, <1>3, <2>1 DEF Pages
<1> QED BY <1>1, <1>2, <1>3

LEMMA EntryCellsType ==
  ASSUME NEW k \in Keys
  PROVE  EntryCells(k) \in Nat /\ EntryCells(k) <= MaxCells /\ 1 <= EntryCells(k)
BY DataAssumption DEF EntryCells

LEMMA UsedType ==
  ASSUME NEW recs \in Seq(Record)
  PROVE  Used(recs) \in Nat
<1>1. CASE recs = <<>>
  BY <1>1 DEF Used
<1>2. CASE recs # <<>>
  <2>1. Len(recs) \in 1 .. Len(recs) /\ recs[Len(recs)] \in Record
    BY <1>2
  <2> DEFINE r == recs[Len(recs)]
  <2>2. r.at \in Nat /\ r.key \in Keys
    BY <2>1 DEF Record
  <2>3. RecordCells(r) \in Nat
    BY <2>2, EntryCellsType DEF RecordCells
  <2> QED BY <1>2, <2>2, <2>3 DEF Used
<1> QED BY <1>1, <1>2

LEMMA UsedAppend ==
  ASSUME NEW recs \in Seq(Record), NEW r \in Record
  PROVE  /\ Used(Append(recs, r)) = r.at + RecordCells(r)
         /\ RecordCells(r) \in Nat /\ 1 <= RecordCells(r)
<1> DEFINE new == Append(recs, r)
<1>1. new # <<>> /\ new[Len(new)] = r
  OBVIOUS
<1>2. r.key \in Keys
  BY DEF Record
<1> QED BY <1>1, <1>2, EntryCellsType DEF Used, RecordCells

LEMMA UsedLast ==
  ASSUME NEW recs \in Seq(Record)
  PROVE  /\ 1 <= Used(recs)
         /\ recs # <<>> => recs[Len(recs)].at \in Nat /\ recs[Len(recs)].at < Used(recs)
<1>1. CASE recs = <<>>
  BY <1>1 DEF Used
<1>2. CASE recs # <<>>
  <2> DEFINE r == recs[Len(recs)]
  <2>1. r \in Record
    BY <1>2
  <2>2. r.at \in Nat /\ r.key \in Keys
    BY <2>1 DEF Record
  <2>3. RecordCells(r) \in Nat /\ 1 <= RecordCells(r)
    BY <2>2, EntryCellsType DEF RecordCells
  <2> QED BY <1>2, <2>2, <2>3 DEF Used
<1> QED BY <1>1, <1>2

LEMMA FrontIs ==
  ASSUME NEW recs \in Seq(Record), recs # <<>>
  PROVE  /\ Front(recs) \in Seq(Record)
         /\ Len(Front(recs)) = Len(recs) - 1
         /\ \A i \in 1 .. Len(recs) - 1 : Front(recs)[i] = recs[i]
<1> DEFINE n == Len(recs) - 1
<1>1. n \in Nat /\ n <= Len(recs) /\ Front(recs) = SubSeq(recs, 1, n)
  BY DEF Front
<1> HIDE DEF n
<1>2. \A i \in 1 .. n : i \in 1 .. Len(recs)
  BY <1>1
<1>3. SubSeq(recs, 1, n) = [i \in 1 .. n |-> recs[i]]
  BY <1>1, <1>2
<1>4. \A i \in 1 .. n : recs[i] \in Record
  BY <1>2
<1>5. Front(recs) \in Seq(Record) /\ Len(Front(recs)) = n
  BY <1>1, <1>3, <1>4
<1> QED BY <1>1, <1>3, <1>5 DEF n

LEMMA FoundType ==
  ASSUME NEW recs \in Seq(Record), NEW k \in Keys
  PROVE  /\ Len(recs) \in Nat
         /\ Found(recs, k) \in SUBSET (1 .. Len(recs))
         /\ Found(recs, k) \in SUBSET Nat
BY DEF Found

LEMMA LatestType ==
  ASSUME NEW recs \in Seq(Record), NEW k \in Keys
  PROVE  IF Found(recs, k) = {} THEN Latest(recs, k) = NoValue
         ELSE Latest(recs, k) \in Values
<1>1. CASE Found(recs, k) = {}
  BY <1>1 DEF Latest
<1>2. CASE Found(recs, k) # {}
  <2>1. Max(Found(recs, k)) \in 1 .. Len(recs)
    BY <1>2, FoundType, MaxProperties
  <2>2. recs[Max(Found(recs, k))] \in Record
    BY <2>1
  <2> QED BY <1>2, <2>2 DEF Latest, Record
<1> QED BY <1>1, <1>2

(* A record that is not valid is not found. *)
LEMMA LatestAppend ==
  ASSUME NEW recs \in Seq(Record), NEW r \in Record, r.status # "valid",
         NEW k \in Keys
  PROVE  /\ Found(Append(recs, r), k) = Found(recs, k)
         /\ Latest(Append(recs, r), k) = Latest(recs, k)
<1>1. Found(Append(recs, r), k) = Found(recs, k)
  BY DEF Found
<1>2. CASE Found(recs, k) = {}
  BY <1>1, <1>2 DEF Latest
<1>3. CASE Found(recs, k) # {}
  <2>1. Max(Found(recs, k)) \in 1 .. Len(recs)
    BY <1>3, FoundType, MaxProperties
  <2>2. Append(recs, r)[Max(Found(recs, k))] = recs[Max(Found(recs, k))]
    BY <2>1
  <2> QED BY <1>1, <1>3, <2>2 DEF Latest
<1> QED BY <1>1, <1>2, <1>3

(* Nor is one whose header goes over that of a record that is not valid.   *)
LEMMA LatestOver ==
  ASSUME NEW recs \in Seq(Record), recs # <<>>, recs[Len(recs)].status # "valid",
         NEW r \in Record, r.status # "valid", NEW k \in Keys
  PROVE  Latest(Append(Front(recs), r), k) = Latest(recs, k)
<1> DEFINE n == Len(recs)
           new == Append(Front(recs), r)
<1>1. n \in Nat /\ n >= 1 /\ DOMAIN recs = 1 .. n
  OBVIOUS
<1>2. /\ DOMAIN new = 1 .. n /\ new[n] = r
      /\ \A i \in 1 .. n : i # n => new[i] = recs[i]
  <2>1. Front(recs) \in Seq(Record) /\ Len(Front(recs)) = n - 1
        /\ \A i \in 1 .. n - 1 : Front(recs)[i] = recs[i]
    BY FrontIs
  <2> HIDE DEF n
  <2> QED BY <1>1, <2>1
<1> HIDE DEF new, n
<1>3. Found(new, k) = Found(recs, k)
  <2>1. \A i \in 1 .. n : (new[i].status = "valid" /\ new[i].key = k)
                       <=> (recs[i].status = "valid" /\ recs[i].key = k)
    BY <1>1, <1>2 DEF n
  <2> QED BY <1>1, <1>2, <2>1 DEF Found
<1>4. CASE Found(recs, k) = {}
  BY <1>3, <1>4 DEF Latest, new
<1>5. CASE Found(recs, k) # {}
  <2>1. Max(Found(recs, k)) \in Found(recs, k)
    BY <1>5, FoundType, MaxProperties
  <2>2. Max(Found(recs, k)) \in 1 .. n /\ Max(Found(recs, k)) # n
    BY <1>1, <2>1 DEF Found, n
  <2>3. new[Max(Found(recs, k))] = recs[Max(Found(recs, k))]
    BY <1>2, <2>2
  <2> QED BY <1>3, <1>5, <2>3 DEF Latest, new
<1> QED BY <1>4, <1>5

(* The end of writeRecord: the record at the end becomes the last one of   *)
(* its key, and the records of the other keys stay.                        *)
MadeValid(recs) == [recs EXCEPT ![Len(recs)].status = "valid"]

LEMMA MadeValidIs ==
  ASSUME NEW recs \in Seq(Record), recs # <<>>, recs[Len(recs)].status # "valid"
  PROVE  /\ MadeValid(recs) \in Seq(Record)
         /\ recs[Len(recs)].status = "invalid" => Used(MadeValid(recs)) = Used(recs)
         /\ \A k \in Keys : Latest(MadeValid(recs), k) =
              IF k = recs[Len(recs)].key THEN recs[Len(recs)].val ELSE Latest(recs, k)
<1> DEFINE n == Len(recs)
           r == recs[n]
           v == [status |-> "valid", at |-> r.at, key |-> r.key, val |-> r.val]
           new == MadeValid(recs)
<1>1. n \in Nat /\ n \in 1 .. n /\ r \in Record
  OBVIOUS
<1>0. [r EXCEPT !.status = "valid"] = v /\ v \in Record
  BY <1>1 DEF Record
<1>a. new = [recs EXCEPT ![n] = v]
  BY <1>0 DEF MadeValid
<1> HIDE DEF new
<1>2. /\ new \in Seq(Record) /\ Len(new) = n /\ DOMAIN new = DOMAIN recs
      /\ DOMAIN recs = 1 .. n
  BY <1>0, <1>1, <1>a
<1>3. /\ new[n].status = "valid" /\ new[n].key = r.key /\ new[n].val = r.val
      /\ new[n].at = r.at
  BY <1>1, <1>a
<1>4. \A i \in 1 .. n : i # n => new[i] = recs[i]
  BY <1>1, <1>a
<1>5. r.status = "invalid" => Used(new) = Used(recs)
  <2>1. new # <<>>
    BY <1>1, <1>2
  <2>2. r.status = "invalid" => RecordCells(new[n]) = RecordCells(r)
    BY <1>3 DEF RecordCells
  <2> QED BY <1>2, <1>3, <2>1, <2>2 DEF Used
<1>6. ASSUME NEW k \in Keys
      PROVE  Latest(new, k) = IF k = r.key THEN r.val ELSE Latest(recs, k)
  <2>1. CASE k = r.key
    <3>1. n \in Found(new, k) /\ \A i \in Found(new, k) : i <= n
      BY <1>1, <1>2, <1>3, <2>1 DEF Found
    <3>2. Found(new, k) \in SUBSET (1 .. n)
      BY <1>2 DEF Found
    <3>3. Max(Found(new, k)) = n
      BY <1>1, <3>1, <3>2, MaxIs
    <3> QED BY <1>3, <2>1, <3>1, <3>3 DEF Latest
  <2>2. CASE k # r.key
    <3>1. Found(new, k) = Found(recs, k)
      BY <1>1, <1>2, <1>3, <1>4, <2>2 DEF Found
    <3>2. CASE Found(recs, k) = {}
      BY <2>2, <3>1, <3>2 DEF Latest
    <3>3. CASE Found(recs, k) # {}
      <4>1. Max(Found(recs, k)) \in Found(recs, k)
        BY <3>3, FoundType, MaxProperties
      <4>2. Max(Found(recs, k)) \in 1 .. n /\ Max(Found(recs, k)) # n
        BY <1>2, <2>2, <4>1 DEF Found
      <4>3. new[Max(Found(recs, k))] = recs[Max(Found(recs, k))]
        BY <1>4, <4>2
      <4> QED BY <2>2, <3>1, <3>3, <4>3 DEF Latest
    <3> QED BY <3>2, <3>3
  <2> QED BY <2>1, <2>2
<1> QED BY <1>2, <1>5, <1>6 DEF new

-----------------------------------------------------------------------------
(* The inductive invariant. *)

Changing == {"erase", "mark", "append", "validate", "activate", "retire"}

(* eeep_init would come back to the page reads are made in. *)
BootsHere == header[readPage] = "active" /\ \A p \in Active : readPage <= p

Requested ==
  /\ pc \in Changing => \E k \in Keys, v \in Values : pending = {<<k, v>>}
  /\ pc \in {"off", "idle"} => pending = {}

(* Outside the copy of a page change everything happens in one page. *)
Staying ==
  \/ pc \in {"idle", "erase", "mark"}
  \/ pc \in {"append", "validate"} /\ todo = {}

InPlace ==
  /\ Staying /\ ~ adrift => readPage = writePage /\ BootsHere
  /\ pc \in {"off", "idle", "erase", "activate", "retire"} => todo = {}
  /\ pc = "append" /\ todo = {} /\ ~ adrift =>
       writeAt + EntryCells(Current[1]) <= PageCells

(* After a failed page change writeAddr is in the page that came next.     *)
Adrift ==
  adrift =>
    /\ pc \in {"idle", "append", "validate", "spoilt"}
    /\ todo = {} /\ writePage = NextPage

(* writeAddr is at the end of the log of its page, or at the last record   *)
(* when the write of its header failed.                                    *)
AtEnd == writeAt = Used(log[writePage])

AtTorn ==
  LET recs == log[writePage]
  IN  recs # <<>> /\ recs[Len(recs)].status # "valid" /\ recs[Len(recs)].at = writeAt

Listed ==
  pc = "mark" =>
    /\ header[NextPage] = "erased" /\ log[NextPage] = <<>>
    /\ todo = LiveKeys(log[readPage])
    /\ Cardinality(todo) <= MaxEntries

Moving ==
  \/ pc \in {"append", "validate"} /\ todo # {}
  \/ pc \in {"activate", "retire"}

(* Cells the records still to copy may take. *)
ToCopy ==
  (IF pc = "validate" THEN Cardinality(todo) - 1 ELSE Cardinality(todo)) * MaxCells

Copy ==
  Moving =>
    /\ writePage = NextPage
    /\ header[readPage] = "active"
    /\ \A p \in Active : p = writePage \/ readPage <= p
    /\ header[writePage] = IF pc = "retire" THEN "active" ELSE "copying"
    /\ todo \subseteq LiveKeys(log[readPage])
    /\ \A k \in Keys \ todo : Latest(log[writePage], k) = Latest(log[readPage], k)
    /\ Used(log[writePage]) + ToCopy <= 1 + MaxEntries * MaxCells

WriteAddr ==
  /\ 1 <= writeAt
  /\ pc \in {"idle", "erase", "mark", "append"} => AtEnd \/ AtTorn
  /\ pc = "validate" \/ Moving => AtEnd

InRecord ==
  pc = "validate" =>
    LET recs == log[writePage]
    IN  /\ recs # <<>>
        /\ recs[Len(recs)].status = "invalid"
        /\ recs[Len(recs)].key = Current[1]
        /\ recs[Len(recs)].val = Current[2]

IInv ==
  /\ TypeOK /\ PagesHold
  /\ Requested /\ InPlace /\ Adrift /\ Listed /\ Copy /\ WriteAddr /\ InRecord

-----------------------------------------------------------------------------
LEMMA Cells ==
  /\ MaxCells \in Nat /\ MaxEntries \in Nat /\ PageCells \in Nat
  /\ MaxEntries * MaxCells \in Nat
  /\ 1 + MaxEntries * MaxCells + MaxCells <= PageCells
<1>1. \A n, c \in Nat : n * c \in Nat
  OBVIOUS
<1> QED BY <1>1, PageAssumption, DataAssumption

LEMMA CellsStep ==
  ASSUME NEW n \in Nat
  PROVE  /\ n * MaxCells \in Nat
         /\ n > 0 => n * MaxCells = (n - 1) * MaxCells + MaxCells
         /\ n > 0 => (n - 1) * MaxCells \in Nat
         /\ n <= MaxEntries => n * MaxCells <= MaxEntries * MaxCells
<1>1. \A a, c \in Nat : a * c \in Nat
  OBVIOUS
<1>2. n * MaxCells \in Nat /\ (n > 0 => (n - 1) * MaxCells \in Nat)
  BY <1>1, Cells
<1>3. n > 0 => n * MaxCells = (n - 1) * MaxCells + MaxCells
  BY OneLess, Cells, <1>2
<1>4. ASSUME n <= MaxEntries PROVE n * MaxCells <= MaxEntries * MaxCells
  <2>1. MaxEntries - n \in Nat
    BY <1>4, Cells
  <2>2. (MaxEntries - n) * MaxCells \in Nat
    BY <1>1, <2>1, Cells
  <2>3. \A a, b, c \in Nat : (a - b) * c = a * c - b * c
    OBVIOUS
  <2>4. (MaxEntries - n) * MaxCells = MaxEntries * MaxCells - n * MaxCells
    BY <2>3, Cells
  <2> QED BY <1>2, <2>2, <2>4, Cells
<1> QED BY <1>2, <1>3, <1>4

LEMMA LiveKeysFinite ==
  ASSUME NEW recs \in Seq(Record)
  PROVE  IsFiniteSet(LiveKeys(recs)) /\ Cardinality(LiveKeys(recs)) \in Nat
<1> DEFINE I == 1 .. Len(recs)
           T == {recs[i].key : i \in I}
           f == [i \in I |-> recs[i].key]
<1>1. IsFiniteSet(I)
  BY FS_Interval
<1>2. f \in Surjection(I, T)
  BY DEF Surjection
<1>3. IsFiniteSet(T)
  <2> HIDE DEF I, T, f
  <2> QED BY <1>1, <1>2, FS_Surjection
<1>4. LiveKeys(recs) \in SUBSET T
  BY DEF LiveKeys, Found
<1>5. IsFiniteSet(LiveKeys(recs))
  <2> HIDE DEF T
  <2> QED BY <1>3, <1>4, FS_Subset
<1> QED BY <1>5, FS_CardinalityType

LEMMA PagesFacts ==
  TypeOK => /\ Active \in SUBSET Nat /\ Active \subseteq Pages
            /\ NextPage \in Pages /\ NextPage # readPage
            /\ NextPage = 0 \/ NextPage = readPage + 1
            /\ Pages \subseteq Nat
<1> SUFFICES ASSUME TypeOK
             PROVE  /\ Active \in SUBSET Nat /\ Active \subseteq Pages
                    /\ NextPage \in Pages /\ NextPage # readPage
                    /\ NextPage = 0 \/ NextPage = readPage + 1
                    /\ Pages \subseteq Nat
  OBVIOUS
<1>1. Pages \subseteq Nat
  BY PagesAssumption DEF Pages
<1>2. readPage \in Pages
  BY DEF TypeOK
<1>3. NextPage \in Pages /\ NextPage # readPage
      /\ (NextPage = 0 \/ NextPage = readPage + 1)
  BY <1>2, NextPageIs DEF NextPage
<1>4. Active \subseteq Pages
  BY DEF Active
<1> QED BY <1>1, <1>3, <1>4

LEMMA NextKeyIn ==
  TypeOK /\ todo # {} /\ todo \subseteq LiveKeys(log[readPage]) => NextKey \in todo
<1> SUFFICES ASSUME TypeOK, todo # {}, todo \subseteq LiveKeys(log[readPage])
             PROVE  NextKey \in todo
  OBVIOUS
<1>1. log[readPage] \in Seq(Record)
  BY DEF TypeOK
<1>2. ASSUME NEW k \in todo PROVE First(k) \in Nat
  <2>1. k \in Keys /\ Found(log[readPage], k) # {}
    BY <1>2 DEF LiveKeys
  <2>2. First(k) \in Found(log[readPage], k)
    BY <1>1, <2>1, FoundType, MinProperties DEF First
  <2> QED BY <1>1, <2>1, <2>2, FoundType
<1> DEFINE S == {First(k) : k \in todo}
<1>3. S \in SUBSET Nat /\ S # {}
  BY <1>2
<1>4. PICK n \in S : \A m \in S : n <= m
  BY <1>3, NatMin
<1>5. \E k \in todo : \A j \in todo : First(k) <= First(j)
  BY <1>4
<1> QED BY <1>5, Zenon DEF NextKey

LEMMA CurrentIs ==
  TypeOK /\ Requested /\ Copy /\ pc \in {"append", "validate"} =>
    /\ Current[1] \in Keys /\ Current[2] \in Values
    /\ IF todo = {} THEN pending = {Current}
       ELSE /\ NextKey \in todo /\ Current[1] = NextKey
            /\ Current[2] = Latest(log[readPage], NextKey)
<1> SUFFICES ASSUME TypeOK, Requested, Copy, pc \in {"append", "validate"}
             PROVE  /\ Current[1] \in Keys /\ Current[2] \in Values
                    /\ IF todo = {} THEN pending = {Current}
                       ELSE /\ NextKey \in todo /\ Current[1] = NextKey
                            /\ Current[2] = Latest(log[readPage], NextKey)
  OBVIOUS
<1>1. CASE todo = {}
  <2>1. PICK k \in Keys, v \in Values : pending = {<<k, v>>}
    BY DEF Requested, Changing
  <2>2. Current = <<k, v>>
    BY <1>1, <2>1 DEF Current
  <2> QED BY <1>1, <2>1, <2>2
<1>2. CASE todo # {}
  <2>1. todo \subseteq LiveKeys(log[readPage])
    BY <1>2 DEF Copy, Moving
  <2>2. NextKey \in todo
    BY <1>2, <2>1, NextKeyIn
  <2>3. Current[1] = NextKey /\ Current[2] = Latest(log[readPage], NextKey)
    BY <1>2 DEF Current
  <2>4. NextKey \in Keys /\ Found(log[readPage], NextKey) # {}
    BY <2>1, <2>2 DEF LiveKeys
  <2>5. Latest(log[readPage], NextKey) \in Values
    BY <2>4, LatestType DEF TypeOK
  <2> QED BY <1>2, <2>2, <2>3, <2>4, <2>5
<1> QED BY <1>1, <1>2

(* NextKey, of any keys and records. *)
FirstOf(recs, keys) ==
  CHOOSE k \in keys : \A j \in keys : Min(Found(recs, k)) <= Min(Found(recs, j))

LEMMA CurrentSame ==
  ASSUME todo' = todo, pending' = pending, readPage' = readPage,
         todo # {} => log'[readPage] = log[readPage]
  PROVE  Current' = Current
<1>1. CASE todo = {}
  BY <1>1 DEF Current
<1>2. CASE todo # {}
  <2>1. log'[readPage'] = log[readPage]
    BY <1>2
  <2>2. /\ NextKey = FirstOf(log[readPage], todo)
        /\ NextKey' = FirstOf(log'[readPage'], todo')
    BY DEF NextKey, First, FirstOf
  <2>3. NextKey' = NextKey
    BY <2>1, <2>2
  <2> QED BY <1>2, <2>1, <2>3 DEF Current
<1> QED BY <1>1, <1>2

(* Whether a header is there already, in terms of the records.             *)
LEMMA TornIs ==
  ASSUME IInv, pc = "append"
  PROVE  /\ log[writePage] \in Seq(Record) /\ writeAt \in Nat /\ 1 <= writeAt
         /\ Torn => AtTorn
         /\ ~ Torn => AtEnd
         /\ writeAt <= Used(log[writePage])
<1>1. log[writePage] \in Seq(Record) /\ writeAt \in Nat /\ 1 <= writeAt
  BY DEF IInv, TypeOK, WriteAddr
<1>2. Used(log[writePage]) \in Nat
  BY <1>1, UsedType
<1>3. AtEnd \/ AtTorn
  BY DEF IInv, WriteAddr
<1>4. AtTorn => writeAt < Used(log[writePage])
  BY <1>1, UsedLast DEF AtTorn
<1> QED BY <1>1, <1>2, <1>3, <1>4 DEF Torn, AtEnd

(* The log after writeRecord has written a record it has not yet made      *)
(* valid: no reader sees a difference, and the page holds it.              *)
NewStatus(status) ==
  IF Torn /\ TornRecord.status = "invalid" THEN "invalid" ELSE status

NewRecord(status) ==
  [status |-> NewStatus(status), at |-> writeAt, key |-> Current[1], val |-> Current[2]]

Before == IF Torn THEN Front(log[writePage]) ELSE log[writePage]

LEMMA RoomIs ==
  ASSUME IInv, pc = "append", ~ Overprints
  PROVE  writeAt + EntryCells(Current[1]) <= PageCells
<1>0. /\ TypeOK /\ Requested /\ Copy /\ InPlace /\ Adrift /\ WriteAddr
  BY DEF IInv
<1>1. writeAt \in Nat /\ EntryCells(Current[1]) \in Nat /\ EntryCells(Current[1]) <= MaxCells
  BY <1>0, CurrentIs, EntryCellsType DEF TypeOK
<1>2. CASE adrift
  BY <1>1, <1>2, Cells DEF Overprints
<1>3. CASE ~ adrift /\ todo = {}
  BY <1>0, <1>3 DEF InPlace
<1>4. CASE todo # {}
  <2>1. /\ Used(log[writePage]) + ToCopy <= 1 + MaxEntries * MaxCells
        /\ todo \subseteq LiveKeys(log[readPage])
    BY <1>0, <1>4 DEF Copy, Moving
  <2>2. IsFiniteSet(todo) /\ Cardinality(todo) \in Nat /\ Cardinality(todo) > 0
    <3>1. IsFiniteSet(todo)
      BY <1>0, <2>1, LiveKeysFinite, FS_Subset DEF TypeOK
    <3> QED BY <1>4, <3>1, FS_CardinalityType, FS_EmptySet
  <2>3. ToCopy = Cardinality(todo) * MaxCells
    BY DEF ToCopy
  <2>4. ToCopy \in Nat /\ ToCopy >= MaxCells
    BY <2>2, <2>3, CellsStep, Cells
  <2>5. writeAt = Used(log[writePage])
    BY <1>0, <1>4 DEF WriteAddr, Moving, AtEnd
  <2> QED BY <1>1, <2>1, <2>4, <2>5, Cells
<1> QED BY <1>2, <1>3, <1>4

LEMMA WrittenIs ==
  ASSUME IInv, pc = "append", ~ Overprints, NEW status \in {"partial", "invalid"}
  PROVE  LET r == NewRecord(status)
             recs == Written(status)[writePage]
         IN  /\ r \in Record /\ r.status # "valid"
             /\ r.key = Current[1] /\ r.val = Current[2] /\ r.at = writeAt
             /\ status = "invalid" => r.status = "invalid"
             /\ Written(status) \in [Pages -> Seq(Record)]
             /\ recs # <<>> /\ recs[Len(recs)] = r
             /\ Used(recs) = writeAt + RecordCells(r)
             /\ \A p \in Pages : p # writePage => Written(status)[p] = log[p]
             /\ \A p \in Pages, k \in Keys :
                  Latest(Written(status)[p], k) = Latest(log[p], k)
             /\ \A p \in Pages : Used(Written(status)[p]) <= PageCells
<1> DEFINE r == NewRecord(status)
           w == writePage
<1>0. TypeOK /\ PagesHold /\ Requested /\ Copy /\ InPlace
  BY DEF IInv
<1>1. w \in Pages /\ log \in [Pages -> Seq(Record)] /\ log[w] \in Seq(Record)
  BY <1>0 DEF TypeOK
<1>2. Current[1] \in Keys /\ Current[2] \in Values
  BY <1>0, CurrentIs
<1>3. /\ NewStatus(status) \in {"partial", "invalid"}
      /\ status = "invalid" => NewStatus(status) = "invalid"
  BY DEF NewStatus
<1>4. /\ r \in Record /\ r.status = NewStatus(status) /\ r.at = writeAt
      /\ r.key = Current[1] /\ r.val = Current[2]
  BY <1>2, <1>3, TornIs DEF NewRecord, Record
<1>5. Written(status) = [log EXCEPT ![w] = Append(Before, r)]
  BY DEF Written, NewRecord, NewStatus, Before
<1> HIDE DEF r
<1>6. Before \in Seq(Record) /\ Append(Before, r) \in Seq(Record)
      /\ \A k \in Keys : Latest(Append(Before, r), k) = Latest(log[w], k)
  <2>1. CASE Torn
    <3>1. log[w] # <<>> /\ log[w][Len(log[w])].status # "valid"
      BY <2>1, TornIs DEF AtTorn
    <3>2. Before = Front(log[w]) /\ Before \in Seq(Record)
      BY <1>1, <2>1, <3>1, FrontIs DEF Before
    <3>3. \A k \in Keys : Latest(Append(Front(log[w]), r), k) = Latest(log[w], k)
      BY <1>1, <1>3, <1>4, <3>1, LatestOver
    <3> QED BY <1>4, <3>2, <3>3
  <2>2. CASE ~ Torn
    <3>1. Before = log[w]
      BY <2>2 DEF Before
    <3> QED BY <1>1, <1>3, <1>4, <3>1, LatestAppend
  <2> QED BY <2>1, <2>2
<1>7. /\ Written(status) \in [Pages -> Seq(Record)]
      /\ Written(status)[w] = Append(Before, r)
      /\ \A p \in Pages : p # w => Written(status)[p] = log[p]
  BY <1>1, <1>5, <1>6
<1>8. /\ Append(Before, r) # <<>>
      /\ Append(Before, r)[Len(Append(Before, r))] = r
  <2> HIDE DEF Before
  <2> QED BY <1>6, <1>4
<1>9. \A p \in Pages, k \in Keys : Latest(Written(status)[p], k) = Latest(log[p], k)
  <2> TAKE p \in Pages, k \in Keys
  <2> QED BY <1>6, <1>7
<1>10. /\ Used(Append(Before, r)) = writeAt + RecordCells(r)
       /\ RecordCells(r) \in Nat /\ RecordCells(r) <= EntryCells(Current[1])
       /\ EntryCells(Current[1]) \in Nat
       /\ writeAt \in Nat
  BY <1>2, <1>4, <1>6, UsedAppend, EntryCellsType, TornIs DEF RecordCells
<1>11. Used(Append(Before, r)) <= PageCells
  <2>1. writeAt + EntryCells(Current[1]) <= PageCells
    BY RoomIs
  <2> QED BY <1>10, <2>1, Cells
<1>12. \A p \in Pages : Used(Written(status)[p]) <= PageCells
  BY <1>0, <1>7, <1>11 DEF PagesHold
<1> QED BY <1>3, <1>4, <1>7, <1>8, <1>9, <1>10, <1>12 DEF r

(* The log after writeRecord has made its record valid. *)
LEMMA ValidatedIs ==
  ASSUME IInv, pc = "validate"
  PROVE  /\ Validated \in [Pages -> Seq(Record)]
         /\ \A p \in Pages : p # writePage => Validated[p] = log[p]
         /\ \A p \in Pages : Used(Validated[p]) = Used(log[p])
         /\ \A k \in Keys : Latest(Validated[writePage], k) =
              IF k = Current[1] THEN Current[2] ELSE Latest(log[writePage], k)
<1> DEFINE w == writePage
<1>1. w \in Pages /\ log \in [Pages -> Seq(Record)] /\ log[w] \in Seq(Record)
  BY DEF IInv, TypeOK
<1>2. /\ log[w] # <<>>
      /\ log[w][Len(log[w])].status = "invalid"
      /\ log[w][Len(log[w])].key = Current[1]
      /\ log[w][Len(log[w])].val = Current[2]
  BY DEF IInv, InRecord
<1>3. Validated = [log EXCEPT ![w] = MadeValid(log[w])]
  BY DEF Validated, MadeValid
<1>4. /\ MadeValid(log[w]) \in Seq(Record)
      /\ Used(MadeValid(log[w])) = Used(log[w])
      /\ \A k \in Keys : Latest(MadeValid(log[w]), k) =
            IF k = Current[1] THEN Current[2] ELSE Latest(log[w], k)
  BY <1>1, <1>2, MadeValidIs
<1>5. /\ Validated \in [Pages -> Seq(Record)]
      /\ Validated[w] = MadeValid(log[w])
      /\ \A p \in Pages : p # w => Validated[p] = log[p]
  BY <1>1, <1>3, <1>4
<1> QED BY <1>4, <1>5
-----------------------------------------------------------------------------
(* The initial states, and every action. *)

LEMMA EmptyLog == Used(<<>>) = 1 /\ \A k \in Keys : Latest(<<>>, k) = NoValue
BY DEF Used, Latest, Found

LEMMA InitInv == Init => IInv
<1> SUFFICES ASSUME Init PROVE IInv
  OBVIOUS
<1>1. 0 \in Pages
  BY PagesAssumption DEF Pages
<1>2. TypeOK
  BY <1>1, MaxWritesAssumption DEF Init, TypeOK
<1>3. PagesHold
  BY EmptyLog, Cells DEF Init, PagesHold
<1>4. Requested /\ InPlace /\ Adrift /\ Listed /\ Copy /\ WriteAddr /\ InRecord
  BY DEF Init, Requested, InPlace, Adrift, Listed, Copy, WriteAddr, InRecord, Changing,
         Staying, Moving
<1> QED BY <1>2, <1>3, <1>4 DEF IInv

LEMMA BootInv == IInv /\ Boot => IInv'
<1> SUFFICES ASSUME IInv, Boot PROVE IInv'
  OBVIOUS
<1> USE DEF IInv
<1>1. BootPage \in Active /\ \A p \in Active : BootPage <= p
  BY PagesFacts, MinProperties DEF Boot, BootPage
<1>2. /\ pc' = "idle" /\ readPage' = BootPage /\ writePage' = BootPage
      /\ writeAt' = Used(log[BootPage]) /\ adrift' = adrift
      /\ header' = header /\ log' = log /\ todo' = todo /\ pending' = pending
      /\ result' = result /\ writes' = writes /\ pc = "off"
  BY DEF Boot, flash
<1>3. /\ log[BootPage] \in Seq(Record) /\ BootPage \in Pages
      /\ Used(log[BootPage]) \in Nat /\ 1 <= Used(log[BootPage])
  BY <1>1, PagesFacts, UsedType, UsedLast DEF TypeOK
<1>4. TypeOK' /\ PagesHold'
  BY <1>2, <1>3 DEF TypeOK, PagesHold
<1>5. Requested' /\ Adrift'
  BY <1>2 DEF Requested, Changing, Adrift
<1>6. Active' = Active /\ BootsHere'
  BY <1>1, <1>2 DEF Active, BootsHere
<1>7. InPlace'
  BY <1>2, <1>6 DEF InPlace
<1>8. Listed' /\ Copy' /\ InRecord'
  BY <1>2 DEF Listed, Copy, InRecord, Moving
<1>9. WriteAddr'
  BY <1>2, <1>3 DEF WriteAddr, AtEnd, Moving
<1> QED BY <1>4, <1>5, <1>7, <1>8, <1>9

LEMMA FormatInv == IInv /\ Format => IInv'
<1> SUFFICES ASSUME IInv, Format PROVE IInv'
  OBVIOUS
<1> USE DEF IInv
<1>1. /\ pc = "off" /\ log' = [p \in Pages |-> <<>>]
      /\ readPage' = 0 /\ writePage' = 0 /\ writeAt' = 1 /\ adrift' = adrift
      /\ todo' = todo /\ pending' = pending /\ result' = result /\ writes' = writes
  BY DEF Format
<1>2. 0 \in Pages
  BY PagesAssumption DEF Pages
<1>3. \/ /\ header' = [p \in Pages |-> IF p = 0 THEN "active" ELSE "erased"]
         /\ pc' = "idle"
      \/ /\ header' = [p \in Pages |-> "erased"]
         /\ pc' = pc
  BY DEF Format
<1>4. TypeOK'
  <2>1. header' \in [Pages -> {"erased", "copying", "active", "inactive"}]
    BY <1>3
  <2>2. log' \in [Pages -> Seq(Record)]
    BY <1>1
  <2> QED BY <1>1, <1>2, <1>3, <2>1, <2>2 DEF TypeOK
<1>5. PagesHold'
  BY <1>1, EmptyLog, Cells DEF PagesHold
<1>6. Requested' /\ Adrift'
  BY <1>1, <1>3 DEF Requested, Changing, Adrift
<1>7. pc' = "idle" => BootsHere'
  <2>1. ASSUME pc' = "idle"
        PROVE  header'[0] = "active" /\ \A p \in Pages : header'[p] = "active" => p = 0
    BY <1>1, <1>2, <1>3, <2>1
  <2> QED BY <1>1, <1>2, <2>1 DEF BootsHere, Active
<1>8. InPlace'
  BY <1>1, <1>3, <1>7 DEF InPlace, Staying
<1>9. Listed' /\ Copy' /\ InRecord'
  BY <1>1, <1>3 DEF Listed, Copy, InRecord, Moving
<1>10. WriteAddr'
  <2>1. AtEnd'
    BY <1>1, <1>2, EmptyLog DEF AtEnd
  <2> QED BY <1>1, <1>3, <2>1 DEF WriteAddr, Moving
<1> QED BY <1>4, <1>5, <1>6, <1>8, <1>9, <1>10

(* Between two calls the page has room for what eeep_write appends without *)
(* a page change, unless one has failed; after that none begins.           *)
LEMMA Multiples ==
  \A n, c \in Nat : n >= 1 => (0 - n) * c = 0 - n * c /\ n * c \in Nat /\ n * c >= c
<1> SUFFICES ASSUME NEW n \in Nat, NEW c \in Nat, n >= 1
             PROVE  (0 - n) * c = 0 - n * c /\ n * c \in Nat /\ n * c >= c
  OBVIOUS
<1>1. (0 - n) * c = 0 - n * c /\ n * c \in Nat
  OBVIOUS
<1>2. n - 1 \in Nat
  OBVIOUS
<1>3. \A a, b \in Nat : a * b \in Nat
  OBVIOUS
<1>4. (n - 1) * c \in Nat
  BY <1>2, <1>3
<1>5. (n - 1) * c = n * c - c
  BY OneLess
<1> QED BY <1>1, <1>4, <1>5

LEMMA FullIs ==
  ASSUME IInv, pc = "idle", NEW k \in Keys
  PROVE  /\ adrift => ~ Full(k)
         /\ ~ adrift /\ ~ Full(k) => writeAt + EntryCells(k) <= PageCells
<1> DEFINE r == readPage
           w == writePage
<1>0. TypeOK /\ PagesHold /\ WriteAddr /\ Adrift /\ InPlace
  BY DEF IInv
<1>1. /\ r \in Nat /\ w \in Nat /\ writeAt \in Nat /\ log[w] \in Seq(Record)
      /\ w \in Pages /\ Used(log[w]) \in Nat /\ Used(log[w]) <= PageCells
  BY <1>0, PagesFacts, UsedType DEF TypeOK, PagesHold
<1>2. 1 <= writeAt /\ writeAt <= PageCells
  <2>1. AtEnd \/ AtTorn
    BY <1>0 DEF WriteAddr
  <2>2. AtTorn => writeAt < Used(log[w])
    BY <1>1, UsedLast DEF AtTorn
  <2>3. AtEnd => writeAt = Used(log[w])
    BY DEF AtEnd
  <2> QED BY <1>0, <1>1, <2>1, <2>2, <2>3, Cells DEF WriteAddr
<1>3. EntryCells(k) \in Nat /\ EntryCells(k) <= PageCells
  BY EntryCellsType, Cells
<1>4. CASE ~ adrift
  <2>1. w = r
    BY <1>0, <1>4 DEF InPlace, Staying
  <2>2. (w - r) * PageCells = 0
    BY <1>1, <2>1, Cells
  <2>3. FreeCells = PageCells - writeAt
    BY <1>1, <2>2, Cells DEF FreeCells
  <2> QED BY <1>1, <1>2, <1>3, <1>4, <2>3, Cells DEF Full
<1>5. CASE adrift
  <2>1. w = 0 \/ w = r + 1
    BY <1>0, <1>5, PagesFacts DEF Adrift
  <2>2. CASE w = r + 1
    <3>1. (w - r) * PageCells = PageCells
      BY <1>1, <2>2, Cells
    <3> QED BY <1>1, <1>2, <1>5, <3>1, Cells DEF Full, FreeCells
  <2>3. CASE w = 0 /\ w # r
    <3>1. r >= 1
      BY <1>1, <2>3
    <3> DEFINE m == r * PageCells
    <3>2. (0 - r) * PageCells = 0 - m /\ m \in Nat /\ m >= PageCells
      BY <1>1, <3>1, Multiples, Cells
    <3>3. (w - r) * PageCells = 0 - m
      BY <2>3, <3>2
    <3> HIDE DEF m
    <3>4. FreeCells = PageCells - ((0 - m) + writeAt)
      BY <3>3 DEF FreeCells
    <3>5. FreeCells >= PageCells /\ FreeCells \in Int
      BY <1>1, <1>2, <3>2, <3>4, Cells
    <3> QED BY <1>3, <1>5, <3>5, Cells DEF Full
  <2>4. w # r
    BY <1>0, <1>5, PagesFacts DEF Adrift
  <2> QED BY <2>1, <2>2, <2>3, <2>4
<1> QED BY <1>4, <1>5

LEMMA WriteInv ==
  ASSUME NEW k \in Keys, NEW v \in Values
  PROVE  IInv /\ Write(k, v) => IInv'
<1> SUFFICES ASSUME IInv, Write(k, v) PROVE IInv'
  OBVIOUS
<1> USE DEF IInv
<1>1. /\ pc = "idle" /\ writes < MaxWrites /\ writes' = writes + 1
      /\ pending' = {<<k, v>>} /\ result' = "none"
      /\ header' = header /\ log' = log
      /\ readPage' = readPage /\ writePage' = writePage /\ writeAt' = writeAt
      /\ adrift' = adrift /\ todo' = todo
  BY DEF Write, flash, addresses
<1>2. pc' \in {"erase", "append"} /\ (pc' = "erase" <=> Full(k))
  BY DEF Write
<1>3. todo = {} /\ (~ adrift => readPage = writePage /\ BootsHere)
  BY <1>1 DEF InPlace, Staying
<1>4. TypeOK'
  BY <1>1, <1>2, MaxWritesAssumption DEF TypeOK
<1>5. PagesHold'
  BY <1>1 DEF PagesHold
<1>6. Requested'
  BY <1>1, <1>2 DEF Requested, Changing
<1>7. Active' = Active /\ BootsHere' = BootsHere /\ NextPage' = NextPage
  BY <1>1 DEF Active, BootsHere, NextPage
<1>8. /\ adrift => pc' = "append"
      /\ ~ adrift /\ pc' = "append" => writeAt + EntryCells(k) <= PageCells
  BY <1>1, <1>2, FullIs
<1>9. Current'[1] = k
  <2>1. Current' = <<k, v>>
    BY <1>1, <1>3 DEF Current
  <2> QED BY <2>1
<1>10. InPlace'
  BY <1>1, <1>2, <1>3, <1>7, <1>8, <1>9 DEF InPlace, Staying
<1>11. Listed' /\ Copy' /\ InRecord'
  BY <1>1, <1>2, <1>3 DEF Listed, Copy, InRecord, Moving
<1>12. Adrift'
  BY <1>1, <1>7, <1>8 DEF Adrift
<1>13. WriteAddr'
  <2>1. AtEnd' = AtEnd /\ AtTorn' = AtTorn
    BY <1>1 DEF AtEnd, AtTorn
  <2> QED BY <1>1, <1>2, <1>3, <2>1 DEF WriteAddr, Moving
<1> QED BY <1>4, <1>5, <1>6, <1>10, <1>11, <1>12, <1>13

(* The erasure of the page that comes next, as Erase and its failure do.   *)
NextErased ==
  /\ header' = [header EXCEPT ![NextPage] = "erased"]
  /\ log' = [log EXCEPT ![NextPage] = <<>>]

LEMMA ErasedIs ==
  ASSUME IInv, pc = "erase", NextErased, readPage' = readPage
  PROVE  /\ header' \in [Pages -> {"erased", "copying", "active", "inactive"}]
         /\ log' \in [Pages -> Seq(Record)]
         /\ header'[NextPage] = "erased" /\ log'[NextPage] = <<>>
         /\ log'[readPage] = log[readPage]
         /\ header'[readPage] = "active" /\ Active' \subseteq Active
         /\ PagesHold' /\ BootsHere' /\ NextPage' = NextPage
<1> USE DEF IInv
<1>1. /\ NextPage \in Pages /\ NextPage # readPage /\ readPage \in Pages
      /\ header \in [Pages -> {"erased", "copying", "active", "inactive"}]
      /\ log \in [Pages -> Seq(Record)]
  BY PagesFacts DEF TypeOK
<1>2. BootsHere
  BY DEF InPlace, Staying, Adrift
<1>3. /\ header' \in [Pages -> {"erased", "copying", "active", "inactive"}]
      /\ log' \in [Pages -> Seq(Record)]
      /\ header'[NextPage] = "erased" /\ log'[NextPage] = <<>>
      /\ \A p \in Pages : p # NextPage => header'[p] = header[p] /\ log'[p] = log[p]
  BY <1>1 DEF NextErased
<1>4. Active' \subseteq Active
  BY <1>1, <1>3 DEF Active
<1>5. BootsHere'
  BY <1>1, <1>2, <1>3, <1>4 DEF BootsHere
<1>6. PagesHold'
  <2>1. 1 <= PageCells
    BY Cells
  <2>2. ASSUME NEW p \in Pages PROVE Used(log'[p]) <= PageCells
    <3>1. CASE p = NextPage
      BY <1>3, <2>1, <3>1, EmptyLog
    <3>2. CASE p # NextPage
      BY <1>3, <3>2 DEF PagesHold
    <3> QED BY <3>1, <3>2
  <2> QED BY <2>2 DEF PagesHold
<1>7. NextPage' = NextPage
  BY DEF NextPage
<1> QED BY <1>1, <1>2, <1>3, <1>4, <1>5, <1>6, <1>7 DEF BootsHere

LEMMA EraseInv == IInv /\ Erase => IInv'
<1> SUFFICES ASSUME IInv, Erase PROVE IInv'
  OBVIOUS
<1> USE DEF IInv
<1>1. /\ pc = "erase" /\ NextErased
      /\ readPage' = readPage /\ writePage' = writePage /\ writeAt' = writeAt
      /\ adrift' = adrift /\ writes' = writes
  BY DEF Erase, NextErased, addresses
<1>2. ~ adrift /\ readPage = writePage /\ BootsHere /\ todo = {}
  BY <1>1 DEF InPlace, Staying, Adrift
<1> DEFINE live == LiveKeys(log[readPage])
<1>4. \/ /\ pc' = "idle" /\ result' = "error" /\ todo' = {} /\ pending' = {}
      \/ /\ ~ (Cardinality(live) > MaxEntries)
         /\ todo' = live /\ pc' = "mark" /\ pending' = pending /\ result' = result
  BY DEF Erase, Fail
<1>5. Cardinality(live) \in Nat
  BY LiveKeysFinite DEF TypeOK
<1>6. live \subseteq Keys
  BY DEF LiveKeys
<1> HIDE DEF live
<1>7. TypeOK'
  BY <1>1, <1>4, <1>6, ErasedIs DEF TypeOK
<1>8. PagesHold' /\ BootsHere'
  BY <1>1, ErasedIs
<1>9. Requested' /\ Adrift'
  BY <1>1, <1>2, <1>4 DEF Requested, Changing, Adrift
<1>10. InPlace'
  BY <1>1, <1>2, <1>4, <1>8 DEF InPlace, Staying
<1>11. Listed'
  <2> SUFFICES ASSUME pc' = "mark"
               PROVE  /\ header'[NextPage'] = "erased" /\ log'[NextPage'] = <<>>
                      /\ todo' = LiveKeys(log'[readPage'])
                      /\ Cardinality(todo') <= MaxEntries
    BY DEF Listed, LiveKeys
  <2>1. todo' = live /\ ~ (Cardinality(live) > MaxEntries)
    BY <1>4
  <2> QED BY <1>1, <1>5, <2>1, ErasedIs, Cells DEF live
<1>12. Copy' /\ InRecord'
  BY <1>1, <1>4 DEF Copy, InRecord, Moving
<1>13. WriteAddr'
  <2>1. log'[writePage'] = log[writePage]
    BY <1>1, <1>2, ErasedIs
  <2>2. AtEnd' = AtEnd /\ AtTorn' = AtTorn
    BY <1>1, <2>1 DEF AtEnd, AtTorn
  <2> QED BY <1>1, <1>4, <2>2 DEF WriteAddr, Moving
<1> QED BY <1>7, <1>8, <1>9, <1>10, <1>11, <1>12, <1>13

LEMMA MarkInv == IInv /\ Mark => IInv'
<1> SUFFICES ASSUME IInv, Mark PROVE IInv'
  OBVIOUS
<1> USE DEF IInv
<1>1. /\ pc = "mark" /\ writePage' = NextPage /\ writeAt' = 1 /\ adrift' = adrift
      /\ header' = [header EXCEPT ![NextPage] = "copying"]
      /\ pc' = IF todo = {} THEN "activate" ELSE "append"
      /\ log' = log /\ readPage' = readPage /\ pending' = pending
      /\ todo' = todo /\ result' = result /\ writes' = writes
  BY DEF Mark
<1>2. /\ NextPage \in Pages /\ NextPage # readPage /\ readPage \in Pages
      /\ header \in [Pages -> {"erased", "copying", "active", "inactive"}]
      /\ log[readPage] \in Seq(Record)
  BY PagesFacts DEF TypeOK
<1>3. /\ header[NextPage] = "erased" /\ log[NextPage] = <<>>
      /\ todo = LiveKeys(log[readPage]) /\ Cardinality(todo) <= MaxEntries
  BY <1>1 DEF Listed
<1>4. ~ adrift /\ BootsHere
  BY <1>1 DEF InPlace, Staying, Adrift
<1>5. TypeOK'
  BY <1>1, <1>2 DEF TypeOK
<1>6. PagesHold'
  BY <1>1 DEF PagesHold
<1>7. Requested' /\ Adrift'
  BY <1>1, <1>4 DEF Requested, Changing, Adrift
<1>8. InPlace'
  BY <1>1 DEF InPlace, Staying
<1>9. Listed' /\ InRecord'
  BY <1>1 DEF Listed, InRecord
<1>10. header'[NextPage] = "copying" /\ header'[readPage] = "active" /\ Active' = Active
  BY <1>1, <1>2, <1>3, <1>4 DEF Active, BootsHere
<1>11. \A k \in Keys \ todo : Latest(log[NextPage], k) = Latest(log[readPage], k)
  BY <1>3, EmptyLog DEF LiveKeys, Latest
<1>12. Used(log[NextPage]) + Cardinality(todo) * MaxCells <= 1 + MaxEntries * MaxCells
  <2>1. Cardinality(todo) \in Nat
    BY <1>2, <1>3, LiveKeysFinite
  <2> QED BY <1>3, <2>1, EmptyLog, CellsStep, Cells
<1>13. ToCopy' = Cardinality(todo) * MaxCells
  BY <1>1 DEF ToCopy
<1>14. NextPage' = NextPage
  BY <1>1 DEF NextPage
<1>15. LiveKeys(log[readPage])' = LiveKeys(log[readPage])
  BY <1>1 DEF LiveKeys
<1>16. Copy'
  <2>1. /\ writePage' = NextPage' /\ header'[readPage'] = "active"
        /\ \A p \in Active' : p = writePage' \/ readPage' <= p
        /\ header'[writePage'] = (IF pc' = "retire" THEN "active" ELSE "copying")
    BY <1>1, <1>4, <1>10, <1>14 DEF BootsHere
  <2>2. /\ todo' \subseteq LiveKeys(log'[readPage'])
        /\ \A k \in Keys \ todo' : Latest(log'[writePage'], k) = Latest(log'[readPage'], k)
        /\ Used(log'[writePage']) + ToCopy' <= 1 + MaxEntries * MaxCells
    BY <1>1, <1>3, <1>11, <1>12, <1>13
  <2> QED BY <2>1, <2>2 DEF Copy
<1>17. WriteAddr'
  <2>1. AtEnd'
    BY <1>1, <1>3, EmptyLog DEF AtEnd
  <2> QED BY <1>1, <2>1 DEF WriteAddr
<1> QED BY <1>5, <1>6, <1>7, <1>8, <1>9, <1>16, <1>17

LEMMA AppendInv == IInv /\ AppendRecord => IInv'
<1> SUFFICES ASSUME IInv, AppendRecord PROVE IInv'
  OBVIOUS
<1> USE DEF IInv
<1> DEFINE r == NewRecord("invalid")
           recs == log'[writePage]
           c == EntryCells(Current[1])
<1>1. /\ pc = "append" /\ ~ Overprints /\ log' = Written("invalid") /\ pc' = "validate"
      /\ header' = header /\ readPage' = readPage /\ writePage' = writePage
      /\ writeAt' = writeAt + c /\ adrift' = adrift
      /\ pending' = pending /\ todo' = todo /\ result' = result /\ writes' = writes
  BY DEF AppendRecord, AppendStatus
<1>2. /\ r \in Record /\ r.status = "invalid"
      /\ r.key = Current[1] /\ r.val = Current[2] /\ r.at = writeAt
      /\ log' \in [Pages -> Seq(Record)]
      /\ recs # <<>> /\ recs[Len(recs)] = r
      /\ Used(recs) = writeAt + RecordCells(r)
      /\ \A p \in Pages : p # writePage => log'[p] = log[p]
      /\ \A p \in Pages, k \in Keys : Latest(log'[p], k) = Latest(log[p], k)
      /\ \A p \in Pages : Used(log'[p]) <= PageCells
  BY <1>1, WrittenIs
<1>a. RecordCells(r) = c
  BY <1>2 DEF RecordCells
<1> HIDE DEF r, recs
<1>3. /\ writePage \in Pages /\ readPage \in Pages /\ writeAt \in Nat
      /\ log[writePage] \in Seq(Record)
      /\ c \in Nat /\ c <= MaxCells
  BY <1>1, CurrentIs, EntryCellsType DEF TypeOK
<1> HIDE DEF c
<1>4. todo # {} => /\ writePage = NextPage /\ readPage # writePage
                   /\ log'[readPage] = log[readPage]
  BY <1>1, <1>2, <1>3, PagesFacts DEF Copy, Moving
<1>5. Current' = Current
  BY <1>1, <1>4, CurrentSame
<1>6. TypeOK'
  BY <1>1, <1>2, <1>3 DEF TypeOK
<1>7. PagesHold'
  BY <1>2 DEF PagesHold
<1>8. Requested'
  BY <1>1 DEF Requested, Changing
<1>9. Active' = Active /\ NextPage' = NextPage
  BY <1>1 DEF Active, NextPage
<1>10. InPlace' /\ Adrift'
  <2>1. Staying' => Staying
    BY <1>1 DEF Staying
  <2> QED BY <1>1, <1>9, <2>1 DEF InPlace, BootsHere, Adrift
<1>11. Listed'
  BY <1>1 DEF Listed
<1>12. InRecord'
  BY <1>1, <1>2, <1>5 DEF InRecord, recs
<1>13. AtEnd'
  BY <1>1, <1>2, <1>a DEF AtEnd, recs
<1>14. WriteAddr'
  BY <1>1, <1>3, <1>13 DEF WriteAddr
<1>15. Copy'
  <2> SUFFICES ASSUME todo # {} PROVE Copy'
    BY <1>1 DEF Copy, Moving
  <2>1. /\ writePage = NextPage /\ header[readPage] = "active"
        /\ \A p \in Active : p = writePage \/ readPage <= p
        /\ header[writePage] = "copying"
        /\ todo \subseteq LiveKeys(log[readPage])
        /\ \A k \in Keys \ todo : Latest(log[writePage], k) = Latest(log[readPage], k)
        /\ Used(log[writePage]) + ToCopy <= 1 + MaxEntries * MaxCells
        /\ writeAt = Used(log[writePage])
    BY <1>1 DEF Copy, Moving, WriteAddr, AtEnd
  <2>2. todo' \subseteq LiveKeys(log'[readPage'])
    BY <1>1, <1>4, <2>1
  <2>3. \A k \in Keys \ todo' : Latest(log'[writePage'], k) = Latest(log'[readPage'], k)
    BY <1>1, <1>2, <1>3, <2>1
  <2>4. Used(log'[writePage']) + ToCopy' <= 1 + MaxEntries * MaxCells
    <3>1. IsFiniteSet(todo) /\ Cardinality(todo) \in Nat /\ Cardinality(todo) > 0
      <4>1. IsFiniteSet(todo)
        BY <2>1, LiveKeysFinite, FS_Subset DEF TypeOK
      <4> QED BY <4>1, FS_CardinalityType, FS_EmptySet
    <3> DEFINE n == Cardinality(todo)
               b == Used(recs)
    <3>2. ToCopy = n * MaxCells /\ ToCopy' = (n - 1) * MaxCells
      BY <1>1 DEF ToCopy
    <3>3. n * MaxCells = (n - 1) * MaxCells + MaxCells /\ (n - 1) * MaxCells \in Nat
      BY <3>1, CellsStep
    <3>4. b = writeAt + c /\ writeAt + n * MaxCells <= 1 + MaxEntries * MaxCells
      BY <1>2, <1>a, <2>1, <3>2
    <3> HIDE DEF n, b
    <3>5. b + (n - 1) * MaxCells <= 1 + MaxEntries * MaxCells
      BY <1>3, <3>3, <3>4, Cells
    <3> QED BY <1>1, <3>2, <3>5 DEF b, recs
  <2> QED BY <1>1, <1>9, <2>1, <2>2, <2>3, <2>4 DEF Copy
<1> QED BY <1>6, <1>7, <1>8, <1>10, <1>11, <1>12, <1>14, <1>15

LEMMA OverprintInv == IInv /\ Overprint => IInv'
<1> SUFFICES ASSUME IInv, Overprint PROVE IInv'
  OBVIOUS
<1> USE DEF IInv
<1>1. /\ pc = "append" /\ pc' = "spoilt" /\ header' = header /\ log' = log
      /\ readPage' = readPage /\ writePage' = writePage /\ writeAt' = writeAt
      /\ adrift' = adrift /\ pending' = pending /\ todo' = todo
      /\ result' = result /\ writes' = writes
  BY DEF Overprint, flash, addresses
<1>2. TypeOK' /\ PagesHold'
  BY <1>1 DEF TypeOK, PagesHold
<1>3. Requested' /\ InPlace' /\ Listed' /\ Copy' /\ InRecord'
  BY <1>1 DEF Requested, Changing, InPlace, Staying, Listed, Copy, Moving, InRecord
<1>4. NextPage' = NextPage
  BY <1>1 DEF NextPage
<1>5. Adrift' /\ WriteAddr'
  BY <1>1, <1>4 DEF Adrift, WriteAddr, Moving
<1> QED BY <1>2, <1>3, <1>5

LEMMA ValidateInv == IInv /\ Validate => IInv'
<1> SUFFICES ASSUME IInv, Validate PROVE IInv'
  OBVIOUS
<1> USE DEF IInv
<1>1. /\ pc = "validate" /\ log' = Validated
      /\ header' = header /\ readPage' = readPage /\ writePage' = writePage
      /\ writeAt' = writeAt /\ adrift' = adrift /\ writes' = writes
  BY DEF Validate, addresses
<1>2. /\ log' \in [Pages -> Seq(Record)]
      /\ \A p \in Pages : p # writePage => log'[p] = log[p]
      /\ \A p \in Pages : Used(log'[p]) = Used(log[p])
      /\ \A k \in Keys : Latest(log'[writePage], k) =
           IF k = Current[1] THEN Current[2] ELSE Latest(log[writePage], k)
  BY <1>1, ValidatedIs
<1>3. PagesHold'
  BY <1>2 DEF PagesHold
<1>4. Active' = Active /\ NextPage' = NextPage
  BY <1>1 DEF Active, NextPage
<1>a. WriteAddr'
  <2>1. AtEnd'
    BY <1>1, <1>2 DEF WriteAddr, AtEnd, TypeOK
  <2> QED BY <1>1, <2>1 DEF WriteAddr
<1>5. CASE todo = {}
  <2>1. /\ pc' = "idle" /\ pending' = {} /\ result' = "ok" /\ todo' = todo
    BY <1>5 DEF Validate
  <2>2. ~ adrift => readPage = writePage /\ BootsHere
    BY <1>1, <1>5 DEF InPlace, Staying
  <2>3. TypeOK'
    BY <1>1, <1>2, <2>1 DEF TypeOK
  <2>4. Requested' /\ Listed' /\ Copy' /\ InRecord'
    BY <1>5, <2>1 DEF Requested, Changing, Listed, Copy, Moving, InRecord
  <2>5. InPlace' /\ Adrift'
    BY <1>1, <1>4, <1>5, <2>1, <2>2 DEF InPlace, BootsHere, Adrift
  <2> QED BY <1>3, <1>a, <2>3, <2>4, <2>5
<1>6. CASE todo # {}
  <2>1. /\ todo' = todo \ {NextKey} /\ pending' = pending /\ result' = result
        /\ pc' = IF todo = {NextKey} THEN "activate" ELSE "append"
    BY <1>6 DEF Validate
  <2>2. /\ writePage = NextPage /\ header[readPage] = "active"
        /\ \A p \in Active : p = writePage \/ readPage <= p
        /\ header[writePage] = "copying"
        /\ todo \subseteq LiveKeys(log[readPage])
        /\ \A k \in Keys \ todo : Latest(log[writePage], k) = Latest(log[readPage], k)
        /\ Used(log[writePage]) + ToCopy <= 1 + MaxEntries * MaxCells
    BY <1>1, <1>6 DEF Copy, Moving
  <2>3. /\ NextKey \in todo /\ Current[1] = NextKey
        /\ Current[2] = Latest(log[readPage], NextKey)
    BY <1>1, <1>6, CurrentIs
  <2>4. todo' = {} <=> todo = {NextKey}
    BY <2>1, <2>3
  <2>5. /\ readPage \in Pages /\ writePage \in Pages /\ readPage # writePage
        /\ log'[readPage] = log[readPage]
    BY <1>2, <2>2, PagesFacts DEF TypeOK
  <2>6. TypeOK'
    BY <1>1, <1>2, <2>1 DEF TypeOK
  <2>7. Requested'
    BY <1>1, <2>1 DEF Requested, Changing
  <2>8. InPlace' /\ Adrift'
    BY <1>1, <1>6, <2>1, <2>4 DEF InPlace, Staying, Adrift
  <2>9. Listed' /\ InRecord'
    BY <2>1 DEF Listed, InRecord
  <2>10. \A k \in Keys \ todo' : Latest(log'[writePage'], k) = Latest(log'[readPage'], k)
    <3> SUFFICES ASSUME NEW k \in Keys, k \notin todo \/ k = NextKey
                 PROVE  Latest(log'[writePage], k) = Latest(log[readPage], k)
      BY <1>1, <2>1, <2>5
    <3>1. CASE k = NextKey
      BY <1>2, <2>3, <3>1
    <3>2. CASE k # NextKey
      BY <1>2, <2>2, <2>3, <3>2
    <3> QED BY <3>1, <3>2
  <2>11. Used(log'[writePage']) + ToCopy' <= 1 + MaxEntries * MaxCells
    <3>1. IsFiniteSet(todo)
      BY <2>2, <2>5, LiveKeysFinite, FS_Subset DEF TypeOK
    <3>2. Cardinality(todo') = Cardinality(todo) - 1
      BY <2>1, <2>3, <3>1, FS_RemoveElement
    <3>3. ToCopy = (Cardinality(todo) - 1) * MaxCells
          /\ ToCopy' = Cardinality(todo') * MaxCells
      BY <1>1, <2>1 DEF ToCopy
    <3> QED BY <1>1, <1>2, <2>2, <2>5, <3>2, <3>3
  <2>12. todo' \subseteq LiveKeys(log'[readPage'])
    BY <1>1, <2>1, <2>2, <2>5
  <2>13. Copy'
    BY <1>1, <1>4, <2>1, <2>2, <2>10, <2>11, <2>12 DEF Copy
  <2> QED BY <1>3, <1>a, <2>6, <2>7, <2>8, <2>9, <2>13
<1> QED BY <1>5, <1>6

(* What a page change has reached when everything is copied. *)
LEMMA CopiedIs ==
  ASSUME IInv, pc \in {"activate", "retire"}
  PROVE  /\ todo = {} /\ writePage = NextPage /\ writePage # readPage
         /\ writePage \in Pages /\ readPage \in Pages
         /\ writePage = 0 \/ writePage = readPage + 1
         /\ header[readPage] = "active"
         /\ \A p \in Active : p = writePage \/ readPage <= p
         /\ header[writePage] = IF pc = "retire" THEN "active" ELSE "copying"
         /\ \A k \in Keys : Latest(log[writePage], k) = Latest(log[readPage], k)
         /\ ~ adrift /\ AtEnd /\ writeAt \in Nat
         /\ writeAt <= 1 + MaxEntries * MaxCells
<1> USE DEF IInv
<1>0. todo = {} /\ ~ adrift
  BY DEF InPlace, Adrift
<1>a. AtEnd /\ writeAt \in Nat
  BY DEF WriteAddr, Moving, TypeOK
<1>1. todo = {} /\ ~ adrift /\ AtEnd /\ writeAt \in Nat
  BY <1>0, <1>a
<1>2. ToCopy = 0
  <2>1. Cardinality(todo) = 0
    BY <1>1, FS_EmptySet
  <2>2. 0 * MaxCells = 0
    BY Cells
  <2> QED BY <2>1, <2>2 DEF ToCopy
<1>3. writeAt = Used(log[writePage])
  BY <1>1 DEF AtEnd
<1>4. writeAt <= 1 + MaxEntries * MaxCells
  BY <1>1, <1>2, <1>3 DEF Copy, Moving
<1>5. /\ writePage = NextPage /\ header[readPage] = "active"
      /\ \A p \in Active : p = writePage \/ readPage <= p
      /\ header[writePage] = (IF pc = "retire" THEN "active" ELSE "copying")
      /\ \A k \in Keys : Latest(log[writePage], k) = Latest(log[readPage], k)
  BY <1>1 DEF Copy, Moving
<1>6. /\ writePage # readPage /\ writePage \in Pages /\ readPage \in Pages
      /\ writePage = 0 \/ writePage = readPage + 1
  BY <1>5, PagesFacts DEF TypeOK
<1> QED BY <1>1, <1>4, <1>5, <1>6

LEMMA ActivateInv == IInv /\ Activate => IInv'
<1> SUFFICES ASSUME IInv, Activate PROVE IInv'
  OBVIOUS
<1> USE DEF IInv
<1>1. /\ pc = "activate" /\ pc' = "retire"
      /\ header' = [header EXCEPT ![writePage] = "active"]
      /\ log' = log /\ readPage' = readPage /\ writePage' = writePage
      /\ writeAt' = writeAt /\ adrift' = adrift
      /\ pending' = pending /\ todo' = todo /\ result' = result /\ writes' = writes
  BY DEF Activate, addresses
<1>2. TypeOK' /\ PagesHold' /\ Requested'
  BY <1>1 DEF TypeOK, PagesHold, Requested, Changing
<1>3. Listed' /\ InRecord'
  BY <1>1 DEF Listed, InRecord
<1>4. InPlace' /\ Adrift'
  BY <1>1, CopiedIs DEF InPlace, Staying, Adrift
<1>5. /\ header'[writePage] = "active" /\ header'[readPage] = "active"
      /\ \A p \in Active' : p = writePage \/ p \in Active
  BY <1>1, CopiedIs DEF TypeOK, Active
<1>6. NextPage' = NextPage /\ ToCopy' = ToCopy
  BY <1>1 DEF NextPage, ToCopy
<1>7. Copy'
  <2>1. /\ writePage' = NextPage' /\ header'[readPage'] = "active"
        /\ \A p \in Active' : p = writePage' \/ readPage' <= p
        /\ header'[writePage'] = (IF pc' = "retire" THEN "active" ELSE "copying")
    BY <1>1, <1>5, <1>6, CopiedIs
  <2>2. /\ todo' \subseteq LiveKeys(log'[readPage'])
        /\ \A k \in Keys \ todo' : Latest(log'[writePage'], k) = Latest(log'[readPage'], k)
        /\ Used(log'[writePage']) + ToCopy' <= 1 + MaxEntries * MaxCells
    BY <1>1, <1>6 DEF Copy, Moving
  <2> QED BY <2>1, <2>2 DEF Copy
<1>8. WriteAddr'
  <2>1. AtEnd'
    BY <1>1, CopiedIs DEF AtEnd
  <2> QED BY <1>1, <2>1 DEF WriteAddr
<1> QED BY <1>2, <1>3, <1>4, <1>7, <1>8

LEMMA RetireInv == IInv /\ Retire => IInv'
<1> SUFFICES ASSUME IInv, Retire PROVE IInv'
  OBVIOUS
<1> USE DEF IInv
<1>1. /\ pc = "retire" /\ pc' = "append"
      /\ header' = [header EXCEPT ![readPage] = "inactive"]
      /\ log' = log /\ readPage' = writePage /\ writePage' = writePage
      /\ writeAt' = writeAt /\ adrift' = adrift
      /\ pending' = pending /\ todo' = todo /\ result' = result /\ writes' = writes
  BY DEF Retire
<1>2. TypeOK' /\ PagesHold' /\ Requested'
  BY <1>1 DEF TypeOK, PagesHold, Requested, Changing
<1>3. Listed' /\ InRecord' /\ Copy' /\ Adrift'
  BY <1>1, CopiedIs DEF Listed, InRecord, Copy, Moving, Adrift
<1>4. BootsHere'
  <2>1. header'[writePage] = "active"
    BY <1>1, CopiedIs DEF TypeOK
  <2>2. \A p \in Active' : p \in Active /\ p # readPage
    BY <1>1 DEF TypeOK, Active
  <2>3. \A p \in Active' : writePage <= p
    <3> SUFFICES ASSUME NEW p \in Active' PROVE writePage <= p
      OBVIOUS
    <3>1. p \in Nat /\ writePage \in Nat /\ readPage \in Nat
      BY <1>1, <2>2, PagesFacts, CopiedIs
    <3>2. p = writePage \/ readPage <= p
      BY <1>1, <2>2, CopiedIs
    <3>3. p # readPage
      BY <2>2
    <3>4. writePage = 0 \/ writePage = readPage + 1
      BY <1>1, CopiedIs
    <3> QED BY <3>1, <3>2, <3>3, <3>4
  <2> QED BY <1>1, <2>1, <2>3 DEF BootsHere
<1>5. writeAt' + EntryCells(Current'[1]) <= PageCells
  <2>1. PICK k \in Keys, v \in Values : pending = {<<k, v>>}
    BY <1>1 DEF Requested, Changing
  <2>2. Current' = <<k, v>>
    BY <1>1, <2>1, CopiedIs DEF Current
  <2>3. Current'[1] = k
    BY <2>2
  <2>4. writeAt \in Nat /\ writeAt <= 1 + MaxEntries * MaxCells
    BY <1>1, CopiedIs
  <2>5. EntryCells(k) \in Nat /\ EntryCells(k) <= MaxCells
    BY EntryCellsType
  <2>6. writeAt + EntryCells(k) <= PageCells
    BY <2>4, <2>5, Cells
  <2> QED BY <1>1, <2>3, <2>6
<1>6. InPlace'
  BY <1>1, <1>4, <1>5, CopiedIs DEF InPlace
<1>7. WriteAddr'
  <2>1. AtEnd'
    BY <1>1, CopiedIs DEF AtEnd
  <2> QED BY <1>1, <2>1 DEF WriteAddr
<1> QED BY <1>2, <1>3, <1>6, <1>7

(* The operations that may fail, each done or not, and where they leave    *)
(* the addresses.                                                          *)
LEMMA FlashErrorCases ==
  ASSUME FlashError
  PROVE  /\ result' = "error" /\ todo' = {} /\ pending' = {} /\ pc' = "idle"
         /\ adrift' = (writePage' # readPage)
         /\ readPage' = readPage /\ writes' = writes
         /\ \/ /\ pc = "erase" /\ writePage' = writePage /\ writeAt' = writeAt
               /\ NextErased \/ (header' = header /\ log' = log)
            \/ /\ pc = "mark" /\ writePage' = NextPage /\ writeAt' = 1 /\ log' = log
               /\ \/ header' = header
                  \/ header' = [header EXCEPT ![NextPage] = "copying"]
            \/ /\ pc = "append" /\ writePage' = writePage /\ writeAt' = writeAt
               /\ header' = header /\ ~ Overprints
               /\ log' = log \/ log' = Written("partial") \/ log' = Written("invalid")
            \/ /\ pc = "validate" /\ writePage' = writePage /\ writeAt' = writeAt
               /\ header' = header /\ (log' = log \/ log' = Validated)
            \/ /\ pc = "activate" /\ writePage' = writePage /\ writeAt' = writeAt
               /\ log' = log
               /\ \/ header' = header
                  \/ header' = [header EXCEPT ![writePage] = "active"]
            \/ /\ pc = "retire" /\ writePage' = writePage /\ writeAt' = writeAt
               /\ log' = log
               /\ \/ header' = header
                  \/ header' = [header EXCEPT ![readPage] = "inactive"]
<1>1. /\ result' = "error" /\ todo' = {} /\ pending' = {} /\ pc' = "idle"
      /\ adrift' = (writePage' # readPage)
      /\ readPage' = readPage /\ writes' = writes
  BY DEF FlashError
<1>2. CASE pc = "erase"
  BY <1>1, <1>2, Zenon DEF FlashError, NextErased, flash
<1>3. CASE pc = "mark"
  BY <1>1, <1>3 DEF FlashError, flash
<1>4. CASE pc = "append"
  BY <1>1, <1>4 DEF FlashError, flash
<1>5. CASE pc = "validate"
  BY <1>1, <1>5 DEF FlashError, flash
<1>6. CASE pc = "activate"
  BY <1>1, <1>6 DEF FlashError, flash
<1>7. CASE pc = "retire"
  BY <1>1, <1>7 DEF FlashError, flash
<1> QED BY <1>2, <1>3, <1>4, <1>5, <1>6, <1>7 DEF FlashError

LEMMA RecordFails ==
  ASSUME FlashError, pc \in {"append", "validate"}
  PROVE  /\ writePage' = writePage /\ writeAt' = writeAt /\ header' = header
         /\ \/ log' = log
            \/ pc = "append" /\ ~ Overprints
               /\ (log' = Written("partial") \/ log' = Written("invalid"))
            \/ pc = "validate" /\ log' = Validated
         /\ pc = "append" => ~ Overprints
<1>1. CASE pc = "append"
  BY <1>1, FlashErrorCases
<1>2. CASE pc = "validate"
  <2>1. /\ writePage' = writePage /\ writeAt' = writeAt /\ header' = header
        /\ log' = log \/ log' = Validated
    BY <1>2 DEF FlashError
  <2> QED BY <1>2, <2>1
<1> QED BY <1>1, <1>2

(* An invariant that says little of a state in which no call is under way. *)
LEMMA QuietInv ==
  ASSUME IInv, TypeOK', PagesHold', Adrift', WriteAddr',
         pc' \in {"off", "idle"}, todo' = {}, pending' = {},
         pc' = "idle" /\ ~ adrift' => readPage' = writePage' /\ BootsHere'
  PROVE  IInv'
<1>1. Requested' /\ Listed' /\ InRecord' /\ Copy'
  BY DEF Requested, Changing, Listed, InRecord, Copy, Moving
<1>2. InPlace'
  BY DEF InPlace, Staying
<1> QED BY <1>1, <1>2 DEF IInv

(* While a record is written, the page it is written to is that of         *)
(* readAddr or the one that comes next.                                    *)
LEMMA WritePageIs ==
  ASSUME IInv, pc \in {"append", "validate"}
  PROVE  /\ writePage = readPage => ~ adrift /\ todo = {} /\ BootsHere
         /\ writePage # readPage => writePage = NextPage
<1> USE DEF IInv
<1>1. NextPage # readPage
  BY PagesFacts
<1>2. adrift \/ todo # {} => writePage = NextPage
  BY DEF Adrift, Copy, Moving
<1>3. ~ adrift /\ todo = {} => writePage = readPage /\ BootsHere
  BY DEF InPlace, Staying
<1> QED BY <1>1, <1>2, <1>3

LEMMA FlashErrorInv == IInv /\ FlashError => IInv'
<1> SUFFICES ASSUME IInv, FlashError PROVE IInv'
  OBVIOUS
<1> USE DEF IInv
<1>1. /\ result' = "error" /\ todo' = {} /\ pending' = {} /\ pc' = "idle"
      /\ adrift' = (writePage' # readPage)
      /\ readPage' = readPage /\ writes' = writes
  BY FlashErrorCases
<1>2. /\ TypeOK /\ NextPage \in Pages /\ NextPage # readPage
      /\ readPage \in Pages /\ writePage \in Pages /\ NextPage' = NextPage
      /\ 1 <= writeAt
  BY <1>1, PagesFacts DEF TypeOK, NextPage, WriteAddr
<1>3. ASSUME TypeOK', PagesHold', 1 <= writeAt', AtEnd' \/ AtTorn',
             writePage' = readPage => BootsHere',
             writePage' # readPage => writePage' = NextPage
      PROVE  IInv'
  <2>1. WriteAddr'
    BY <1>1, <1>3 DEF WriteAddr, Moving
  <2>2. Adrift'
    BY <1>1, <1>2, <1>3 DEF Adrift
  <2> QED BY <1>1, <1>3, <2>1, <2>2, QuietInv
<1>4. CASE pc = "erase"
  <2>1. /\ writePage' = writePage /\ writeAt' = writeAt
        /\ readPage = writePage /\ BootsHere /\ (AtEnd \/ AtTorn)
        /\ NextErased \/ (header' = header /\ log' = log)
    BY <1>4, FlashErrorCases DEF InPlace, Staying, Adrift, WriteAddr
  <2>2. ASSUME log'[readPage] = log[readPage] PROVE AtEnd' \/ AtTorn'
    BY <2>1, <2>2 DEF AtEnd, AtTorn
  <2>3. CASE NextErased
    <3>1. /\ header' \in [Pages -> {"erased", "copying", "active", "inactive"}]
          /\ log' \in [Pages -> Seq(Record)] /\ PagesHold' /\ BootsHere'
          /\ log'[readPage] = log[readPage]
      BY <1>1, <1>4, <2>3, ErasedIs
    <3>2. TypeOK'
      BY <1>1, <1>2, <2>1, <3>1 DEF TypeOK
    <3> QED BY <1>2, <1>3, <2>1, <2>2, <3>1, <3>2
  <2>4. CASE header' = header /\ log' = log
    <3>1. TypeOK' /\ PagesHold'
      BY <1>1, <2>1, <2>4 DEF TypeOK, PagesHold
    <3>2. BootsHere'
      BY <1>1, <2>1, <2>4 DEF BootsHere, Active
    <3> QED BY <1>2, <1>3, <2>1, <2>2, <2>4, <3>1, <3>2
  <2> QED BY <2>1, <2>3, <2>4
<1>5. CASE pc = "mark"
  <2>1. /\ writePage' = NextPage /\ writeAt' = 1 /\ log' = log
        /\ \/ header' = header
           \/ header' = [header EXCEPT ![NextPage] = "copying"]
    BY <1>5, FlashErrorCases
  <2>2. TypeOK' /\ PagesHold'
    BY <1>1, <1>2, <2>1 DEF TypeOK, PagesHold
  <2>3. AtEnd'
    BY <1>5, <2>1, EmptyLog DEF AtEnd, Listed
  <2> QED BY <1>2, <1>3, <2>1, <2>2, <2>3
<1>6. CASE pc \in {"append", "validate"}
  <2>1. writePage' = writePage /\ writeAt' = writeAt /\ header' = header
    BY <1>6, RecordFails
  <2>2. writePage' = readPage => BootsHere'
    BY <1>1, <1>6, <2>1, WritePageIs DEF BootsHere, Active
  <2>3. writePage' # readPage => writePage' = NextPage
    BY <1>6, <2>1, WritePageIs
  <2>4. ASSUME log' \in [Pages -> Seq(Record)], PagesHold', AtEnd' \/ AtTorn'
        PROVE  IInv'
    <3>1. TypeOK'
      BY <1>1, <1>2, <2>1, <2>4 DEF TypeOK
    <3> QED BY <1>2, <1>3, <2>1, <2>2, <2>3, <2>4, <3>1
  <2>5. CASE log' = log
    <3>1. AtEnd \/ AtTorn
      BY <1>6 DEF WriteAddr
    <3>2. AtEnd' \/ AtTorn'
      BY <2>1, <2>5, <3>1 DEF AtEnd, AtTorn
    <3> QED BY <2>4, <2>5, <3>2 DEF TypeOK, PagesHold
  <2>6. CASE pc = "append" /\ ~ Overprints
             /\ (log' = Written("partial") \/ log' = Written("invalid"))
    <3>1. PICK s \in {"partial", "invalid"} : log' = Written(s)
      BY <2>6
    <3> DEFINE recs == log'[writePage]
               r == NewRecord(s)
    <3>2. /\ r.status # "valid" /\ r.at = writeAt
          /\ log' \in [Pages -> Seq(Record)] /\ recs # <<>> /\ recs[Len(recs)] = r
          /\ \A p \in Pages : Used(log'[p]) <= PageCells
      BY <2>6, <3>1, WrittenIs
    <3> HIDE DEF r, recs
    <3>3. AtTorn'
      BY <2>1, <3>2 DEF AtTorn, recs
    <3> QED BY <2>4, <3>2, <3>3 DEF PagesHold
  <2>7. CASE pc = "validate" /\ log' = Validated
    <3>1. log' \in [Pages -> Seq(Record)] /\ \A p \in Pages : Used(log'[p]) = Used(log[p])
      BY <2>7, ValidatedIs
    <3>2. PagesHold'
      BY <3>1 DEF PagesHold
    <3>3. AtEnd'
      BY <1>2, <2>1, <2>7, <3>1 DEF AtEnd, WriteAddr
    <3> QED BY <2>4, <3>1, <3>2, <3>3
  <2> QED BY <1>6, <2>5, <2>6, <2>7, RecordFails
<1>7. CASE pc \in {"activate", "retire"}
  <2>1. /\ writePage' = writePage /\ writeAt' = writeAt /\ log' = log
        /\ \/ header' = header
           \/ header' = [header EXCEPT ![writePage] = "active"]
           \/ header' = [header EXCEPT ![readPage] = "inactive"]
    BY <1>7, FlashErrorCases
  <2>2. TypeOK' /\ PagesHold'
    BY <1>1, <1>2, <2>1 DEF TypeOK, PagesHold
  <2>3. writePage # readPage /\ writePage = NextPage /\ AtEnd
    BY <1>7, CopiedIs
  <2>4. AtEnd'
    BY <2>1, <2>3 DEF AtEnd
  <2> QED BY <1>2, <1>3, <2>1, <2>2, <2>3, <2>4
<1> QED BY <1>4, <1>5, <1>6, <1>7, FlashErrorCases

LEMMA PowerCutInv == IInv /\ PowerCut => IInv'
<1> SUFFICES ASSUME IInv, PowerCut PROVE IInv'
  OBVIOUS
<1>1. /\ pc' = "off" /\ pending' = {} /\ todo' = {} /\ result' = "none"
      /\ header' = header /\ readPage' = readPage /\ writePage' = writePage
      /\ writeAt' = writeAt /\ adrift' = FALSE /\ writes' = writes
      /\ log' = log \/ (pc = "append" /\ ~ Overprints /\ log' = Written("partial"))
  BY DEF PowerCut, addresses
<1>2. log' \in [Pages -> Seq(Record)] /\ \A p \in Pages : Used(log'[p]) <= PageCells
  BY <1>1, WrittenIs DEF IInv, TypeOK, PagesHold
<1>3. TypeOK' /\ PagesHold'
  BY <1>1, <1>2 DEF IInv, TypeOK, PagesHold
<1>4. Adrift' /\ WriteAddr'
  BY <1>1 DEF Adrift, WriteAddr, Moving, IInv
<1> QED BY <1>1, <1>3, <1>4, QuietInv

LEMMA NextInv == IInv /\ [Next]_vars => IInv'
<1> SUFFICES ASSUME IInv, [Next]_vars PROVE IInv'
  OBVIOUS
<1>1. CASE UNCHANGED vars
  BY <1>1 DEF vars, flash, addresses, IInv, TypeOK, PagesHold, Requested, InPlace, Adrift,
              Listed, Copy, WriteAddr, AtEnd, AtTorn, InRecord,
              Changing, Staying, Moving, ToCopy, BootsHere, Active, NextPage, Current,
              NextKey, First, LiveKeys
<1>2. CASE Boot \/ Format
  BY <1>2, BootInv, FormatInv
<1>3. ASSUME NEW k \in Keys, NEW v \in Values, Write(k, v) PROVE IInv'
  BY <1>3, WriteInv
<1>4. CASE Erase \/ Mark \/ AppendRecord \/ Overprint
  BY <1>4, EraseInv, MarkInv, AppendInv, OverprintInv
<1>5. CASE Validate \/ Activate \/ Retire
  BY <1>5, ValidateInv, ActivateInv, RetireInv
<1>6. CASE FlashError \/ PowerCut
  BY <1>6, FlashErrorInv, PowerCutInv
<1> QED BY <1>1, <1>2, <1>3, <1>4, <1>5, <1>6 DEF Next

LEMMA Invariant == Spec => []IInv
BY InitInv, NextInv, PTL DEF Spec

-----------------------------------------------------------------------------
(* What is stored. *)

(* The page eeep_init would take holds f, whichever it is. *)
BootsTo(f) ==
  /\ Active # {}
  /\ \A q \in Active : (\A p \in Active : q <= p)
       => \A k \in Keys : Latest(log[q], k) = f[k]

LEMMA StoredAs == \A f : TypeOK /\ BootsTo(f) => Stored = [k \in Keys |-> f[k]]
<1> SUFFICES ASSUME NEW f, TypeOK, BootsTo(f) PROVE Stored = [k \in Keys |-> f[k]]
  OBVIOUS
<1> USE DEF BootsTo
<1>1. BootPage \in Active /\ \A p \in Active : BootPage <= p
  BY PagesFacts, MinProperties DEF BootPage
<1>2. \A k \in Keys : Latest(log[BootPage], k) = f[k]
  BY <1>1
<1> QED BY <1>2 DEF Stored

(* What readers of the page at readPage see. *)
Readable == [k \in Keys |-> Latest(log[readPage], k)]

Sound == pc \notin {"off", "spoilt"} /\ ~ adrift

LEMMA StoredHere == IInv /\ Sound => Active # {} /\ Stored = Readable
<1> SUFFICES ASSUME IInv, Sound
             PROVE  Active # {} /\ Stored = Readable
  OBVIOUS
<1> USE DEF IInv
<1>1. /\ readPage \in Pages /\ writePage \in Pages
      /\ Active \subseteq Pages /\ Pages \subseteq Nat
      /\ pc \in {"idle", "erase", "mark", "append", "validate", "activate", "retire"}
  BY PagesFacts DEF TypeOK, Sound
<1>2. CASE Staying
  <2>1. header[readPage] = "active" /\ \A p \in Active : readPage <= p
    BY <1>2 DEF InPlace, BootsHere, Sound
  <2>2. readPage \in Active
    BY <1>1, <2>1 DEF Active
  <2>3. ASSUME NEW q \in Active, \A p \in Active : q <= p PROVE q = readPage
    BY <1>1, <2>1, <2>2, <2>3
  <2>4. BootsTo(Readable)
    BY <2>2, <2>3 DEF BootsTo, Readable
  <2>5. Stored = [k \in Keys |-> Readable[k]]
    BY <2>4, StoredAs
  <2> QED BY <2>2, <2>5 DEF Readable
<1>3. CASE Moving
  <2>1. /\ header[readPage] = "active"
        /\ \A p \in Active : p = writePage \/ readPage <= p
        /\ header[writePage] = IF pc = "retire" THEN "active" ELSE "copying"
        /\ pc = "retire" => \A k \in Keys : Latest(log[writePage], k) = Latest(log[readPage], k)
    BY <1>3, CopiedIs DEF Copy
  <2>2. readPage \in Active
    BY <1>1, <2>1 DEF Active
  <2>3. ASSUME NEW q \in Active, \A p \in Active : q <= p
        PROVE  q = readPage \/ (pc = "retire" /\ q = writePage)
    <3>1. q <= readPage /\ q \in Nat /\ readPage \in Nat
      BY <1>1, <2>2, <2>3
    <3>2. CASE q = writePage
      BY <2>1, <3>2 DEF Active
    <3>3. CASE readPage <= q
      BY <3>1, <3>3
    <3> QED BY <2>1, <3>2, <3>3
  <2>4. BootsTo(Readable)
    BY <2>1, <2>2, <2>3 DEF BootsTo, Readable
  <2>5. Stored = [k \in Keys |-> Readable[k]]
    BY <2>4, StoredAs
  <2> QED BY <2>2, <2>5 DEF Readable
<1> QED BY <1>1, <1>2, <1>3 DEF Staying, Moving

LEMMA StoredHereNext ==
  IInv' /\ Sound' => Active' # {} /\ Stored' = Readable'
<1>1. (IInv /\ Sound => Active # {} /\ Stored = Readable)'
  BY StoredHere, PTL
<1> QED BY <1>1

LEMMA StoredAsPrimed ==
  (\A f : TypeOK /\ BootsTo(f) => Stored = [k \in Keys |-> f[k]])'
BY StoredAs, PTL

LEMMA StoredAsNext ==
  ASSUME NEW f, TypeOK', Active' # {},
         \A q \in Active' : (\A p \in Active' : q <= p)
           => \A k \in Keys : Latest(log'[q], k) = f[k]
  PROVE  Stored' = [k \in Keys |-> f[k]]
<1>2. \A g : TypeOK' /\ BootsTo(g)' => Stored' = [k \in Keys |-> g[k]]
  BY StoredAsPrimed
<1>3. BootsTo(f)'
  BY DEF BootsTo
<1> QED BY <1>2, <1>3

(* While a call is under way the steps that leave its page as readers see  *)
(* it leave the store as it is.                                            *)
LEMMA StoredStays ==
  ASSUME IInv, IInv', Sound, Sound',
         \A k \in Keys : Latest(log'[readPage'], k) = Latest(log[readPage], k)
  PROVE  Stored' = Stored
<1>1. Stored = Readable /\ Stored' = Readable'
  BY StoredHere, StoredHereNext
<1>2. Readable' = [k \in Keys |-> Latest(log'[readPage'], k)]
  BY DEF Readable
<1> QED BY <1>1, <1>2 DEF Readable

(* So do the steps that mark no page and add nothing to the page boot      *)
(* would take that a reader sees.                                          *)
LEMMA StoredKept ==
  ASSUME TypeOK, header' = header,
         Active # {} => \A k \in Keys : Latest(log'[BootPage], k) = Latest(log[BootPage], k)
  PROVE  Stored' = Stored
<1>1. Active' = Active /\ BootPage' = BootPage
  BY DEF Active, BootPage
<1> QED BY <1>1 DEF Stored

LEMMA BootPageIs == TypeOK /\ Active # {} => BootPage \in Active /\ BootPage \in Pages
BY PagesFacts, MinProperties DEF BootPage

-----------------------------------------------------------------------------
(* The steps of KeyValueStore. *)

Mapped == <<Stored, pending, result, adrift>>

LEMMA InitRefines == Init => Abstract!Init
<1> SUFFICES ASSUME Init PROVE Abstract!Init
  OBVIOUS
<1>1. Active = {}
  BY DEF Init, Active
<1>2. Stored = [k \in Keys |-> NoValue]
  BY <1>1 DEF Stored
<1> QED BY <1>2 DEF Init, Abstract!Init

(* The request that is under way. *)
LEMMA RequestIs ==
  IInv /\ pc \in Changing => \E k \in Keys, v \in Values : pending = {<<k, v>>}
BY DEF IInv, Requested

(* A call that gives up answers with an error and leaves what is stored. *)
LEMMA GivesUp ==
  ASSUME IInv, pc \in Changing, pending' = {}, result' = "error", Stored' = Stored,
         adrift' \in {adrift, TRUE}
  PROVE  Abstract!Next
<1>1. PICK k \in Keys, v \in Values : pending = {<<k, v>>}
  BY RequestIs
<1>2. Abstract!Fails(k, v)
  BY <1>1 DEF Abstract!Fails
<1> QED BY <1>2 DEF Abstract!Next

(* The store after the record of a request has become valid: it has the    *)
(* new value if boot would go to the page of the record, and it does while *)
(* no page change has failed.                                              *)
LEMMA RequestStored ==
  ASSUME IInv, pc = "validate", todo = {}, log' = Validated, header' = header,
         NEW k \in Keys, NEW v \in Values, pending = {<<k, v>>}
  PROVE  \/ Stored' = [Stored EXCEPT ![k] = v]
         \/ adrift /\ Stored' = Stored
<1> USE DEF IInv
<1>1. Current[1] = k /\ Current[2] = v
  <2>1. Current = <<k, v>>
    BY DEF Current
  <2> QED BY <2>1
<1>2. Active' = Active /\ BootPage' = BootPage
  BY DEF Active, BootPage
<1>3. ASSUME ~ adrift PROVE Active # {} /\ BootPage = writePage
  <2>1. readPage = writePage /\ BootsHere
    BY <1>3 DEF InPlace, Staying
  <2>2. readPage \in Active /\ Active \in SUBSET Nat
    BY <2>1, PagesFacts DEF BootsHere, Active, TypeOK
  <2>3. BootPage = readPage
    BY <2>1, <2>2, MinIs DEF BootPage, BootsHere
  <2> QED BY <2>1, <2>2, <2>3
<1>4. CASE Active # {} /\ BootPage = writePage
  <2>1. \A j \in Keys : Latest(log'[BootPage], j) =
                          IF j = k THEN v ELSE Latest(log[BootPage], j)
    BY <1>1, <1>4, ValidatedIs
  <2>2. /\ Stored' = [j \in Keys |-> Latest(log'[BootPage], j)]
        /\ Stored = [j \in Keys |-> Latest(log[BootPage], j)]
    BY <1>2, <1>4 DEF Stored
  <2> QED BY <2>1, <2>2
<1>5. CASE Active = {} \/ BootPage # writePage
  <2>1. Active # {} => log'[BootPage] = log[BootPage]
    BY <1>5, BootPageIs, ValidatedIs
  <2>2. Stored' = Stored
    BY <2>1, StoredKept
  <2> QED BY <1>3, <1>5, <2>2
<1> QED BY <1>4, <1>5

LEMMA BootRefines == IInv /\ Boot => UNCHANGED Mapped
BY DEF Boot, Stored, Active, BootPage, flash, Mapped

LEMMA FormatRefines == IInv /\ Format => UNCHANGED Mapped
<1> SUFFICES ASSUME IInv, Format PROVE UNCHANGED Mapped
  OBVIOUS
<1>1. Stored = [k \in Keys |-> NoValue]
  BY DEF Format, Stored
<1>2. Stored' = [k \in Keys |-> NoValue]
  <2>1. CASE Active' = {}
    BY <2>1 DEF Stored
  <2>2. CASE Active' # {}
    <3> DEFINE none == [k \in Keys |-> NoValue]
    <3>1. log' = [p \in Pages |-> <<>>] /\ Active' \subseteq Pages
      BY DEF Format, Active
    <3>2. \A q \in Active', k \in Keys : Latest(log'[q], k) = none[k]
      BY <3>1, EmptyLog
    <3>3. TypeOK'
      BY FormatInv DEF IInv
    <3>4. Stored' = [k \in Keys |-> none[k]]
      <4> HIDE DEF none
      <4> QED BY <2>2, <3>2, <3>3, StoredAsNext
    <3> QED BY <3>4
  <2> QED BY <2>1, <2>2
<1> QED BY <1>1, <1>2 DEF Format, Mapped

LEMMA WriteRefines ==
  ASSUME NEW k \in Keys, NEW v \in Values, IInv, Write(k, v)
  PROVE  Abstract!Next
<1>1. pending = {}
  BY DEF Write, IInv, Requested, Changing
<1>2. Stored' = Stored
  BY DEF Write, Stored, Active, BootPage, flash
<1>3. Abstract!Ask(k, v)
  BY <1>1, <1>2 DEF Write, Abstract!Ask
<1> QED BY <1>3 DEF Abstract!Next

LEMMA EraseRefines ==
  ASSUME IInv, IInv', Erase
  PROVE  Abstract!Next \/ UNCHANGED Mapped
<1>1. /\ pc = "erase" /\ NextErased /\ readPage' = readPage /\ adrift' = adrift
      /\ \/ pc' = "idle" /\ result' = "error" /\ pending' = {}
         \/ pc' = "mark" /\ pending' = pending /\ result' = result
  BY DEF Erase, Fail, NextErased, addresses
<1>2. log'[readPage'] = log[readPage]
  BY <1>1, ErasedIs
<1>3. Sound /\ Sound'
  BY <1>1 DEF Sound, IInv, Adrift
<1>4. Stored' = Stored
  BY <1>2, <1>3, StoredStays
<1> QED BY <1>1, <1>4, GivesUp DEF Changing, Mapped

LEMMA MarkRefines ==
  ASSUME IInv, IInv', Mark
  PROVE  UNCHANGED Mapped
<1>1. /\ pc = "mark" /\ pc' \in {"activate", "append"} /\ adrift' = adrift
      /\ log' = log /\ readPage' = readPage /\ pending' = pending /\ result' = result
  BY DEF Mark
<1>2. Sound /\ Sound'
  BY <1>1 DEF Sound, IInv, Adrift
<1>3. Stored' = Stored
  BY <1>1, <1>2, StoredStays
<1> QED BY <1>1, <1>3 DEF Mapped

(* Headers of records, whole or not, are not seen by readers. *)
LEMMA WrittenStored ==
  ASSUME IInv, pc = "append", ~ Overprints, header' = header,
         log' = log \/ log' = Written("partial") \/ log' = Written("invalid")
  PROVE  Stored' = Stored
<1>1. TypeOK
  BY DEF IInv
<1>2. \A p \in Pages, k \in Keys : Latest(log'[p], k) = Latest(log[p], k)
  BY WrittenIs
<1>3. Active # {} => BootPage \in Pages
  BY <1>1, BootPageIs
<1> QED BY <1>1, <1>2, <1>3, StoredKept

LEMMA AppendRefines ==
  ASSUME IInv, AppendRecord
  PROVE  UNCHANGED Mapped
<1>1. /\ pc = "append" /\ ~ Overprints /\ log' = Written("invalid") /\ header' = header
      /\ pending' = pending /\ result' = result /\ adrift' = adrift
  BY DEF AppendRecord, AppendStatus
<1> QED BY <1>1, WrittenStored DEF Mapped

LEMMA OverprintRefines == Overprint => UNCHANGED Mapped
BY DEF Overprint, Mapped, flash, Stored, Active, BootPage

LEMMA ValidateRefines ==
  ASSUME IInv, IInv', Validate
  PROVE  Abstract!Next \/ UNCHANGED Mapped
<1>1. /\ pc = "validate" /\ log' = Validated /\ header' = header
      /\ readPage' = readPage /\ writePage' = writePage /\ adrift' = adrift
  BY DEF Validate, addresses
<1>2. CASE todo = {}
  <2>1. pending' = {} /\ result' = "ok"
    BY <1>2 DEF Validate
  <2>2. PICK k \in Keys, v \in Values : pending = {<<k, v>>}
    BY <1>1, RequestIs DEF Changing
  <2>3. Stored' = [Stored EXCEPT ![k] = v] \/ (adrift /\ Stored' = Stored)
    BY <1>1, <1>2, <2>2, RequestStored
  <2>4. Abstract!Stores(k, v) \/ Abstract!Loses(k, v)
    BY <1>1, <2>1, <2>2, <2>3 DEF Abstract!Stores, Abstract!Loses
  <2> QED BY <2>4 DEF Abstract!Next
<1>3. CASE todo # {}
  <2>1. pending' = pending /\ result' = result /\ pc' \in {"activate", "append"}
    BY <1>3 DEF Validate
  <2>2. readPage # writePage /\ readPage \in Pages
    BY <1>1, <1>3, PagesFacts DEF IInv, Copy, Moving, TypeOK
  <2>3. log'[readPage'] = log[readPage]
    BY <1>1, <2>2, ValidatedIs
  <2>4. Sound /\ Sound'
    BY <1>1, <1>3, <2>1 DEF Sound, IInv, Adrift
  <2>5. Stored' = Stored
    BY <2>3, <2>4, StoredStays
  <2> QED BY <1>1, <2>1, <2>5 DEF Mapped
<1> QED BY <1>2, <1>3

LEMMA ActivateRefines ==
  ASSUME IInv, IInv', Activate
  PROVE  UNCHANGED Mapped
<1>1. /\ pc = "activate" /\ pc' = "retire" /\ adrift' = adrift
      /\ log' = log /\ readPage' = readPage /\ pending' = pending /\ result' = result
  BY DEF Activate, addresses
<1>2. Sound /\ Sound'
  BY <1>1, CopiedIs DEF Sound
<1>3. Stored' = Stored
  BY <1>1, <1>2, StoredStays
<1> QED BY <1>1, <1>3 DEF Mapped

LEMMA RetireRefines ==
  ASSUME IInv, IInv', Retire
  PROVE  UNCHANGED Mapped
<1>1. /\ pc = "retire" /\ pc' = "append" /\ log' = log /\ readPage' = writePage
      /\ pending' = pending /\ result' = result /\ adrift' = adrift
  BY DEF Retire
<1>2. \A k \in Keys : Latest(log'[readPage'], k) = Latest(log[readPage], k)
  BY <1>1, CopiedIs
<1>3. Sound /\ Sound'
  BY <1>1, CopiedIs DEF Sound
<1>4. Stored' = Stored
  BY <1>2, <1>3, StoredStays
<1> QED BY <1>1, <1>4 DEF Mapped

(* The failures.  After that of a page change, eeep_init would go to the   *)
(* old page or to the new one, which then hold the same.                   *)
LEMMA FlashErrorRefines ==
  ASSUME IInv, IInv', FlashError
  PROVE  Abstract!Next
<1> USE DEF IInv
<1>1. /\ result' = "error" /\ pending' = {} /\ readPage' = readPage /\ pc' = "idle"
      /\ adrift' = (writePage' # readPage)
  BY FlashErrorCases
<1>2. /\ TypeOK' /\ TypeOK /\ pc \in Changing
      /\ readPage \in Pages /\ writePage \in Pages
      /\ NextPage \in Pages /\ NextPage # readPage
      /\ header \in [Pages -> {"erased", "copying", "active", "inactive"}]
  BY FlashErrorCases, PagesFacts DEF Changing, TypeOK
<1>3. adrift' \in {adrift, TRUE}
  <2>1. adrift => writePage' = NextPage
    BY <1>2, FlashErrorCases DEF Adrift, Changing
  <2> QED BY <1>1, <1>2, <2>1 DEF TypeOK
<1>4. ASSUME Stored' = Stored PROVE Abstract!Next
  BY <1>1, <1>2, <1>3, <1>4, GivesUp
<1>5. CASE pc = "erase"
  <2>1. writePage' = readPage /\ ~ adrift
    BY <1>5, FlashErrorCases DEF InPlace, Staying, Adrift
  <2>2. log'[readPage'] = log[readPage]
    <3>1. NextErased \/ log' = log
      BY <1>5, FlashErrorCases
    <3> QED BY <1>1, <1>5, <3>1, ErasedIs
  <2>3. Sound /\ Sound'
    BY <1>1, <1>5, <2>1 DEF Sound
  <2> QED BY <1>4, <2>2, <2>3, StoredStays
<1>6. CASE pc = "mark"
  <2>1. /\ log' = log /\ header[NextPage] = "erased"
        /\ \/ header' = header
           \/ header' = [header EXCEPT ![NextPage] = "copying"]
    BY <1>6, FlashErrorCases DEF Listed
  <2>2. Active' = Active
    BY <1>2, <2>1 DEF Active
  <2>3. Stored' = Stored
    BY <2>1, <2>2 DEF Stored, BootPage
  <2> QED BY <1>4, <2>3
<1>7. CASE pc = "append"
  <2>1. /\ header' = header /\ ~ Overprints
        /\ log' = log \/ log' = Written("partial") \/ log' = Written("invalid")
    BY <1>7, RecordFails
  <2> QED BY <1>4, <1>7, <2>1, WrittenStored
<1>8. CASE pc = "validate"
  <2>1. header' = header /\ (log' = log \/ log' = Validated)
    BY <1>8, RecordFails
  <2>2. CASE log' = log
    BY <1>2, <1>4, <2>1, <2>2, StoredKept
  <2>3. CASE log' = Validated /\ todo = {}
    <3>1. PICK k \in Keys, v \in Values : pending = {<<k, v>>}
      BY <1>2, RequestIs
    <3>2. Stored' \in {Stored, [Stored EXCEPT ![k] = v]}
      BY <1>8, <2>1, <2>3, <3>1, RequestStored
    <3>3. Abstract!Fails(k, v)
      BY <1>1, <1>3, <3>1, <3>2 DEF Abstract!Fails
    <3> QED BY <3>3 DEF Abstract!Next
  <2>4. CASE log' = Validated /\ todo # {}
    <3>1. header[writePage] = "copying"
      BY <1>8, <2>4 DEF Copy, Moving
    <3>2. Active # {} => BootPage \in Pages /\ BootPage # writePage
      BY <1>2, <3>1, BootPageIs DEF Active
    <3>3. Active # {} => log'[BootPage] = log[BootPage]
      BY <1>8, <2>4, <3>2, ValidatedIs
    <3> QED BY <1>2, <1>4, <2>1, <3>3, StoredKept
  <2> QED BY <2>1, <2>2, <2>3, <2>4
<1>9. CASE pc \in {"activate", "retire"}
  <2>1. /\ log' = log
        /\ \/ header' = header
           \/ header' = [header EXCEPT ![writePage] = "active"]
           \/ pc = "retire" /\ header' = [header EXCEPT ![readPage] = "inactive"]
    BY <1>9, FlashErrorCases
  <2>2. /\ writePage # readPage /\ (writePage = 0 \/ writePage = readPage + 1)
        /\ header[readPage] = "active"
        /\ \A p \in Active : p = writePage \/ readPage <= p
        /\ header[writePage] = IF pc = "retire" THEN "active" ELSE "copying"
        /\ \A k \in Keys : Latest(log[writePage], k) = Latest(log[readPage], k)
    BY <1>9, CopiedIs
  <2>a. Active # {} /\ Stored = Readable /\ Active \subseteq Pages /\ Pages \subseteq Nat
    BY <1>2, <1>9, CopiedIs, StoredHere, PagesFacts DEF Sound
  <2>3. \A p \in Active' : p = writePage \/ p \in Active
    BY <1>2, <2>1 DEF Active
  <2>4. readPage \in Active' \/ (writePage \in Active' /\ readPage \notin Active')
    BY <1>2, <2>1, <2>2 DEF Active
  <2>5. ASSUME NEW q \in Active', \A p \in Active' : q <= p
        PROVE  q = readPage \/ q = writePage
    <3>1. q = writePage \/ (q \in Active /\ readPage <= q)
      BY <2>2, <2>3
    <3>2. q \in Nat /\ readPage \in Nat /\ writePage \in Nat
      BY <1>2, <2>a, <3>1
    <3>3. CASE readPage \in Active'
      BY <2>5, <3>1, <3>2, <3>3
    <3>4. CASE writePage \in Active' /\ readPage \notin Active'
      <4>1. q <= writePage /\ q # readPage
        BY <2>5, <3>4
      <4> QED BY <2>2, <3>1, <3>2, <4>1
    <3> QED BY <2>4, <3>3, <3>4
  <2>6. \A q \in Active' : (\A p \in Active' : q <= p)
          => \A k \in Keys : Latest(log'[q], k) = Readable[k]
    BY <2>1, <2>2, <2>5 DEF Readable
  <2>7. Stored' = [k \in Keys |-> Readable[k]]
    BY <1>2, <2>4, <2>6, StoredAsNext
  <2>8. Stored' = Stored
    BY <2>a, <2>7 DEF Readable
  <2> QED BY <1>4, <2>8
<1> QED BY <1>2, <1>5, <1>6, <1>7, <1>8, <1>9 DEF Changing, FlashError

LEMMA PowerCutRefines ==
  ASSUME IInv, PowerCut
  PROVE  Abstract!Next
<1>1. /\ pending' = {} /\ result' = "none" /\ header' = header /\ adrift' = FALSE
      /\ log' = log \/ (pc = "append" /\ ~ Overprints /\ log' = Written("partial"))
  BY DEF PowerCut
<1>2. Stored' = Stored
  <2>1. CASE log' = log
    BY <1>1, <2>1, StoredKept DEF IInv
  <2>2. CASE pc = "append" /\ ~ Overprints /\ log' = Written("partial")
    BY <1>1, <2>2, WrittenStored
  <2> QED BY <1>1, <2>1, <2>2
<1>3. Abstract!PowerCut
  BY <1>1, <1>2 DEF Abstract!PowerCut
<1> QED BY <1>3 DEF Abstract!Next

LEMMA StepRefines == IInv /\ IInv' /\ [Next]_vars => [Abstract!Next]_(Abstract!vars)
<1> SUFFICES ASSUME IInv, IInv', [Next]_vars
             PROVE  Abstract!Next \/ UNCHANGED Mapped
  BY DEF Abstract!vars, Mapped
<1>1. CASE UNCHANGED vars
  BY <1>1 DEF vars, flash, Mapped, Stored, Active, BootPage
<1>2. CASE Boot \/ Format
  BY <1>2, BootRefines, FormatRefines
<1>3. ASSUME NEW k \in Keys, NEW v \in Values, Write(k, v) PROVE Abstract!Next
  BY <1>3, WriteRefines
<1>4. CASE Erase \/ Mark \/ AppendRecord \/ Overprint
  BY <1>4, EraseRefines, MarkRefines, AppendRefines, OverprintRefines
<1>5. CASE Validate \/ Activate \/ Retire
  BY <1>5, ValidateRefines, ActivateRefines, RetireRefines
<1>6. CASE FlashError \/ PowerCut
  BY <1>6, FlashErrorRefines, PowerCutRefines
<1> QED BY <1>1, <1>2, <1>3, <1>4, <1>5, <1>6 DEF Next

-----------------------------------------------------------------------------
(* The store of the CS7000 keeps to its types: in particular readAddr and  *)
(* writeAddr always lie in the partition.                                  *)
THEOREM TypeCorrect == Spec => []TypeOK
<1>1. IInv => TypeOK
  BY DEF IInv
<1> QED BY <1>1, Invariant, PTL

(* No record is ever written past the end of its page, although            *)
(* writeRecord does not look at the space left after swapBlock: up to the  *)
(* first record programmed over something else, which only a failure of    *)
(* the flash leads to.                                                     *)
THEOREM PagesAlwaysHold == Spec => []PagesHold
<1>1. IInv => PagesHold
  BY DEF IInv
<1> QED BY <1>1, Invariant, PTL

(* Between two calls eeep_read gives what it would give after a restart,   *)
(* unless a page change has failed since the last boot: whatever other     *)
(* operation fails, and whatever moment the power is cut at.               *)
THEOREM ReadsAlwaysWhatIsStored == Spec => []ReadsWhatIsStored
<1>1. IInv => ReadsWhatIsStored
  <2> SUFFICES ASSUME IInv, pc = "idle", ~ adrift, NEW k \in Keys
               PROVE  Latest(log[readPage], k) = Stored[k]
    BY DEF ReadsWhatIsStored
  <2>1. Stored = Readable
    BY StoredHere DEF Sound
  <2> QED BY <2>1 DEF Readable
<1> QED BY <1>1, Invariant, PTL

(* eeep.c implements KeyValueStore, whatever moment the power is cut at    *)
(* and whichever operation fails, for any number of pages and keys, any    *)
(* sizes that swapBlock can copy to one page, and any number of calls:     *)
(* every call takes effect completely or not at all, and what is stored    *)
(* stays.  A call that answers with success has taken effect, unless a     *)
(* page change has failed since the last boot: then the store is           *)
(* unreliable and may lose it.  The behaviour ends where a record is       *)
(* programmed over something else.                                         *)
THEOREM AlwaysDurable == Spec => Durable
<1>1. Init => Abstract!Init
  BY InitRefines
<1>2. IInv /\ IInv' /\ [Next]_vars => [Abstract!Next]_(Abstract!vars)
  BY StepRefines
<1> QED BY <1>1, <1>2, Invariant, PTL DEF Spec, Durable, Abstract!Spec
=============================================================================
