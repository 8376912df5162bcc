------------------------------ MODULE Codeplug ------------------------------
(***************************************************************************)
(* The codeplug file (platform/drivers/CPS/cps_io_libc.c): a header with   *)
(* three counts, then the contacts, the channels, the offsets of the banks *)
(* and the banks, each a header and the numbers of its channels.  Every    *)
(* insertion moves what follows down, and has to correct the offsets and   *)
(* the numbers that point past it.                                         *)
(*                                                                         *)
(* The file is a sequence of items of one cell each: all the sizeof of the *)
(* code are 1.                                                             *)
(***************************************************************************)
EXTENDS Integers, SequencesExt

CONSTANTS
  Names,        \* names of contacts, channels and banks
  MaxContacts, MaxChannels, MaxBanks, MaxEntries,  \* bounds of the tables
  MaxLength     \* bound of the file, in cells

ASSUME BoundAssumption ==
  {MaxContacts, MaxChannels, MaxBanks, MaxEntries, MaxLength} \subseteq Nat

VARIABLES
  header,  \* cps_header_t: ct_count, ch_count, b_count
  file,    \* what follows the header, its first cell at position 0
  sound,   \* no call damaged the file: see below
  ret      \* what the last call returned: 0, or -1 when it was refused

vars == <<header, file, sound, ret>>

(* num: the contact of a channel (-1 when it is an FM channel), an offset, *)
(* ch_count of a bank, or a channel number.                                *)
Item(kind, name, num) == [kind |-> kind, name |-> name, num |-> num]
Number(kind, num) == [kind |-> kind, name |-> "", num |-> num]
Kinds == {"contact", "channel", "offset", "bank", "entry"}
Texts == Names \cup {""}
Items == [kind : Kinds, name : Texts, num : Int]

-----------------------------------------------------------------------------
(* Where things are.                                                       *)

At(f, p) == f[p + 1]

(* _pushDown and the write that follows it.                                *)
Inserted(f, p, item) == InsertAt(f, p + 1, item)
Overwritten(f, p, item) == [f EXCEPT ![p + 1] = item]

(* A write that may be at the end of the file.                             *)
Written(f, p, item) == IF p < Len(f) THEN Overwritten(f, p, item) ELSE Append(f, item)

(* The numbers at these positions, each one higher.                        *)
Raised(f, positions) ==
  [i \in DOMAIN f |-> IF i - 1 \in positions THEN [f[i] EXCEPT !.num = @ + 1] ELSE f[i]]

ChannelPos(h, pos) == h.ct + pos
OffsetPos(h, pos) == h.ct + h.ch + pos

(* The seek of cps_readBankHeader, cps_readBankData and cps_writeBankData. *)
BankPos(h, f, pos) == h.ct + h.ch + h.b + At(f, OffsetPos(h, pos)).num

(* _getBankDataOffset, with a bank that is there or the place after them.  *)
BankDataOffset(h, f, pos) ==
  IF pos < h.b THEN BankPos(h, f, pos)
  ELSE IF h.b = 0 THEN h.ct + h.ch + 1
  ELSE LET last == BankPos(h, f, h.b - 1) IN last + 1 + At(f, last).num

EntryPos(h, f, bank, pos) == BankPos(h, f, bank) + 1 + pos

(* The banks and their entries, as the loops of _updateChNumbering.        *)
Entries(h, f) ==
  {be \in (0 .. h.b - 1) \X (0 .. MaxEntries - 1) : be[2] < At(f, BankPos(h, f, be[1])).num}

Empty == [ct |-> 0, ch |-> 0, b |-> 0]

-----------------------------------------------------------------------------
(* The insertions.                                                         *)

CtNumberingAfter(h, f, pos) ==
  Raised(f, {p \in h.ct .. h.ct + h.ch - 1 : At(f, p).num > pos})

(* _updateCtNumbering(pos, true).                                          *)
CtNumbering(h, f, pos) ==
  Raised(f, {p \in h.ct .. h.ct + h.ch - 1 : At(f, p).num >= pos})

(* A call that returns before it writes.                                   *)
Refused == ret' = -1 /\ UNCHANGED <<header, file, sound>>

insertContact(n, pos) ==
  LET h == [header EXCEPT !.ct = @ + 1]
      f == Inserted(file, pos, Item("contact", n, 0))
  IN  \/ /\ pos <= header.ct
         /\ ret' = 0
         /\ header.ct < MaxContacts /\ Len(f) <= MaxLength
         /\ header' = h
         /\ file' = CtNumbering(h, f, pos)
         /\ UNCHANGED sound
      \/ pos > header.ct /\ Refused

(* cps_writeBankData compares the position of the entry with the count of  *)
(* the banks, and refuses it when there are fewer.                         *)
Writable(h, f, bank, pos) == pos < h.b + 1 /\ pos < At(f, BankPos(h, f, bank)).num

(* _updateChNumbering(pos, true): cps_writeBankData does not update every  *)
(* entry.                                                                  *)
ChNumbering(h, f, pos) ==
  LET updated == {EntryPos(h, f, be[1], be[2]) :
                    be \in {x \in Entries(h, f) : Writable(h, f, x[1], x[2])}}
  IN  Raised(f, {p \in updated : At(f, p).num >= pos})

insertChannel(n, ct, pos) ==
  LET h == [header EXCEPT !.ch = @ + 1]
      f == Inserted(file, ChannelPos(header, pos), Item("channel", n, ct))
  IN  \/ /\ pos <= header.ch
         /\ ret' = 0
         /\ header.ch < MaxChannels /\ Len(f) <= MaxLength
         /\ header' = h
         /\ file' = ChNumbering(h, f, pos)
         /\ sound' = (sound /\ \A be \in Entries(h, f) :
                                 \/ Writable(h, f, be[1], be[2])
                                 \/ At(f, EntryPos(h, f, be[1], be[2])).num < pos)
      \/ pos > header.ch /\ Refused

OffsetsRaisedTooFew(h, f, p) == Raised(f, p .. h.ct + h.ch + h.b - 2)

(* The offsets from position p on, up to the banks.                        *)
OffsetsRaised(h, f, p) == Raised(f, p .. h.ct + h.ch + h.b - 1)

insertBankHeader(n, pos) ==
  LET at  == OffsetPos(header, pos)
      new == BankDataOffset(header, file, pos) - BankDataOffset(header, file, 0)
      h   == [header EXCEPT !.b = @ + 1]
      f   == OffsetsRaised(h, Inserted(file, at, Number("offset", new)), at + 1)
  IN  \/ /\ pos <= header.b
         /\ ret' = 0
         /\ header.b < MaxBanks /\ Len(f) < MaxLength
         /\ header' = h
         /\ file' = Inserted(f, BankDataOffset(h, f, pos), Item("bank", n, 0))
         /\ UNCHANGED sound
      \/ pos > header.b /\ Refused

(* The offsets are raised before the position is looked at: a call that is *)
(* refused spoils those of the banks behind.                               *)
insertBankData(ch, bank, pos) ==
  LET f  == OffsetsRaised(header, file, OffsetPos(header, bank + 1))
      at == BankPos(header, file, bank)
  IN  \/ /\ bank < header.b
         /\ pos <= At(file, at).num
         /\ ret' = 0
         /\ At(file, at).num < MaxEntries /\ Len(file) < MaxLength
         /\ file' = Inserted(Raised(f, {at}), at + 1 + pos, Number("entry", ch))
         /\ UNCHANGED <<header, sound>>
      \/ /\ bank < header.b
         /\ pos > At(file, at).num
         /\ ret' = -1
         /\ file' = f
         /\ sound' = (sound /\ bank = header.b - 1)
         /\ UNCHANGED header
      \/ bank >= header.b /\ Refused

-----------------------------------------------------------------------------
(* The calls that overwrite.                                               *)

writeContact(n, pos) ==
  \/ /\ pos < header.ct
     /\ ret' = 0
     /\ file' = Overwritten(file, pos, Item("contact", n, 0))
     /\ UNCHANGED <<header, sound>>
  \/ pos >= header.ct /\ Refused

writeChannel(n, ct, pos) ==
  \/ /\ pos < header.ch
     /\ ret' = 0
     /\ file' = Overwritten(file, ChannelPos(header, pos), Item("channel", n, ct))
     /\ UNCHANGED <<header, sound>>
  \/ pos >= header.ch /\ Refused

(* The number of the bank is compared with nothing.  For one behind the    *)
(* last, bytes of the banks, or none, are taken for its offset: the call   *)
(* can write over any cell behind the offsets, or add one, and return 0.   *)
writeBankData(ch, bank, pos) ==
  \/ /\ bank < header.b
     /\ Writable(header, file, bank, pos)
     /\ ret' = 0
     /\ file' = Overwritten(file, EntryPos(header, file, bank, pos), Number("entry", ch))
     /\ UNCHANGED <<header, sound>>
  \/ bank < header.b /\ ~ Writable(header, file, bank, pos) /\ Refused
  \/ /\ bank >= header.b /\ header.b # 0
     /\ pos < header.b + 1
     /\ ret' = 0 /\ sound' = FALSE
     /\ \E at \in header.ct + header.ch + header.b .. Len(file) :
          file' = Written(file, at, Number("entry", ch))
     /\ UNCHANGED header
  \/ bank >= header.b /\ Refused

(* cps_writeBankHeader seeks b_count - pos * 4 bytes and the offset on,    *)
(* which is never where the header of the bank is.                         *)
writeBankHeader(n, pos) ==
  LET at == OffsetPos(header, pos) + 1 + header.b - pos + At(file, OffsetPos(header, pos)).num
  IN  \/ /\ pos < header.b
         /\ ret' = 0 /\ sound' = FALSE
         /\ file' = Written(file, at, Item("bank", n, 0))
         /\ UNCHANGED header
      \/ pos >= header.b /\ Refused

create == header' = Empty /\ file' = <<>> /\ sound' = TRUE /\ ret' = 0

-----------------------------------------------------------------------------
Init == header = Empty /\ file = <<>> /\ sound = TRUE /\ ret = 0

(* A channel refers to a contact there is, or to none; an entry of a bank  *)
(* to a channel there is.                                                  *)
Contacts == -1 .. header.ct - 1
Channels == 0 .. header.ch - 1
Positions == 0 .. MaxEntries

(* Nothing is known of what the calls do to a file that was damaged.       *)
Next ==
  \/ /\ sound
     /\ \E n \in Names, pos \in Positions :
          \/ insertContact(n, pos) \/ writeContact(n, pos)
          \/ insertBankHeader(n, pos) \/ writeBankHeader(n, pos)
          \/ \E ct \in Contacts : insertChannel(n, ct, pos) \/ writeChannel(n, ct, pos)
          \/ \E ch \in Channels, bank \in 0 .. MaxBanks :
               insertBankData(ch, bank, pos) \/ writeBankData(ch, bank, pos)
  \/ create

Spec == Init /\ [][Next]_vars

-----------------------------------------------------------------------------
(* What cps_readContact, cps_readChannel, cps_readBankHeader and           *)
(* cps_readBankData give for every position there is.                      *)
ContactsRead == [i \in 1 .. header.ct |-> At(file, i - 1).name]
ChannelsRead ==
  [i \in 1 .. header.ch |-> LET c == At(file, ChannelPos(header, i - 1))
                            IN  [name |-> c.name, contact |-> c.num]]
BanksRead ==
  [i \in 1 .. header.b |->
     LET b == At(file, BankPos(header, file, i - 1))
     IN  [name |-> b.name,
          list |-> [e \in 1 .. b.num |-> At(file, EntryPos(header, file, i - 1, e - 1)).num]]]

Tables == INSTANCE CodeplugTables WITH
  contacts <- ContactsRead, channels <- ChannelsRead, banks <- BanksRead

(* The calls, each as the call on the tables with the same arguments.      *)
(* cps_writeBankData also refuses an entry whose position is more than the *)
(* number of banks, and cps_writeBankHeader does not leave a sound file    *)
(* unless it is refused.                                                   *)
CallsAct ==
  /\ ret' = -1 => UNCHANGED Tables!tables
  /\ create => Tables!Create
  /\ \A n \in Names, pos \in Positions :
       /\ insertContact(n, pos) => Tables!InsertContact(n, pos)
       /\ writeContact(n, pos) => Tables!WriteContact(n, pos)
       /\ insertBankHeader(n, pos) => Tables!InsertBank(n, pos)
       /\ writeBankHeader(n, pos) => Tables!Refused
       /\ \A ct \in Contacts : LET c == [name |-> n, contact |-> ct] IN
            /\ insertChannel(n, ct, pos) => Tables!InsertChannel(c, pos)
            /\ writeChannel(n, ct, pos) => Tables!WriteChannel(c, pos)
  /\ \A ch \in Channels, bank \in 0 .. MaxBanks, pos \in Positions :
       /\ insertBankData(ch, bank, pos) => Tables!InsertBankEntry(ch, bank, pos)
       /\ writeBankData(ch, bank, pos) =>
            IF pos <= header.b THEN Tables!WriteBankEntry(ch, bank, pos) ELSE Tables!Refused

(* A call on a sound file that leaves it sound does to the tables the      *)
(* calls read what cps_io.h says this call does with these arguments, and  *)
(* returns what it says: an insertion is done if its place is there, at    *)
(* that place, every number and offset follows, and a refused call changes *)
(* nothing.  Left out are the calls after which sound is FALSE:            *)
(* cps_writeBankHeader, cps_writeBankData on a bank that is not there, and *)
(* cps_insertChannel and cps_insertBankData in one case each.              *)
ActsAsTables == [][sound /\ sound' => CallsAct]_vars

(* Where a bank begins, and the end of the file after the last one.        *)
Start(h, f, pos) == IF pos < h.b THEN BankPos(h, f, pos) ELSE Len(f)

(* The file holds the tables and nothing else: each kind of item is in its *)
(* part of it, and from the last offset to the end of the file each bank   *)
(* begins where the one before it ends.                                    *)
Layout(h, f) ==
  /\ Start(h, f, 0) = h.ct + h.ch + h.b
  /\ \A p \in 0 .. h.b - 1 :
       LET bank == At(f, Start(h, f, p))
       IN  /\ bank.kind = "bank" /\ bank.num \in 0 .. MaxEntries
           /\ Start(h, f, p + 1) = Start(h, f, p) + 1 + bank.num
           /\ \A e \in 0 .. bank.num - 1 : At(f, EntryPos(h, f, p, e)).kind = "entry"
  /\ \A p \in 0 .. h.ct - 1 : At(f, p).kind = "contact"
  /\ \A p \in 0 .. h.ch - 1 : At(f, ChannelPos(h, p)).kind = "channel"
  /\ \A p \in 0 .. h.b - 1 : At(f, OffsetPos(h, p)).kind = "offset"

LaidOut ==
  /\ header \in [ct : 0 .. MaxContacts, ch : 0 .. MaxChannels, b : 0 .. MaxBanks]
  /\ sound \in BOOLEAN /\ ret \in {-1, 0}
  /\ file \in Seq(Items)
  /\ sound => Layout(header, file)
=============================================================================
