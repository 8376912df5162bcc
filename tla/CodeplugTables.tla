--------------------------- MODULE CodeplugTables ---------------------------
(***************************************************************************)
(* What interfaces/cps_io.h promises: a codeplug is a table of contacts, a *)
(* table of channels and a table of banks of channels.  An insertion moves *)
(* the rest of its table one place on, "updating channels accordingly" and *)
(* "updating banks accordingly".  A call returns 0 on success, and -1 when *)
(* its place is not there.                                                 *)
(***************************************************************************)
EXTENDS Integers, SequencesExt

VARIABLES
  contacts,  \* names
  channels,  \* [name, contact]: its contact, by position from 0, or -1
  banks,     \* [name, list]: its channels, by position from 0
  ret        \* what the last call returned

tables == <<contacts, channels, banks>>

Places(s) == 0 .. Len(s)
Moved(i, pos) == IF i >= pos THEN i + 1 ELSE i

PutContact(n, pos) ==
  /\ pos \in Places(contacts)
  /\ contacts' = InsertAt(contacts, pos + 1, n)
  /\ channels' = [i \in DOMAIN channels |->
                    [channels[i] EXCEPT !.contact = Moved(@, pos)]]
  /\ UNCHANGED banks

PutChannel(c, pos) ==
  /\ pos \in Places(channels)
  /\ channels' = InsertAt(channels, pos + 1, c)
  /\ banks' = [b \in DOMAIN banks |->
                 [banks[b] EXCEPT !.list = [e \in DOMAIN @ |-> Moved(@[e], pos)]]]
  /\ UNCHANGED contacts

PutBank(n, pos) ==
  /\ pos \in Places(banks)
  /\ banks' = InsertAt(banks, pos + 1, [name |-> n, list |-> <<>>])
  /\ UNCHANGED <<contacts, channels>>

PutBankEntry(ch, bank, pos) ==
  /\ bank + 1 \in DOMAIN banks
  /\ pos \in Places(banks[bank + 1].list)
  /\ banks' = [banks EXCEPT ![bank + 1].list = InsertAt(@, pos + 1, ch)]
  /\ UNCHANGED <<contacts, channels>>

SetContact(n, pos) ==
  /\ pos + 1 \in DOMAIN contacts
  /\ contacts' = [contacts EXCEPT ![pos + 1] = n]
  /\ UNCHANGED <<channels, banks>>

SetChannel(c, pos) ==
  /\ pos + 1 \in DOMAIN channels
  /\ channels' = [channels EXCEPT ![pos + 1] = c]
  /\ UNCHANGED <<contacts, banks>>

SetBankEntry(ch, bank, pos) ==
  /\ bank + 1 \in DOMAIN banks
  /\ pos + 1 \in DOMAIN banks[bank + 1].list
  /\ banks' = [banks EXCEPT ![bank + 1].list[pos + 1] = ch]
  /\ UNCHANGED <<contacts, channels>>

Clear == contacts' = <<>> /\ channels' = <<>> /\ banks' = <<>>

-----------------------------------------------------------------------------
(* The calls.  One that is refused leaves the tables alone, too: that is a *)
(* statement of its own, for any call that returns -1.                     *)

Refused == ret' = -1
Answer(fits, step) == IF fits THEN step /\ ret' = 0 ELSE Refused

Create == Clear /\ ret' = 0
InsertContact(n, pos) == Answer(pos \in Places(contacts), PutContact(n, pos))
InsertChannel(c, pos) == Answer(pos \in Places(channels), PutChannel(c, pos))
InsertBank(n, pos) == Answer(pos \in Places(banks), PutBank(n, pos))
InsertBankEntry(ch, bank, pos) ==
  Answer(bank + 1 \in DOMAIN banks /\ pos \in Places(banks[bank + 1].list),
         PutBankEntry(ch, bank, pos))
WriteContact(n, pos) == Answer(pos + 1 \in DOMAIN contacts, SetContact(n, pos))
WriteChannel(c, pos) == Answer(pos + 1 \in DOMAIN channels, SetChannel(c, pos))
WriteBankEntry(ch, bank, pos) ==
  Answer(bank + 1 \in DOMAIN banks /\ pos + 1 \in DOMAIN banks[bank + 1].list,
         SetBankEntry(ch, bank, pos))
=============================================================================
