---------------------------- MODULE XmodemProofs ----------------------------
(***************************************************************************)
(* Xmodem implements FileTransfer, for all sizes of transfers, packets and *)
(* sectors, and any number of packets damaged, lost or repeated.           *)
(*                                                                         *)
(* The two ends are in step, or the receiver is one block ahead of a       *)
(* sender that has not seen its acknowledgement (LinkAgrees).  The packets *)
(* on their way are the present block of the sender or copies of the one   *)
(* before, and those come first: so what the receiver accepts is what      *)
(* follows what it has.                                                    *)
(***************************************************************************)
EXTENDS Xmodem, TLAPS

IsPacket(p) == p.kind = "packet"

(* A copy of the block before, and one of the present block. *)
IsOld(p) == NextNum(p.num) = tx.block
Current(p) ==
  /\ tx.pc = "answer"
  /\ p.num = tx.block /\ p.from = tx.sent /\ p.real = tx.addr - tx.sent
  /\ p.len \in {Small, Large} /\ p.real <= p.len

SenderAgrees ==
  /\ tx.addr <= size /\ tx.addr <= FlashSize
  /\ tx.pc = "answer" =>
       /\ tx.sent < size /\ tx.addr - tx.sent = BlockSize
       /\ tx.addr - tx.sent <= tx.len - tx.pad
       /\ tx.addr = size \/ (tx.pad = 0 /\ tx.len = tx.addr - tx.sent)
  /\ tx.pc # "answer" => tx.sent = tx.addr \/ (tx.sent > size /\ tx.addr = size)
  /\ tx.pc \in {"eot", "returned"} => tx.addr = size
  /\ tx.pc = "failed" => tx.addr < size

ReceiverAgrees ==
  /\ rx.addr = rx.rcvd /\ rx.rcvd <= size /\ rx.rcvd <= FlashSize
  /\ rx.pc = "idle" => rx.rcvd = 0
  /\ rx.pc = "packet" => rx.rcvd < size
  /\ rx.pc \in {"eot", "returned"} => rx.rcvd = size
  /\ rx.rcvd = size \/ rx.rcvd % Large = 0

InStep ==
  /\ rx.block = tx.block
  /\ rx.rcvd = IF tx.pc = "answer" THEN tx.sent ELSE tx.addr
Ahead ==
  /\ tx.pc = "answer"
  /\ rx.block = NextNum(tx.block)
  /\ rx.rcvd = tx.addr

PacketsKnown == \A i \in 1 .. Len(toRx) : IsPacket(toRx[i]) => IsOld(toRx[i]) \/ Current(toRx[i])
AheadCurrent == Ahead => \A i \in 1 .. Len(toRx) : IsPacket(toRx[i]) => Current(toRx[i])
OldFirst ==
  \A i, j \in 1 .. Len(toRx) :
    i < j /\ IsPacket(toRx[i]) /\ IsPacket(toRx[j]) /\ toRx[i].num = tx.block
      => toRx[j].num = tx.block

NoAck(q) == \A i \in 1 .. Len(q) : q[i] # "ACK"
OneAck(q) == \A i, j \in 1 .. Len(q) : q[i] = "ACK" /\ q[j] = "ACK" => i = j
Answers ==
  rx.pc # "returned" => /\ InStep => NoAck(toTx)
                        /\ OneAck(toTx)

LinkAgrees == (InStep \/ Ahead) /\ PacketsKnown /\ AheadCurrent /\ OldFirst /\ Answers

(* What was received is in its place, and what follows is erased up to the *)
(* next sector.                                                            *)
FilledTo(f, n) == \A a \in Addresses : a < n => f[a] = a
BlankFrom(f, n) ==
  \A a \in Addresses : n <= a /\ (\A s \in n .. a : s % Sector # 0) => f[a] = Erased
FlashAgrees == FilledTo(flash, rx.rcvd) /\ BlankFrom(flash, rx.rcvd)

IInv == TypeOK /\ SenderAgrees /\ ReceiverAgrees /\ LinkAgrees /\ FlashAgrees

-----------------------------------------------------------------------------
(* Arithmetic. *)

LEMMA Positive ==
  /\ Small \in Nat /\ Large \in Nat /\ Sector \in Nat /\ FlashSize \in Nat
  /\ Small > 0 /\ Large > 0 /\ Sector > 0 /\ FlashSize > 0
  /\ Small < Large /\ Sector % Large = 0 /\ BlockNums \in Nat /\ BlockNums > 2
  /\ MaxDamaged \in Nat /\ MaxLost \in Nat /\ MaxRepeated \in Nat
  BY SizeAssumption, BlockAssumption, FaultAssumption

LEMMA NextNumOf ==
  ASSUME NEW b \in 0 .. BlockNums - 1
  PROVE  NextNum(b) \in 0 .. BlockNums - 1 /\ NextNum(b) # b
<1>1. CASE b + 1 = BlockNums
  BY <1>1, Positive DEF NextNum
<1>2. CASE b + 1 < BlockNums
  BY <1>2, Positive DEF NextNum
<1> QED BY <1>1, <1>2, Positive

LEMMA Quotient ==
  ASSUME NEW m \in Nat, m > 0, NEW a \in Nat, a % m = 0
  PROVE  \E q \in Nat : a = q * m
<1>1. a = (a \div m) * m /\ a \div m \in Nat
  OBVIOUS
<1> QED BY <1>1

LEMMA Product ==
  ASSUME NEW m \in Nat, m > 0, NEW q \in Nat, NEW a \in Nat, a = q * m
  PROVE  a % m = 0
  OBVIOUS

LEMMA NextMultiple ==
  ASSUME NEW m \in Nat, m > 0, NEW a \in Nat, a % m = 0
  PROVE  (a + m) % m = 0
<1>1. PICK q \in Nat : a = q * m
  BY Quotient
<1>2. a + m = (q + 1) * m /\ a + m \in Nat /\ q + 1 \in Nat
  BY <1>1
<1> QED BY <1>2, Product

LEMMA Apart ==
  ASSUME NEW m \in Nat, m > 0, NEW a \in Nat, NEW b \in Nat,
         a % m = 0, b % m = 0, a < b
  PROVE  a + m <= b
<1>1. PICK q \in Nat : a = q * m
  BY Quotient
<1>2. PICK r \in Nat : b = r * m
  BY Quotient
<1>3. q < r
  <2> SUFFICES ASSUME r <= q PROVE FALSE
    BY <1>1
  <2>1. r * m <= q * m
    OBVIOUS
  <2> QED BY <1>1, <1>2, <2>1
<1>4. (q + 1) * m <= r * m
  BY <1>3
<1>5. (q + 1) * m = a + m
  BY <1>1
<1> QED BY <1>2, <1>4, <1>5

LEMMA SectorsAligned == \A s \in Nat : s % Sector = 0 => s % Large = 0
<1> TAKE s \in Nat
<1> HAVE s % Sector = 0
<1>1. PICK q \in Nat : Sector = q * Large
  BY Positive, Quotient
<1>2. PICK r \in Nat : s = r * Sector
  BY Positive, Quotient
<1>3. s = (r * q) * Large /\ r * q \in Nat
  BY <1>1, <1>2, Positive
<1> QED BY <1>3, Positive, Product

LEMMA SectorsApart ==
  /\ Sector >= Large
  /\ \A s \in Nat : s % Sector = 0 => (s + Sector) % Sector = 0
  /\ \A a, s \in Nat : a % Large = 0 /\ s % Sector = 0 /\ a < s => a + Large <= s
<1>1. Sector >= Large
  <2>1. 0 % Large = 0
    BY Positive
  <2> QED BY <2>1, Positive, Apart
<1>2. \A s \in Nat : s % Sector = 0 => (s + Sector) % Sector = 0
  BY Positive, NextMultiple
<1>3. \A a, s \in Nat : a % Large = 0 /\ s % Sector = 0 /\ a < s => a + Large <= s
  BY Positive, SectorsAligned, Apart
<1> QED BY <1>1, <1>2, <1>3

-----------------------------------------------------------------------------
(* writeDataCallback puts a block that follows what is there in its place. *)
LEMMA WrittenOf ==
  ASSUME NEW f, flash \in [Addresses -> Int], NEW at \in Nat, NEW n \in Nat, NEW p \in Packets,
         0 < n, n <= Large, at % Large = 0, at + n <= FlashSize,
         p.from = at, n <= p.real,
         FilledTo(flash, at), BlankFrom(flash, at), f = Written(at, n, p)
  PROVE  /\ f \in [Addresses -> Int]
         /\ FilledTo(f, at + n)
         /\ BlankFrom(f, at + n)
<1> DEFINE blank(a) == flash[a] = Erased \/ (at % Sector = 0 /\ a \in at .. at + Sector - 1)
           here(a)  == a \in at .. at + n - 1
<1>1. f = [a \in Addresses |-> IF here(a) THEN IF blank(a) THEN ByteOf(p, a - at) ELSE Mixed
                               ELSE IF blank(a) THEN Erased ELSE flash[a]]
  BY DEF Written
<1>2. \A a \in Addresses : here(a) => blank(a)
  <2> SUFFICES ASSUME NEW a \in Addresses, here(a) PROVE blank(a)
    OBVIOUS
  <2>1. CASE at % Sector = 0
    BY <2>1, SectorsApart, Positive
  <2>2. CASE at % Sector # 0
    <3>1. \A s \in at .. a : s % Sector # 0
      <4> SUFFICES ASSUME NEW s \in at .. a, s % Sector = 0 PROVE FALSE
        OBVIOUS
      <4>1. at < s /\ s \in Nat
        BY <2>2
      <4>2. at + Large <= s
        BY <4>1, SectorsApart
      <4>3. s <= at + n - 1 /\ a \in Nat
        BY DEF Addresses
      <4> QED BY <4>2, <4>3, Positive
    <3>2. flash[a] = Erased
      BY <3>1 DEF BlankFrom, Addresses
    <3> QED BY <3>2
  <2> QED BY <2>1, <2>2
<1>3. \A a \in Addresses : here(a) => ByteOf(p, a - at) = a
  BY DEF ByteOf, Addresses, Packets
<1>4. \A a \in Addresses : here(a) => f[a] = a
  BY <1>1, <1>2, <1>3
<1>5. \A a \in Addresses : a < at => f[a] = a
  <2> SUFFICES ASSUME NEW a \in Addresses, a < at PROVE f[a] = a
    OBVIOUS
  <2>1. flash[a] = a
    BY DEF FilledTo
  <2>2. ~blank(a) /\ ~here(a)
    BY <2>1 DEF Addresses, Erased
  <2> QED BY <1>1, <2>1, <2>2
<1>6. f \in [Addresses -> Int]
  <2> SUFFICES ASSUME NEW a \in Addresses PROVE f[a] \in Int
    BY <1>1
  <2>1. CASE here(a)
    BY <1>4, <2>1 DEF Addresses
  <2>2. CASE ~here(a)
    BY <1>1, <2>2 DEF Erased
  <2> QED BY <2>1, <2>2
<1>7. FilledTo(f, at + n)
  BY <1>4, <1>5, Positive DEF FilledTo, Addresses
<1>8. BlankFrom(f, at + n)
  <2> SUFFICES ASSUME NEW a \in Addresses, at + n <= a, \A s \in at + n .. a : s % Sector # 0
               PROVE  f[a] = Erased
    BY DEF BlankFrom
  <2>1. ~here(a) /\ a \in Nat
    BY DEF Addresses
  <2>2. CASE \A s \in at .. a : s % Sector # 0
    <3>1. flash[a] = Erased
      BY <2>1, <2>2 DEF BlankFrom
    <3> QED BY <1>1, <2>1, <3>1
  <2>3. CASE \E s \in at .. a : s % Sector = 0
    <3>1. PICK s \in at .. a : s % Sector = 0
      BY <2>3
    <3>2. s < at + n
      BY <2>1, <3>1
    <3>3. s = at
      <4> SUFFICES ASSUME at < s PROVE FALSE
        BY <3>1
      <4>1. s \in Nat /\ at + Large <= s
        BY <3>1, SectorsApart
      <4> QED BY <3>2, <4>1, Positive
    <3>4. (at + Sector) % Sector = 0
      BY <3>1, <3>3, SectorsApart
    <3>5. a < at + Sector
      BY <2>1, <3>4, SectorsApart, Positive
    <3>6. blank(a)
      BY <2>1, <3>1, <3>3, <3>5, Positive
    <3> QED BY <1>1, <2>1, <3>6
  <2> QED BY <2>2, <2>3
<1> QED BY <1>6, <1>7, <1>8

-----------------------------------------------------------------------------
(* Queues. *)

LEMMA TailOf ==
  ASSUME NEW S, NEW q \in Seq(S), q # <<>>
  PROVE  /\ Head(q) = q[1] /\ Head(q) \in S /\ Tail(q) \in Seq(S)
         /\ Len(q) \in Nat /\ Len(q) >= 1 /\ Len(Tail(q)) = Len(q) - 1
         /\ \A i \in 1 .. Len(Tail(q)) : Tail(q)[i] = q[i + 1] /\ i + 1 \in 1 .. Len(q)
<1>1. Len(q) \in Nat /\ Len(q) >= 1
  OBVIOUS
<1>2. Tail(q) \in Seq(S) /\ Len(Tail(q)) = Len(q) - 1
  OBVIOUS
<1>3. Head(q) = q[1] /\ Head(q) \in S
  BY <1>1
<1>4. \A i \in 1 .. Len(Tail(q)) : Tail(q)[i] = q[i + 1] /\ i + 1 \in 1 .. Len(q)
  BY <1>1, <1>2
<1> QED BY <1>1, <1>2, <1>3, <1>4

LEMMA AppendOf ==
  ASSUME NEW S, NEW q \in Seq(S), NEW e \in S
  PROVE  /\ Append(q, e) \in Seq(S) /\ Len(q) \in Nat
         /\ Len(Append(q, e)) = Len(q) + 1
         /\ Append(q, e)[Len(q) + 1] = e
         /\ \A i \in 1 .. Len(q) : Append(q, e)[i] = q[i]
  OBVIOUS

(* The answers left, and the answers with one more. *)
LEMMA AnswerTaken ==
  ASSUME NEW q \in Seq({"C", "ACK", "NAK"}), q # <<>>
  PROVE  /\ NoAck(q) => NoAck(Tail(q))
         /\ OneAck(q) => OneAck(Tail(q))
         /\ OneAck(q) /\ Head(q) = "ACK" => NoAck(Tail(q))
<1> USE TailOf
<1>1. NoAck(q) => NoAck(Tail(q))
  BY DEF NoAck
<1>2. OneAck(q) => OneAck(Tail(q))
  <2> SUFFICES ASSUME OneAck(q), NEW i \in 1 .. Len(Tail(q)), NEW j \in 1 .. Len(Tail(q)),
                      Tail(q)[i] = "ACK", Tail(q)[j] = "ACK"
               PROVE  i = j
    BY DEF OneAck
  <2>1. q[i + 1] = "ACK" /\ q[j + 1] = "ACK" /\ i + 1 \in 1 .. Len(q) /\ j + 1 \in 1 .. Len(q)
    OBVIOUS
  <2>2. i + 1 = j + 1
    BY <2>1 DEF OneAck
  <2> QED BY <2>2
<1>3. OneAck(q) /\ Head(q) = "ACK" => NoAck(Tail(q))
  <2> SUFFICES ASSUME OneAck(q), Head(q) = "ACK", NEW i \in 1 .. Len(Tail(q)), Tail(q)[i] = "ACK"
               PROVE  FALSE
    BY DEF NoAck
  <2>1. q[i + 1] = "ACK" /\ i + 1 \in 1 .. Len(q) /\ q[1] = "ACK" /\ 1 \in 1 .. Len(q)
    OBVIOUS
  <2>2. i + 1 = 1
    BY <2>1 DEF OneAck
  <2> QED BY <2>2
<1> QED BY <1>1, <1>2, <1>3

LEMMA AnswerSent ==
  ASSUME NEW q \in Seq({"C", "ACK", "NAK"}), NEW a \in {"C", "ACK", "NAK"}
  PROVE  /\ NoAck(q) /\ a # "ACK" => NoAck(Append(q, a))
         /\ OneAck(q) /\ a # "ACK" => OneAck(Append(q, a))
         /\ NoAck(q) => OneAck(Append(q, a))
<1>0. /\ Len(q) \in Nat
      /\ Len(Append(q, a)) = Len(q) + 1
      /\ Append(q, a)[Len(q) + 1] = a
      /\ \A i \in 1 .. Len(q) : Append(q, a)[i] = q[i]
  BY AppendOf
<1>1. NoAck(q) /\ a # "ACK" => NoAck(Append(q, a))
  BY <1>0 DEF NoAck
<1>2. OneAck(q) /\ a # "ACK" => OneAck(Append(q, a))
  BY <1>0 DEF OneAck
<1>3. NoAck(q) => OneAck(Append(q, a))
  BY <1>0 DEF NoAck, OneAck
<1> QED BY <1>1, <1>2, <1>3

(* The packets left are still of the two blocks, in order. *)
LEMMA PacketTaken ==
  ASSUME TypeOK, PacketsKnown, OldFirst, AheadCurrent,
         toRx # <<>>, toRx' = Tail(toRx), tx' = tx, Ahead' => Ahead
  PROVE  PacketsKnown' /\ OldFirst' /\ AheadCurrent'
<1>1. /\ Len(toRx) \in Nat
      /\ \A i \in 1 .. Len(toRx') : toRx'[i] = toRx[i + 1] /\ i + 1 \in 1 .. Len(toRx)
  BY TailOf DEF TypeOK
<1>2. PacketsKnown'
  BY <1>1 DEF PacketsKnown, IsOld, Current
<1>3. OldFirst'
  <2> SUFFICES ASSUME NEW i \in 1 .. Len(toRx'), NEW j \in 1 .. Len(toRx'), i < j,
                      IsPacket(toRx'[i]), IsPacket(toRx'[j]), toRx'[i].num = tx'.block
               PROVE  toRx'[j].num = tx'.block
    BY DEF OldFirst, IsPacket
  <2>1. i + 1 < j + 1
    OBVIOUS
  <2> QED BY <1>1, <2>1 DEF OldFirst, IsPacket
<1>4. AheadCurrent'
  BY <1>1 DEF AheadCurrent, Current
<1> QED BY <1>2, <1>3, <1>4

(* A packet of the present block comes last. *)
LEMMA PacketSent ==
  ASSUME TypeOK, PacketsKnown, OldFirst, AheadCurrent, Ahead' => Ahead,
         NEW p \in Packets, toRx' = Append(toRx, p),
         tx'.block = tx.block, tx'.pc = "answer",
         tx.pc = "answer" => tx'.sent = tx.sent /\ tx'.addr = tx.addr,
         p.num = tx.block, p.from = tx'.sent, p.real = tx'.addr - tx'.sent,
         p.len \in {Small, Large}, p.real <= p.len
  PROVE  PacketsKnown' /\ OldFirst' /\ AheadCurrent'
<1>1. /\ Len(toRx) \in Nat /\ Len(toRx') = Len(toRx) + 1 /\ toRx'[Len(toRx) + 1] = p
      /\ \A i \in 1 .. Len(toRx) : toRx'[i] = toRx[i]
  BY AppendOf DEF TypeOK
<1>2. \A i \in 1 .. Len(toRx') : toRx'[i] = p \/ (i \in 1 .. Len(toRx) /\ toRx'[i] = toRx[i])
  BY <1>1
<1>3. PacketsKnown'
  BY <1>2 DEF PacketsKnown, IsOld, Current
<1>4. OldFirst'
  <2> SUFFICES ASSUME NEW i \in 1 .. Len(toRx'), NEW j \in 1 .. Len(toRx'), i < j,
                      IsPacket(toRx'[i]), IsPacket(toRx'[j]), toRx'[i].num = tx'.block
               PROVE  toRx'[j].num = tx'.block
    BY DEF OldFirst, IsPacket
  <2>1. i \in 1 .. Len(toRx) /\ toRx'[i] = toRx[i]
    BY <1>1
  <2> QED BY <1>2, <2>1 DEF OldFirst, IsPacket
<1>5. AheadCurrent'
  BY <1>2 DEF AheadCurrent, Current, Ahead
<1> QED BY <1>3, <1>4, <1>5

(* A command of a sender that awaits no answer disturbs nothing. *)
LEMMA CommandSent ==
  ASSUME TypeOK, PacketsKnown, OldFirst, tx.pc # "answer", tx'.pc # "answer",
         NEW c \in Packets, c.kind # "packet", toRx' = Append(toRx, c), tx'.block = tx.block
  PROVE  PacketsKnown' /\ OldFirst' /\ AheadCurrent'
<1>1. /\ Len(toRx) \in Nat /\ Len(toRx') = Len(toRx) + 1 /\ toRx'[Len(toRx) + 1] = c
      /\ \A i \in 1 .. Len(toRx) : toRx'[i] = toRx[i]
  BY AppendOf DEF TypeOK
<1>2. \A i \in 1 .. Len(toRx') : IsPacket(toRx'[i]) => i \in 1 .. Len(toRx) /\ toRx'[i] = toRx[i]
  BY <1>1 DEF IsPacket
<1>3. PacketsKnown'
  BY <1>2 DEF PacketsKnown, IsOld, Current, IsPacket
<1>4. OldFirst'
  BY <1>2 DEF OldFirst, IsPacket
<1> QED BY <1>3, <1>4 DEF AheadCurrent, Ahead

-----------------------------------------------------------------------------
(* What a step of one end leaves of the other. *)

LEMMA SenderKept == SenderAgrees /\ UNCHANGED <<size, tx>> => SenderAgrees'
  BY DEF SenderAgrees, BlockSize, Smaller

LEMMA ReceiverKept == ReceiverAgrees /\ UNCHANGED <<size, rx>> => ReceiverAgrees'
  BY DEF ReceiverAgrees

LEMMA FlashKept == FlashAgrees /\ flash' = flash /\ rx'.rcvd = rx.rcvd => FlashAgrees'
  BY DEF FlashAgrees, FilledTo, BlankFrom

LEMMA StepKept == UNCHANGED <<tx, rx>> => (InStep' <=> InStep) /\ (Ahead' <=> Ahead)
  BY DEF InStep, Ahead

LEMMA PacketsKept ==
  PacketsKnown /\ OldFirst /\ AheadCurrent /\ UNCHANGED <<tx, toRx>> /\ (Ahead' => Ahead)
    => PacketsKnown' /\ OldFirst' /\ AheadCurrent'
  BY DEF PacketsKnown, OldFirst, AheadCurrent, IsOld, Current, IsPacket

LEMMA FaultCounted ==
  ASSUME faults \in [damaged : 0 .. MaxDamaged, lost : 0 .. MaxLost, repeated : 0 .. MaxRepeated]
  PROVE  /\ faults.damaged < MaxDamaged =>
              [faults EXCEPT !.damaged = @ + 1]
                \in [damaged : 0 .. MaxDamaged, lost : 0 .. MaxLost, repeated : 0 .. MaxRepeated]
         /\ faults.lost < MaxLost =>
              [faults EXCEPT !.lost = @ + 1]
                \in [damaged : 0 .. MaxDamaged, lost : 0 .. MaxLost, repeated : 0 .. MaxRepeated]
         /\ faults.repeated < MaxRepeated =>
              [faults EXCEPT !.repeated = @ + 1]
                \in [damaged : 0 .. MaxDamaged, lost : 0 .. MaxLost, repeated : 0 .. MaxRepeated]
<1>1. /\ faults.damaged \in 0 .. MaxDamaged /\ faults.lost \in 0 .. MaxLost
      /\ faults.repeated \in 0 .. MaxRepeated
  OBVIOUS
<1>2. /\ faults.damaged < MaxDamaged => faults.damaged + 1 \in 0 .. MaxDamaged
      /\ faults.lost < MaxLost => faults.lost + 1 \in 0 .. MaxLost
      /\ faults.repeated < MaxRepeated => faults.repeated + 1 \in 0 .. MaxRepeated
  BY <1>1, Positive
<1> QED BY <1>2

LEMMA Initially == Init => IInv
<1> SUFFICES ASSUME Init PROVE IInv
  OBVIOUS
<1> USE DEF Init
<1>1. size \in Nat
  BY TransferAssumption
<1>2. TypeOK
  <2>1. flash \in [Addresses -> Int]
    BY DEF Old
  <2>2. 1 \in 0 .. BlockNums - 1 /\ 0 \in 0 .. MaxDamaged /\ 0 \in 0 .. MaxLost /\ 0 \in 0 .. MaxRepeated
    BY Positive
  <2>3. toRx \in Seq(Packets) /\ toTx \in Seq({"C", "ACK", "NAK"})
    OBVIOUS
  <2> QED BY <2>1, <2>2, <2>3 DEF TypeOK
<1>3. SenderAgrees
  BY <1>1, Positive DEF SenderAgrees
<1>4. ReceiverAgrees
  BY <1>1, Positive DEF ReceiverAgrees
<1>5. LinkAgrees
  <2>1. Len(toRx) = 0 /\ Len(toTx) = 0
    OBVIOUS
  <2> QED BY <2>1 DEF LinkAgrees, InStep, PacketsKnown, AheadCurrent, OldFirst, Answers, NoAck, OneAck
<1>6. FlashAgrees
  <2>1. FilledTo(flash, 0)
    BY DEF FilledTo, Addresses
  <2>2. BlankFrom(flash, 0)
    <3>1. \A a \in Addresses : 0 \in 0 .. a /\ 0 % Sector = 0
      BY Positive DEF Addresses
    <3> QED BY <3>1 DEF BlankFrom
  <2> QED BY <2>1, <2>2 DEF FlashAgrees
<1> QED BY <1>2, <1>3, <1>4, <1>5, <1>6 DEF IInv

-----------------------------------------------------------------------------
(* The steps of the sender. *)

LEMMA Numbers ==
  TypeOK => /\ size \in Nat
            /\ tx.block \in 0 .. BlockNums - 1 /\ tx.sent \in Nat /\ tx.addr \in Nat
            /\ tx.len \in Nat /\ tx.pad \in Nat
            /\ rx.block \in 0 .. BlockNums - 1 /\ rx.rcvd \in Nat /\ rx.addr \in Nat
  BY TransferAssumption DEF TypeOK

(* The block and its padding make a packet of one of the two sizes. *)
LEMMA PaddedBlock ==
  ASSUME TypeOK, tx.sent < size
  PROVE  /\ BlockSize \in Nat /\ PadSize(BlockSize) \in Nat
         /\ BlockSize > 0 /\ BlockSize <= Large /\ BlockSize <= size - tx.sent
         /\ BlockSize + PadSize(BlockSize) \in {Small, Large}
         /\ BlockSize = size - tx.sent \/ (BlockSize = Large /\ PadSize(BlockSize) = 0)
  BY Numbers, Positive DEF BlockSize, PadSize, Smaller

(* The block that awaits its acknowledgement. *)
PresentBlock ==
  /\ tx.sent < tx.addr /\ tx.addr <= size
  /\ tx.addr - tx.sent <= Large
  /\ tx.addr - tx.sent <= tx.len - tx.pad
  /\ tx.addr = size \/ (tx.pad = 0 /\ tx.len = tx.addr - tx.sent)
  /\ tx.addr = size \/ tx.addr - tx.sent = Large

LEMMA BlockPresent == ASSUME TypeOK, SenderAgrees, tx.pc = "answer" PROVE PresentBlock
<1>1. /\ tx.addr <= size /\ tx.sent < size /\ tx.addr - tx.sent = BlockSize
      /\ tx.addr - tx.sent <= tx.len - tx.pad
      /\ tx.addr = size \/ (tx.pad = 0 /\ tx.len = tx.addr - tx.sent)
  BY DEF SenderAgrees
<1>2. /\ BlockSize \in Nat /\ BlockSize > 0 /\ BlockSize <= Large
      /\ BlockSize = size - tx.sent \/ BlockSize = Large
  BY <1>1, PaddedBlock
<1> QED BY <1>1, <1>2, Numbers DEF PresentBlock

LEMMA SendBlockKeeps == ASSUME IInv, SendBlock PROVE IInv'
<1> DEFINE n == BlockSize
           m == PadSize(n)
           p == [kind |-> "packet", num |-> tx.block, from |-> tx.sent,
                 len |-> n + m, real |-> n]
<1>0. TypeOK /\ SenderAgrees /\ ReceiverAgrees /\ LinkAgrees /\ FlashAgrees
  BY DEF IInv
<1>1. /\ tx.pc = "block" /\ tx.sent < size /\ tx.addr + n <= FlashSize
      /\ tx' = [tx EXCEPT !.pc = "answer", !.addr = @ + n, !.pad = m, !.len = n + m]
      /\ SendPacket(tx')
      /\ UNCHANGED <<size, rx, flash, toTx, faults>>
  BY DEF SendBlock
<1>2. /\ n \in Nat /\ m \in Nat
      /\ n > 0 /\ n <= Large /\ n <= size - tx.sent
      /\ n + m \in {Small, Large} /\ n + m \in Nat
      /\ n = size - tx.sent \/ (n = Large /\ m = 0)
  BY <1>0, <1>1, PaddedBlock
<1>3. BlockSize' = n
  <2>1. size' = size /\ tx'.sent = tx.sent
    BY <1>0, <1>1 DEF TypeOK
  <2> QED BY <2>1 DEF BlockSize, Smaller
<1> HIDE DEF n, m
<1>4. /\ tx' \in [pc : {"start", "block", "answer", "eot", "returned", "failed"},
                  block : 0 .. BlockNums - 1, sent : Nat, addr : Nat, len : Nat, pad : Nat]
      /\ tx'.pc = "answer" /\ tx'.block = tx.block /\ tx'.sent = tx.sent
      /\ tx'.addr = tx.addr + n /\ tx'.pad = m /\ tx'.len = n + m
  <2>1. tx \in [pc : {"start", "block", "answer", "eot", "returned", "failed"},
                block : 0 .. BlockNums - 1, sent : Nat, addr : Nat, len : Nat, pad : Nat]
    BY <1>0 DEF TypeOK
  <2>2. tx' = [pc |-> "answer", block |-> tx.block, sent |-> tx.sent,
               addr |-> tx.addr + n, len |-> n + m, pad |-> m]
    BY <1>1, <2>1
  <2>3. tx.addr + n \in Nat
    BY <1>2, <2>1
  <2> QED BY <1>2, <2>1, <2>2, <2>3
<1>5. tx.sent = tx.addr
  BY <1>0, <1>1, Numbers DEF SenderAgrees
<1>6. /\ toRx' = Append(toRx, p) /\ p \in Packets
      /\ p.num = tx.block /\ p.from = tx'.sent /\ p.real = tx'.addr - tx'.sent
      /\ p.len \in {Small, Large} /\ p.real <= p.len
  <2>1. tx'.addr - tx'.sent = n
    BY <1>0, <1>2, <1>4, <1>5, Numbers
  <2>2. toRx' = Append(toRx, p)
    BY <1>1, <1>2, <1>4, <2>1 DEF SendPacket
  <2>3. p \in Packets
    BY <1>0, <1>2, Numbers DEF Packets
  <2> QED BY <1>2, <1>4, <2>1, <2>2, <2>3
<1> HIDE DEF p
<1>7. TypeOK'
  <2>1. toRx' \in Seq(Packets)
    BY <1>0, <1>6, AppendOf DEF TypeOK
  <2> QED BY <1>0, <1>1, <1>4, <2>1 DEF TypeOK
<1>8. SenderAgrees'
  BY <1>0, <1>1, <1>2, <1>3, <1>4, <1>5, Numbers DEF SenderAgrees
<1>9. InStep /\ InStep' /\ ~Ahead'
  BY <1>0, <1>1, <1>4, <1>5, NextNumOf, Numbers DEF LinkAgrees, InStep, Ahead
<1>10. PacketsKnown' /\ OldFirst' /\ AheadCurrent'
  <2>1. PacketsKnown /\ OldFirst /\ AheadCurrent
    BY <1>0 DEF LinkAgrees
  <2> QED BY <1>0, <1>1, <1>4, <1>6, <1>9, <2>1, PacketSent
<1>11. LinkAgrees'
  BY <1>0, <1>1, <1>9, <1>10 DEF LinkAgrees, Answers
<1> QED BY <1>0, <1>1, <1>7, <1>8, <1>11, ReceiverKept, FlashKept DEF IInv

LEMMA SenderStops ==
  ASSUME IInv, CancelTransfer \/ SendEot
  PROVE  IInv'
<1>0. TypeOK /\ SenderAgrees /\ ReceiverAgrees /\ LinkAgrees /\ FlashAgrees
  BY DEF IInv
<1>1. tx.pc = "block" /\ UNCHANGED <<size, rx, flash, toTx, faults>>
  BY DEF CancelTransfer, SendEot
<1>2. PICK c \in {Command("CAN"), Command("EOT")} : toRx' = Append(toRx, c)
  BY DEF CancelTransfer, SendEot
<1>3. c \in Packets /\ c.kind # "packet"
  <2>1. 0 \in 0 .. BlockNums - 1
    BY Positive
  <2> QED BY <2>1 DEF Command, Packets
<1>4. /\ tx'.pc \in {"failed", "eot"} /\ tx'.block = tx.block /\ tx'.sent = tx.sent /\ tx'.addr = tx.addr
      /\ tx' \in [pc : {"start", "block", "answer", "eot", "returned", "failed"},
                  block : 0 .. BlockNums - 1, sent : Nat, addr : Nat, len : Nat, pad : Nat]
  BY <1>0 DEF TypeOK, CancelTransfer, SendEot
<1>5. TypeOK'
  <2>1. toRx' \in Seq(Packets)
    BY <1>0, <1>2, <1>3, AppendOf DEF TypeOK
  <2> QED BY <1>0, <1>1, <1>4, <2>1 DEF TypeOK
<1>6. SenderAgrees'
  <2>1. CASE CancelTransfer
    <3>1. tx.sent < size /\ tx'.pc = "failed"
      BY <1>0, <2>1 DEF CancelTransfer, TypeOK
    <3>2. tx.addr = tx.sent
      BY <1>0, <1>1, <3>1, Numbers DEF SenderAgrees
    <3> QED BY <1>0, <1>1, <1>4, <3>1, <3>2, Numbers DEF SenderAgrees
  <2>2. CASE SendEot
    <3>1. tx.sent >= size /\ tx'.pc = "eot"
      BY <1>0, <2>2 DEF SendEot, TypeOK
    <3>2. tx.addr = size
      BY <1>0, <1>1, <3>1, Numbers DEF SenderAgrees
    <3> QED BY <1>0, <1>1, <1>4, <3>1, <3>2, Numbers DEF SenderAgrees
  <2> QED BY <2>1, <2>2
<1>7. InStep /\ InStep'
  BY <1>0, <1>1, <1>4 DEF LinkAgrees, InStep, Ahead
<1>8. PacketsKnown' /\ OldFirst' /\ AheadCurrent'
  BY <1>0, <1>1, <1>2, <1>3, <1>4, CommandSent DEF LinkAgrees
<1>9. LinkAgrees'
  BY <1>0, <1>1, <1>7, <1>8 DEF LinkAgrees, Answers
<1> QED BY <1>0, <1>1, <1>5, <1>6, <1>9, ReceiverKept, FlashKept DEF IInv

LEMMA StartedKeeps == ASSUME IInv, Started \/ TransferAcknowledged PROVE IInv'
<1>0. TypeOK /\ SenderAgrees /\ ReceiverAgrees /\ LinkAgrees /\ FlashAgrees
  BY DEF IInv
<1>1. /\ tx.pc # "answer" /\ toTx # <<>> /\ toTx' = Tail(toTx)
      /\ UNCHANGED <<size, rx, flash, faults, toRx>>
  BY DEF Started, TransferAcknowledged, TakeAnswer
<1>2. /\ tx'.pc \in {"block", "returned"} /\ (tx'.pc = "returned" => tx.pc = "eot")
      /\ tx'.block = tx.block /\ tx'.sent = tx.sent /\ tx'.addr = tx.addr
      /\ tx' \in [pc : {"start", "block", "answer", "eot", "returned", "failed"},
                  block : 0 .. BlockNums - 1, sent : Nat, addr : Nat, len : Nat, pad : Nat]
  BY <1>0 DEF TypeOK, Started, TransferAcknowledged
<1>3. TypeOK'
  <2>1. toTx' \in Seq({"C", "ACK", "NAK"})
    BY <1>0, <1>1, TailOf DEF TypeOK
  <2> QED BY <1>0, <1>1, <1>2, <2>1 DEF TypeOK
<1>4. SenderAgrees'
  BY <1>0, <1>1, <1>2 DEF SenderAgrees
<1>5. InStep /\ InStep'
  BY <1>0, <1>1, <1>2 DEF LinkAgrees, InStep, Ahead
<1>6. PacketsKnown' /\ OldFirst' /\ AheadCurrent'
  BY <1>0, <1>1, <1>2 DEF LinkAgrees, PacketsKnown, OldFirst, AheadCurrent, IsOld, Current, IsPacket, Ahead
<1>7. Answers'
  BY <1>0, <1>1, <1>5, AnswerTaken DEF LinkAgrees, Answers, TypeOK
<1>8. LinkAgrees'
  BY <1>5, <1>6, <1>7 DEF LinkAgrees
<1> QED BY <1>0, <1>1, <1>3, <1>4, <1>8, ReceiverKept, FlashKept DEF IInv

(* An acknowledgement is of a block the receiver has. *)
LEMMA AckMeansAhead ==
  ASSUME IInv, tx.pc = "answer", toTx # <<>>, Head(toTx) = "ACK"
  PROVE  Ahead
<1>0. TypeOK /\ SenderAgrees /\ ReceiverAgrees /\ LinkAgrees
  BY DEF IInv
<1> SUFFICES ASSUME InStep PROVE FALSE
  BY <1>0 DEF LinkAgrees
<1>1. CASE rx.pc = "returned"
  BY <1>0, <1>1, Numbers DEF InStep, SenderAgrees, ReceiverAgrees
<1>2. CASE rx.pc # "returned"
  <2>1. NoAck(toTx)
    BY <1>0, <1>2 DEF LinkAgrees, Answers
  <2>2. 1 \in 1 .. Len(toTx) /\ toTx[1] = "ACK"
    BY <1>0, TailOf DEF TypeOK
  <2> QED BY <2>1, <2>2 DEF NoAck
<1> QED BY <1>1, <1>2

LEMMA BlockAcknowledgedKeeps == ASSUME IInv, BlockAcknowledged PROVE IInv'
<1>0. TypeOK /\ SenderAgrees /\ ReceiverAgrees /\ LinkAgrees /\ FlashAgrees
  BY DEF IInv
<1>1. /\ tx.pc = "answer" /\ toTx # <<>> /\ Head(toTx) = "ACK" /\ toTx' = Tail(toTx)
      /\ UNCHANGED <<size, rx, flash, faults, toRx>>
  BY DEF BlockAcknowledged, TakeAnswer
<1>2. /\ tx'.pc = "block" /\ tx'.block = NextNum(tx.block) /\ tx'.addr = tx.addr
      /\ tx'.sent = tx.sent + tx.len - tx.pad
  BY <1>0 DEF TypeOK, BlockAcknowledged
<1>3. tx'.sent \in Nat /\ (tx'.sent = tx.addr \/ (tx'.sent > size /\ tx.addr = size))
  <2>1. PresentBlock
    BY <1>0, <1>1, BlockPresent
  <2> QED BY <1>0, <1>2, <2>1, Numbers DEF PresentBlock
<1>4. NextNum(tx.block) \in 0 .. BlockNums - 1 /\ NextNum(tx.block) # tx.block
  BY <1>0, Numbers, NextNumOf
<1>5. TypeOK'
  <2>1. toTx' \in Seq({"C", "ACK", "NAK"})
    BY <1>0, <1>1, TailOf DEF TypeOK
  <2>2. tx' \in [pc : {"start", "block", "answer", "eot", "returned", "failed"},
                 block : 0 .. BlockNums - 1, sent : Nat, addr : Nat, len : Nat, pad : Nat]
    BY <1>0, <1>2, <1>3, <1>4 DEF TypeOK, BlockAcknowledged
  <2> QED BY <1>0, <1>1, <2>1, <2>2 DEF TypeOK
<1>6. SenderAgrees'
  BY <1>0, <1>1, <1>2, <1>3 DEF SenderAgrees
<1>7. Ahead /\ InStep'
  <2>1. Ahead
    BY <1>1, AckMeansAhead
  <2> QED BY <1>1, <1>2, <2>1 DEF Ahead, InStep
<1>8. \A i \in 1 .. Len(toRx) : IsPacket(toRx[i]) => toRx[i].num = tx.block
  BY <1>0, <1>7 DEF LinkAgrees, AheadCurrent, Current
<1>9. PacketsKnown' /\ OldFirst' /\ AheadCurrent'
  BY <1>1, <1>2, <1>4, <1>8 DEF PacketsKnown, OldFirst, AheadCurrent, IsOld, IsPacket, Ahead
<1>10. Answers'
  BY <1>0, <1>1, AnswerTaken DEF LinkAgrees, Answers, TypeOK
<1>11. LinkAgrees'
  BY <1>7, <1>9, <1>10 DEF LinkAgrees
<1> QED BY <1>0, <1>1, <1>5, <1>6, <1>11, ReceiverKept, FlashKept DEF IInv

(* The present block is sent once more, if its packet has a size there is. *)
LEMMA SentAgain ==
  ASSUME TypeOK, LinkAgrees, tx.pc = "answer", SendPacket(tx'), UNCHANGED <<size, rx>>,
         tx'.pc = "answer", tx'.block = tx.block, tx'.sent = tx.sent, tx'.addr = tx.addr,
         tx'.len \in Nat, tx.sent <= tx.addr, tx.addr - tx.sent <= tx'.len
  PROVE  /\ toRx' \in Seq(Packets)
         /\ (InStep \/ Ahead)' /\ (InStep' <=> InStep)
         /\ PacketsKnown' /\ OldFirst' /\ AheadCurrent'
<1> DEFINE p == [kind |-> "packet", num |-> tx.block, from |-> tx.sent,
                 len |-> tx'.len, real |-> tx.addr - tx.sent]
<1>0. InStep \/ Ahead
  BY DEF LinkAgrees
<1>1. (InStep' <=> InStep) /\ (Ahead' <=> Ahead) /\ PacketsKnown /\ OldFirst /\ AheadCurrent
  BY DEF LinkAgrees, InStep, Ahead
<1>2. (InStep \/ Ahead)'
  BY <1>0, <1>1
<1>3. CASE tx'.len \in {Small, Large}
  <2>1. toRx' = Append(toRx, p)
    BY <1>3 DEF SendPacket
  <2>2. /\ p \in Packets /\ p.num = tx.block /\ p.from = tx'.sent
        /\ p.real = tx'.addr - tx'.sent /\ p.len \in {Small, Large} /\ p.real <= p.len
    BY <1>3, Numbers DEF Packets
  <2> HIDE DEF p
  <2>3. toRx' \in Seq(Packets)
    BY <2>1, <2>2, AppendOf DEF TypeOK
  <2>4. PacketsKnown' /\ OldFirst' /\ AheadCurrent'
    BY <1>1, <2>1, <2>2, PacketSent
  <2> QED BY <1>1, <1>2, <2>3, <2>4
<1>4. CASE tx'.len \notin {Small, Large}
  <2>1. toRx' = toRx
    BY <1>4 DEF SendPacket
  <2>2. PacketsKnown' /\ OldFirst' /\ AheadCurrent'
    BY <1>1, <2>1 DEF PacketsKnown, OldFirst, AheadCurrent, IsOld, Current, IsPacket
  <2> QED BY <1>1, <1>2, <2>1, <2>2 DEF TypeOK
<1> QED BY <1>3, <1>4

LEMMA BlockRefusedKeeps == ASSUME IInv, BlockRefused PROVE IInv'
<1>0. TypeOK /\ SenderAgrees /\ ReceiverAgrees /\ LinkAgrees /\ FlashAgrees
  BY DEF IInv
<1>1. /\ tx.pc = "answer" /\ toTx # <<>> /\ toTx' = Tail(toTx) /\ SendPacket(tx')
      /\ UNCHANGED <<size, rx, flash, faults>>
  BY DEF BlockRefused, TakeAnswer
<1>2. /\ tx'.pc = "answer" /\ tx'.block = tx.block /\ tx'.sent = tx.sent /\ tx'.addr = tx.addr
      /\ tx'.pad = tx.pad /\ tx'.len = tx.len + tx.pad
      /\ tx' \in [pc : {"start", "block", "answer", "eot", "returned", "failed"},
                  block : 0 .. BlockNums - 1, sent : Nat, addr : Nat, len : Nat, pad : Nat]
  <2>1. tx \in [pc : {"start", "block", "answer", "eot", "returned", "failed"},
                block : 0 .. BlockNums - 1, sent : Nat, addr : Nat, len : Nat, pad : Nat]
    BY <1>0 DEF TypeOK
  <2>2. tx' = [pc |-> tx.pc, block |-> tx.block, sent |-> tx.sent,
               addr |-> tx.addr, len |-> tx.len + tx.pad, pad |-> tx.pad]
    BY <2>1 DEF BlockRefused
  <2>3. tx.len + tx.pad \in Nat
    BY <2>1
  <2> QED BY <1>1, <2>1, <2>2, <2>3
<1>3. BlockSize' = BlockSize
  BY <1>1, <1>2 DEF BlockSize, Smaller
<1>B. PresentBlock
  BY <1>0, <1>1, BlockPresent
<1>4. SenderAgrees'
  <2>1. /\ tx.addr - tx.sent <= tx'.len - tx'.pad
        /\ tx.addr = size \/ (tx'.pad = 0 /\ tx'.len = tx.addr - tx.sent)
    BY <1>0, <1>2, <1>B, Numbers DEF PresentBlock
  <2> QED BY <1>0, <1>1, <1>2, <1>3, <2>1 DEF SenderAgrees
<1>5. /\ toRx' \in Seq(Packets)
      /\ (InStep \/ Ahead)' /\ (InStep' <=> InStep)
      /\ PacketsKnown' /\ OldFirst' /\ AheadCurrent'
  <2>1. tx'.len \in Nat /\ tx.sent <= tx.addr /\ tx.addr - tx.sent <= tx'.len
    BY <1>0, <1>2, <1>B, Numbers DEF PresentBlock
  <2> QED BY <1>0, <1>1, <1>2, <2>1, SentAgain
<1>6. TypeOK'
  <2>1. toTx' \in Seq({"C", "ACK", "NAK"})
    BY <1>0, <1>1, TailOf DEF TypeOK
  <2> QED BY <1>0, <1>1, <1>2, <1>5, <2>1 DEF TypeOK
<1>7. Answers'
  BY <1>0, <1>1, <1>5, AnswerTaken DEF LinkAgrees, Answers, TypeOK
<1>8. LinkAgrees'
  BY <1>5, <1>7 DEF LinkAgrees
<1> QED BY <1>0, <1>1, <1>4, <1>6, <1>8, ReceiverKept, FlashKept DEF IInv

LEMMA PacketRepeatedKeeps == ASSUME IInv, PacketRepeated PROVE IInv'
<1>0. TypeOK /\ SenderAgrees /\ ReceiverAgrees /\ LinkAgrees /\ FlashAgrees
  BY DEF IInv
<1>1. tx.pc = "answer" /\ SendPacket(tx) /\ UNCHANGED <<size, tx, rx, flash, toTx>>
  BY DEF PacketRepeated
<1>2. SendPacket(tx')
  BY <1>1 DEF SendPacket
<1>B. PresentBlock
  BY <1>0, <1>1, BlockPresent
<1>3. /\ toRx' \in Seq(Packets)
      /\ (InStep \/ Ahead)' /\ (InStep' <=> InStep)
      /\ PacketsKnown' /\ OldFirst' /\ AheadCurrent'
  <2>1. tx'.len \in Nat /\ tx.sent <= tx.addr /\ tx.addr - tx.sent <= tx'.len
    BY <1>0, <1>1, <1>B, Numbers DEF PresentBlock
  <2> QED BY <1>0, <1>1, <1>2, <2>1, SentAgain
<1>4. TypeOK'
  <2>1. faults' \in [damaged : 0 .. MaxDamaged, lost : 0 .. MaxLost, repeated : 0 .. MaxRepeated]
    BY <1>0, FaultCounted DEF TypeOK, PacketRepeated
  <2> QED BY <1>0, <1>1, <1>3, <2>1 DEF TypeOK
<1>5. LinkAgrees'
  BY <1>0, <1>1, <1>3 DEF LinkAgrees, Answers
<1> QED BY <1>0, <1>1, <1>4, <1>5, SenderKept, ReceiverKept, FlashKept DEF IInv

-----------------------------------------------------------------------------
(* The steps of the receiver, and the line. *)

LEMMA RequestKeeps == ASSUME IInv, Request PROVE IInv'
<1>0. TypeOK /\ SenderAgrees /\ ReceiverAgrees /\ LinkAgrees /\ FlashAgrees
  BY DEF IInv
<1>1. rx.pc = "idle" /\ toTx' = Append(toTx, "C") /\ UNCHANGED <<size, tx, flash, toRx, faults>>
  BY DEF Request
<1>2. /\ rx'.pc = IF size = 0 THEN "eot" ELSE "packet"
      /\ rx'.block = rx.block /\ rx'.rcvd = rx.rcvd /\ rx'.addr = rx.addr
      /\ rx' \in [pc : {"idle", "packet", "eot", "returned"},
                  block : 0 .. BlockNums - 1, rcvd : Nat, addr : Nat]
  BY <1>0 DEF TypeOK, Request
<1>3. TypeOK'
  <2>1. toTx' \in Seq({"C", "ACK", "NAK"})
    BY <1>0, <1>1, AppendOf DEF TypeOK
  <2> QED BY <1>0, <1>1, <1>2, <2>1 DEF TypeOK
<1>4. ReceiverAgrees'
  BY <1>0, <1>1, <1>2, Numbers DEF ReceiverAgrees
<1>5. (InStep' <=> InStep) /\ (Ahead' <=> Ahead)
  BY <1>1, <1>2 DEF InStep, Ahead
<1>6. PacketsKnown' /\ OldFirst' /\ AheadCurrent'
  BY <1>0, <1>1, <1>5, PacketsKept DEF LinkAgrees
<1>7. Answers'
  BY <1>0, <1>1, <1>5, AnswerSent DEF LinkAgrees, Answers, TypeOK
<1>8. LinkAgrees'
  BY <1>0, <1>5, <1>6, <1>7 DEF LinkAgrees
<1> QED BY <1>0, <1>1, <1>2, <1>3, <1>4, <1>8, SenderKept, FlashKept DEF IInv

(* A packet is taken away, and at most a NAK is sent. *)
LEMMA PacketDropped ==
  ASSUME IInv, toRx # <<>>, toRx' = Tail(toRx), UNCHANGED <<size, tx, rx, flash>>,
         toTx' \in {toTx, Append(toTx, "NAK")},
         faults' \in [damaged : 0 .. MaxDamaged, lost : 0 .. MaxLost, repeated : 0 .. MaxRepeated]
  PROVE  IInv'
<1>0. TypeOK /\ SenderAgrees /\ ReceiverAgrees /\ LinkAgrees /\ FlashAgrees
  BY DEF IInv
<1>1. TypeOK'
  <2>1. toTx \in Seq({"C", "ACK", "NAK"}) /\ Append(toTx, "NAK") \in Seq({"C", "ACK", "NAK"})
    BY <1>0, AppendOf DEF TypeOK
  <2>2. toRx' \in Seq(Packets)
    BY <1>0, TailOf DEF TypeOK
  <2> QED BY <1>0, <2>1, <2>2 DEF TypeOK
<1>2. (InStep' <=> InStep) /\ (Ahead' <=> Ahead)
  BY StepKept
<1>3. PacketsKnown' /\ OldFirst' /\ AheadCurrent'
  BY <1>0, <1>2, PacketTaken DEF LinkAgrees
<1>4. Answers'
  BY <1>0, <1>2, AnswerSent DEF LinkAgrees, Answers, TypeOK
<1>5. LinkAgrees'
  BY <1>0, <1>2, <1>3, <1>4 DEF LinkAgrees
<1> QED BY <1>0, <1>1, <1>5, SenderKept, ReceiverKept, FlashKept DEF IInv

LEMMA DroppedKeeps ==
  ASSUME IInv, BadPacketRefused \/ CommandSkipped \/ NoEot \/ PacketLost
  PROVE  IInv'
<1>0. faults \in [damaged : 0 .. MaxDamaged, lost : 0 .. MaxLost, repeated : 0 .. MaxRepeated]
  BY DEF IInv, TypeOK
<1>1. CASE BadPacketRefused
  BY <1>0, <1>1, PacketDropped DEF BadPacketRefused, TakePacket
<1>2. CASE CommandSkipped
  BY <1>0, <1>2, PacketDropped DEF CommandSkipped, TakePacket
<1>3. CASE NoEot
  BY <1>0, <1>3, PacketDropped DEF NoEot, TakePacket
<1>4. CASE PacketLost
  <2>1. faults' \in [damaged : 0 .. MaxDamaged, lost : 0 .. MaxLost, repeated : 0 .. MaxRepeated]
    BY <1>0, <1>4, FaultCounted DEF PacketLost
  <2> QED BY <1>4, <2>1, PacketDropped DEF PacketLost
<1> QED BY <1>1, <1>2, <1>3, <1>4

LEMMA EotReceivedKeeps == ASSUME IInv, EotReceived PROVE IInv'
<1>0. TypeOK /\ SenderAgrees /\ ReceiverAgrees /\ LinkAgrees /\ FlashAgrees
  BY DEF IInv
<1>1. /\ rx.pc = "eot" /\ toRx # <<>> /\ toRx' = Tail(toRx) /\ toTx' = Append(toTx, "ACK")
      /\ UNCHANGED <<size, tx, flash, faults>>
  BY DEF EotReceived, TakePacket
<1>2. /\ rx'.pc = "returned" /\ rx'.block = rx.block /\ rx'.rcvd = rx.rcvd /\ rx'.addr = rx.addr
      /\ rx' \in [pc : {"idle", "packet", "eot", "returned"},
                  block : 0 .. BlockNums - 1, rcvd : Nat, addr : Nat]
  BY <1>0 DEF TypeOK, EotReceived
<1>3. TypeOK'
  <2>1. toTx' \in Seq({"C", "ACK", "NAK"}) /\ toRx' \in Seq(Packets)
    BY <1>0, <1>1, AppendOf, TailOf DEF TypeOK
  <2> QED BY <1>0, <1>1, <1>2, <2>1 DEF TypeOK
<1>4. ReceiverAgrees'
  BY <1>0, <1>1, <1>2 DEF ReceiverAgrees
<1>5. (InStep' <=> InStep) /\ (Ahead' <=> Ahead)
  BY <1>1, <1>2 DEF InStep, Ahead
<1>6. PacketsKnown' /\ OldFirst' /\ AheadCurrent'
  BY <1>0, <1>1, <1>5, PacketTaken DEF LinkAgrees
<1>7. LinkAgrees'
  BY <1>0, <1>2, <1>5, <1>6 DEF LinkAgrees, Answers
<1> QED BY <1>0, <1>1, <1>2, <1>3, <1>4, <1>7, SenderKept, FlashKept DEF IInv

(* What is accepted is the present block, whole. *)
LEMMA AcceptedIsPresent ==
  ASSUME IInv, toRx # <<>>, Accepts(Head(toRx))
  PROVE  /\ InStep /\ Current(Head(toRx)) /\ Head(toRx).num = tx.block
         /\ Smaller(Head(toRx).len, size - rx.rcvd) = tx.addr - tx.sent
<1>0. TypeOK /\ SenderAgrees /\ ReceiverAgrees /\ LinkAgrees
  BY DEF IInv
<1> DEFINE p == Head(toRx)
<1>1. p = toRx[1] /\ p \in Packets /\ 1 \in 1 .. Len(toRx)
  BY <1>0, TailOf DEF TypeOK
<1>2. p.kind = "packet" /\ p.num = rx.block
  BY DEF Accepts
<1> HIDE DEF p
<1>3. \/ NextNum(p.num) = tx.block
      \/ Current(p)
  BY <1>0, <1>1, <1>2 DEF LinkAgrees, PacketsKnown, IsPacket, IsOld
<1>4. Ahead => Current(p)
  BY <1>0, <1>1, <1>2 DEF LinkAgrees, AheadCurrent, IsPacket
<1>5. NextNum(tx.block) # tx.block
  BY <1>0, Numbers, NextNumOf
<1>6. ~Ahead
  BY <1>2, <1>4, <1>5 DEF Ahead, Current
<1>7. InStep
  BY <1>0, <1>6 DEF LinkAgrees
<1>8. Current(p)
  BY <1>2, <1>3, <1>5, <1>7 DEF InStep
<1>9. Smaller(p.len, size - rx.rcvd) = tx.addr - tx.sent
  <2>1. PresentBlock
    BY <1>0, <1>8, BlockPresent DEF Current
  <2>2. rx.rcvd = tx.sent
    BY <1>7, <1>8 DEF InStep, Current
  <2>3. p.len \in {Small, Large} /\ tx.addr - tx.sent <= p.len
    BY <1>8 DEF Current
  <2>4. /\ p.len \in Nat /\ p.len <= Large
        /\ tx.sent \in Nat /\ tx.addr \in Nat /\ size \in Nat /\ tx.addr <= size
        /\ tx.addr = size \/ tx.addr - tx.sent = Large
    <3>1. p.len \in Nat /\ p.len <= Large
      BY <2>3, Positive
    <3>2. tx.sent \in Nat /\ tx.addr \in Nat /\ size \in Nat
      BY <1>0, Numbers
    <3> QED BY <2>1, <3>1, <3>2 DEF PresentBlock
  <2>5. CASE p.len < size - rx.rcvd
    <3>1. tx.addr - tx.sent = Large /\ p.len = Large
      BY <2>2, <2>3, <2>4, <2>5, Positive
    <3> QED BY <2>5, <3>1 DEF Smaller
  <2>6. CASE ~(p.len < size - rx.rcvd)
    <3>1. tx.addr = size
      BY <2>2, <2>3, <2>4, <2>6, Positive
    <3> QED BY <2>2, <2>6, <3>1 DEF Smaller
  <2> QED BY <2>5, <2>6
<1> QED BY <1>7, <1>8, <1>9 DEF Current, p

LEMMA BlockReceivedKeeps == ASSUME IInv, BlockReceived PROVE IInv'
<1>0. TypeOK /\ SenderAgrees /\ ReceiverAgrees /\ LinkAgrees /\ FlashAgrees
  BY DEF IInv
<1> DEFINE p == Head(toRx)
           n == Smaller(p.len, size - rx.rcvd)
<1>1. /\ rx.pc = "packet" /\ toRx # <<>> /\ toRx' = Tail(toRx) /\ Accepts(p)
      /\ flash' = Written(rx.addr, n, p)
      /\ rx' = [pc    |-> IF rx.rcvd + n < size THEN "packet" ELSE "eot",
                block |-> NextNum(rx.block),
                rcvd  |-> rx.rcvd + n,
                addr  |-> rx.addr + n]
      /\ toTx' = Append(toTx, "ACK")
      /\ UNCHANGED <<size, tx, faults>>
  BY DEF BlockReceived, TakePacket
<1>2. InStep /\ Current(p) /\ p.num = tx.block /\ n = tx.addr - tx.sent
  BY <1>1, AcceptedIsPresent
<1>3. p = toRx[1] /\ p \in Packets /\ 1 \in 1 .. Len(toRx) /\ p.kind = "packet"
  BY <1>0, <1>1, TailOf DEF TypeOK, Accepts
<1> HIDE DEF p, n
<1>4. PresentBlock /\ tx.pc = "answer"
  BY <1>0, <1>2, BlockPresent DEF Current
<1>5. /\ n \in Nat /\ 0 < n /\ n <= Large
      /\ rx.rcvd = tx.sent /\ rx.rcvd + n = tx.addr /\ rx.addr = rx.rcvd
      /\ tx.addr <= size /\ tx.addr <= FlashSize
      /\ rx.rcvd < size /\ (rx.rcvd + n = size \/ n = Large)
  <2>1. rx.rcvd = tx.sent /\ rx.addr = rx.rcvd /\ tx.addr <= FlashSize
    BY <1>0, <1>2, <1>4 DEF InStep, ReceiverAgrees, SenderAgrees
  <2> QED BY <1>0, <1>2, <1>4, <2>1, Numbers DEF PresentBlock
<1>6. NextNum(rx.block) \in 0 .. BlockNums - 1 /\ NextNum(rx.block) # rx.block
  BY <1>0, Numbers, NextNumOf
<1>7. rx.rcvd % Large = 0
  BY <1>0, <1>5, Numbers DEF ReceiverAgrees
<1>8. flash' \in [Addresses -> Int] /\ FlashAgrees'
  <2>1. p.from = rx.rcvd /\ n <= p.real
    BY <1>2, <1>5 DEF Current
  <2>2. FilledTo(flash, rx.rcvd) /\ BlankFrom(flash, rx.rcvd) /\ flash \in [Addresses -> Int]
    BY <1>0 DEF FlashAgrees, TypeOK
  <2>3. flash' = Written(rx.rcvd, n, p) /\ rx.rcvd \in Nat /\ rx.rcvd + n <= FlashSize
    BY <1>0, <1>1, <1>5, Numbers
  <2>4. /\ flash' \in [Addresses -> Int]
        /\ FilledTo(flash', rx.rcvd + n) /\ BlankFrom(flash', rx.rcvd + n)
    BY <1>3, <1>5, <1>7, <2>1, <2>2, <2>3, WrittenOf
  <2> QED BY <1>1, <2>4 DEF FlashAgrees, FilledTo, BlankFrom
<1>9. TypeOK'
  <2>1. toTx' \in Seq({"C", "ACK", "NAK"}) /\ toRx' \in Seq(Packets)
    BY <1>0, <1>1, AppendOf, TailOf DEF TypeOK
  <2>2. rx' \in [pc : {"idle", "packet", "eot", "returned"},
                 block : 0 .. BlockNums - 1, rcvd : Nat, addr : Nat]
    BY <1>0, <1>1, <1>5, <1>6, Numbers
  <2> QED BY <1>0, <1>1, <1>8, <2>1, <2>2 DEF TypeOK
<1>10. ReceiverAgrees'
  <2>1. rx.rcvd + n = size \/ (rx.rcvd + n) % Large = 0
    BY <1>0, <1>5, <1>7, Numbers, Positive, NextMultiple
  <2> QED BY <1>0, <1>1, <1>5, <2>1, Numbers DEF ReceiverAgrees
<1>11. Ahead' /\ ~InStep'
  BY <1>1, <1>2, <1>4, <1>5, <1>6 DEF Ahead, InStep
<1>12. PacketsKnown' /\ OldFirst' /\ AheadCurrent'
  <2>1. /\ Len(toRx) \in Nat
        /\ \A i \in 1 .. Len(toRx') : toRx'[i] = toRx[i + 1] /\ i + 1 \in 1 .. Len(toRx)
    BY <1>0, <1>1, TailOf DEF TypeOK
  <2>2. \A j \in 1 .. Len(toRx) : 1 < j /\ IsPacket(toRx[j]) => toRx[j].num = tx.block
    BY <1>0, <1>2, <1>3 DEF LinkAgrees, OldFirst, IsPacket
  <2>3. NextNum(tx.block) # tx.block
    BY <1>0, Numbers, NextNumOf
  <2>4. \A i \in 1 .. Len(toRx') : IsPacket(toRx'[i]) => Current(toRx[i + 1]) /\ toRx'[i] = toRx[i + 1]
    BY <1>0, <2>1, <2>2, <2>3 DEF LinkAgrees, PacketsKnown, IsOld, IsPacket
  <2>5. \A i \in 1 .. Len(toRx') : IsPacket(toRx'[i]) => Current(toRx[i])' /\ toRx'[i].num = tx.block
    BY <1>1, <2>4 DEF Current
  <2> QED BY <1>1, <2>5 DEF PacketsKnown, OldFirst, AheadCurrent, IsPacket
<1>13. Answers'
  BY <1>0, <1>1, <1>2, <1>11, AnswerSent DEF LinkAgrees, Answers, TypeOK
<1>14. LinkAgrees'
  BY <1>11, <1>12, <1>13 DEF LinkAgrees
<1> QED BY <1>0, <1>1, <1>8, <1>9, <1>10, <1>14, SenderKept DEF IInv

LEMMA AnswerLostKeeps == ASSUME IInv, AnswerLost PROVE IInv'
<1>0. TypeOK /\ SenderAgrees /\ ReceiverAgrees /\ LinkAgrees /\ FlashAgrees
  BY DEF IInv
<1>1. toTx # <<>> /\ toTx' = Tail(toTx) /\ UNCHANGED <<size, tx, rx, flash, toRx>>
  BY DEF AnswerLost
<1>2. TypeOK'
  <2>1. toTx' \in Seq({"C", "ACK", "NAK"})
    BY <1>0, <1>1, TailOf DEF TypeOK
  <2>2. faults' \in [damaged : 0 .. MaxDamaged, lost : 0 .. MaxLost, repeated : 0 .. MaxRepeated]
    BY <1>0, FaultCounted DEF TypeOK, AnswerLost
  <2> QED BY <1>0, <1>1, <2>1, <2>2 DEF TypeOK
<1>3. (InStep' <=> InStep) /\ (Ahead' <=> Ahead)
  BY <1>1, StepKept
<1>4. PacketsKnown' /\ OldFirst' /\ AheadCurrent'
  BY <1>0, <1>1, <1>3, PacketsKept DEF LinkAgrees
<1>5. Answers'
  BY <1>0, <1>1, <1>3, AnswerTaken DEF LinkAgrees, Answers, TypeOK
<1>6. LinkAgrees'
  BY <1>0, <1>3, <1>4, <1>5 DEF LinkAgrees
<1> QED BY <1>0, <1>1, <1>2, <1>6, SenderKept, ReceiverKept, FlashKept DEF IInv

LEMMA PacketDamagedKeeps == ASSUME IInv, PacketDamaged PROVE IInv'
<1>0. TypeOK /\ SenderAgrees /\ ReceiverAgrees /\ LinkAgrees /\ FlashAgrees
  BY DEF IInv
<1>1. UNCHANGED <<size, tx, rx, flash, toTx>>
  BY DEF PacketDamaged
<1>2. PICK k \in DOMAIN toRx : toRx' = [toRx EXCEPT ![k].kind = "damaged"]
  BY DEF PacketDamaged
<1>3. toRx \in Seq(Packets) /\ DOMAIN toRx = 1 .. Len(toRx) /\ Len(toRx) \in Nat
  BY <1>0 DEF TypeOK
<1>4. [toRx[k] EXCEPT !.kind = "damaged"] \in Packets
  <2>1. toRx[k] \in Packets
    BY <1>2, <1>3
  <2> QED BY <2>1 DEF Packets
<1>5. /\ toRx' \in Seq(Packets) /\ Len(toRx') = Len(toRx)
      /\ \A i \in 1 .. Len(toRx') : IsPacket(toRx'[i]) => toRx'[i] = toRx[i]
  <2>1. toRx' = [toRx EXCEPT ![k] = [toRx[k] EXCEPT !.kind = "damaged"]]
    BY <1>2
  <2>2. toRx' \in Seq(Packets) /\ Len(toRx') = Len(toRx)
    BY <1>2, <1>3, <1>4, <2>1
  <2>3. toRx'[k].kind = "damaged"
    <3>1. toRx[k] \in Packets /\ toRx'[k] = [toRx[k] EXCEPT !.kind = "damaged"]
      BY <1>2, <1>3, <2>1
    <3> QED BY <3>1 DEF Packets
  <2>4. \A i \in 1 .. Len(toRx) : i # k => toRx'[i] = toRx[i]
    BY <1>3, <2>1
  <2> QED BY <2>2, <2>3, <2>4 DEF IsPacket
<1>6. TypeOK'
  <2>1. faults' \in [damaged : 0 .. MaxDamaged, lost : 0 .. MaxLost, repeated : 0 .. MaxRepeated]
    BY <1>0, FaultCounted DEF TypeOK, PacketDamaged
  <2> QED BY <1>0, <1>1, <1>5, <2>1 DEF TypeOK
<1>7. (InStep' <=> InStep) /\ (Ahead' <=> Ahead)
  BY <1>1, StepKept
<1>8. PacketsKnown'
  BY <1>0, <1>1, <1>5 DEF LinkAgrees, PacketsKnown, IsOld, Current, IsPacket
<1>9. OldFirst'
  BY <1>0, <1>1, <1>5 DEF LinkAgrees, OldFirst, IsPacket
<1>10. AheadCurrent'
  BY <1>0, <1>1, <1>5, <1>7 DEF LinkAgrees, AheadCurrent, Current, IsPacket
<1>11. LinkAgrees'
  BY <1>0, <1>1, <1>7, <1>8, <1>9, <1>10 DEF LinkAgrees, Answers
<1> QED BY <1>0, <1>1, <1>6, <1>11, SenderKept, ReceiverKept, FlashKept DEF IInv

LEMMA StepKeeps == IInv /\ [Next]_vars => IInv'
<1> SUFFICES ASSUME IInv, [Next]_vars PROVE IInv'
  OBVIOUS
<1>1. CASE Sender
  BY <1>1, SendBlockKeeps, SenderStops, StartedKeeps, BlockAcknowledgedKeeps, BlockRefusedKeeps DEF Sender
<1>2. CASE Receiver
  BY <1>2, RequestKeeps, BlockReceivedKeeps, DroppedKeeps, EotReceivedKeeps DEF Receiver
<1>3. CASE Line
  BY <1>3, PacketDamagedKeeps, DroppedKeeps, AnswerLostKeeps, PacketRepeatedKeeps DEF Line
<1>4. CASE UNCHANGED vars
  <2>1. UNCHANGED <<size, tx, rx, flash, toRx, toTx, faults>>
    BY <1>4 DEF vars
  <2>2. TypeOK' /\ SenderAgrees' /\ ReceiverAgrees' /\ FlashAgrees'
    BY <2>1, SenderKept, ReceiverKept, FlashKept DEF IInv, TypeOK
  <2>3. (InStep' <=> InStep) /\ (Ahead' <=> Ahead)
    BY <2>1, StepKept
  <2>4. LinkAgrees'
    BY <2>1, <2>3, PacketsKept DEF IInv, LinkAgrees, Answers
  <2> QED BY <2>2, <2>4 DEF IInv
<1> QED BY <1>1, <1>2, <1>3, <1>4 DEF Next

-----------------------------------------------------------------------------
(* The steps of FileTransfer. *)

LEMMA EndedIs ==
  /\ Ended("returned") = "done" /\ Ended("failed") = "failed"
  /\ \A pc : pc \notin {"returned", "failed"} => Ended(pc) = "busy"
  BY DEF Ended

LEMMA ReceivedIs ==
  IInv => /\ Received = Abstract!Source(rx.rcvd) /\ Len(Received) = rx.rcvd
          /\ size \in Nat /\ rx.rcvd \in Nat /\ rx.rcvd <= size
<1> SUFFICES ASSUME IInv
             PROVE  /\ Received = Abstract!Source(rx.rcvd) /\ Len(Received) = rx.rcvd
                    /\ size \in Nat /\ rx.rcvd \in Nat /\ rx.rcvd <= size
  OBVIOUS
<1>1. size \in Nat /\ rx.rcvd \in Nat /\ rx.rcvd <= size /\ rx.rcvd <= FlashSize /\ FilledTo(flash, rx.rcvd)
  BY Numbers DEF IInv, ReceiverAgrees, FlashAgrees
<1>2. \A i \in 1 .. rx.rcvd : i - 1 \in Addresses /\ flash[i - 1] = i - 1
  BY <1>1, Positive DEF FilledTo, Addresses
<1>3. Received = Abstract!Source(rx.rcvd)
  BY <1>2 DEF Received, Abstract!Source
<1>4. Len(Received) = rx.rcvd
  BY <1>1 DEF Received
<1> QED BY <1>1, <1>3, <1>4

LEMMA InitRefines == Init => Abstract!Init
<1> SUFFICES ASSUME Init PROVE Abstract!Init
  OBVIOUS
<1>1. size \in Nat /\ rx.rcvd = 0 /\ Ended(tx.pc) = "busy" /\ Ended(rx.pc) = "busy"
  BY TransferAssumption, EndedIs DEF Init
<1>2. Received = <<>>
  BY <1>1 DEF Received
<1> QED BY <1>1, <1>2 DEF Abstract!Init

LEMMA StepRefines == IInv /\ IInv' /\ [Next]_vars => [Abstract!Next]_(Abstract!vars)
<1> SUFFICES ASSUME IInv, IInv', [Next]_vars
             PROVE  Abstract!Next \/ UNCHANGED <<size, Received, Ended(tx.pc), Ended(rx.pc)>>
  BY DEF Abstract!vars
<1>0. size' = size
  BY DEF Next, vars, Sender, Receiver, Line, SendBlock, CancelTransfer, SendEot, Started, BlockAcknowledged,
         BlockRefused, TransferAcknowledged, TakeAnswer, Request, BlockReceived, BadPacketRefused,
         CommandSkipped, EotReceived, NoEot, TakePacket, PacketDamaged, PacketLost, AnswerLost, PacketRepeated
<1>1. tx \in [pc : {"start", "block", "answer", "eot", "returned", "failed"},
              block : 0 .. BlockNums - 1, sent : Nat, addr : Nat, len : Nat, pad : Nat]
  BY DEF IInv, TypeOK
<1>2. rx \in [pc : {"idle", "packet", "eot", "returned"},
              block : 0 .. BlockNums - 1, rcvd : Nat, addr : Nat]
  BY DEF IInv, TypeOK
<1>3. ASSUME UNCHANGED <<rx, flash>> PROVE UNCHANGED <<Received, Ended(rx.pc)>>
  BY <1>3 DEF Received, Ended
<1>4. CASE SendBlock \/ SendEot \/ Started \/ BlockAcknowledged \/ BlockRefused
  <2>1. tx.pc \notin {"returned", "failed"} /\ tx'.pc \notin {"returned", "failed"} /\ UNCHANGED <<rx, flash>>
    BY <1>1, <1>4 DEF SendBlock, SendEot, Started, BlockAcknowledged, BlockRefused, TakeAnswer
  <2> QED BY <1>0, <1>3, <2>1, EndedIs
<1>5. CASE CancelTransfer
  <2>1. tx.pc = "block" /\ tx'.pc = "failed" /\ UNCHANGED <<rx, flash>>
    BY <1>1, <1>5 DEF CancelTransfer
  <2>2. Len(Received) < size
    <3>1. tx.addr < size
      BY <1>1, <1>5, <2>1, Numbers DEF IInv, SenderAgrees, CancelTransfer
    <3>2. rx.rcvd = tx.addr
      BY <2>1 DEF IInv, LinkAgrees, InStep, Ahead
    <3> QED BY <3>1, <3>2, ReceivedIs
  <2>3. Abstract!SenderFails
    BY <1>0, <1>3, <2>1, <2>2, EndedIs DEF Abstract!SenderFails
  <2> QED BY <2>3 DEF Abstract!Next
<1>6. CASE TransferAcknowledged
  <2>1. tx.pc = "eot" /\ tx'.pc = "returned" /\ UNCHANGED <<rx, flash>>
    BY <1>1, <1>6 DEF TransferAcknowledged, TakeAnswer
  <2>2. Len(Received) = size
    <3>1. tx.addr = size
      BY <2>1 DEF IInv, SenderAgrees
    <3>2. rx.rcvd = tx.addr
      BY <2>1 DEF IInv, LinkAgrees, InStep, Ahead
    <3> QED BY <3>1, <3>2, ReceivedIs
  <2>3. Abstract!SenderReturns
    BY <1>0, <1>3, <2>1, <2>2, EndedIs DEF Abstract!SenderReturns
  <2> QED BY <2>3 DEF Abstract!Next
<1>7. CASE BlockReceived
  <2>1. rx.pc = "packet" /\ rx'.pc \in {"packet", "eot"} /\ tx' = tx
    BY <1>7 DEF BlockReceived, TakePacket
  <2>2. rx'.rcvd = tx.addr /\ rx.rcvd = tx.sent /\ tx.sent < tx.addr
    <3>1. InStep /\ tx.pc = "answer" /\ rx'.rcvd = rx.rcvd + (tx.addr - tx.sent)
      BY <1>7, AcceptedIsPresent DEF BlockReceived, TakePacket, Current
    <3>2. PresentBlock
      BY <3>1, BlockPresent DEF IInv
    <3>3. tx.sent \in Nat /\ tx.addr \in Nat
      BY <1>1
    <3> QED BY <3>1, <3>2, <3>3 DEF InStep, PresentBlock
  <2>3. (/\ Received = Abstract!Source(rx.rcvd) /\ Len(Received) = rx.rcvd
         /\ size \in Nat /\ rx.rcvd \in Nat /\ rx.rcvd <= size)'
    BY ReceivedIs, PTL
  <2>4. Abstract!Source(rx.rcvd)' = Abstract!Source(rx'.rcvd)
    BY DEF Abstract!Source
  <2>5. rx'.rcvd \in Len(Received) + 1 .. size
    BY <1>0, <1>1, <2>2, <2>3, ReceivedIs
  <2>6. Abstract!Deliver
    BY <1>0, <2>1, <2>3, <2>4, <2>5, EndedIs DEF Abstract!Deliver
  <2> QED BY <2>6 DEF Abstract!Next
<1>8. CASE EotReceived
  <2>1. rx.pc = "eot" /\ rx'.pc = "returned" /\ rx'.rcvd = rx.rcvd /\ UNCHANGED <<tx, flash>>
    BY <1>2, <1>8 DEF EotReceived, TakePacket
  <2>2. Received' = Received
    BY <2>1 DEF Received
  <2>3. Len(Received) = size
    BY <2>1, ReceivedIs DEF IInv, ReceiverAgrees
  <2>4. Abstract!ReceiverReturns
    BY <1>0, <2>1, <2>2, <2>3, EndedIs DEF Abstract!ReceiverReturns
  <2> QED BY <2>4 DEF Abstract!Next
<1>9. CASE Request
  <2>1. rx.pc = "idle" /\ rx'.pc \in {"packet", "eot"} /\ rx'.rcvd = rx.rcvd /\ UNCHANGED <<tx, flash>>
    BY <1>2, <1>9 DEF Request
  <2>2. Received' = Received
    BY <2>1 DEF Received
  <2> QED BY <1>0, <2>1, <2>2, EndedIs
<1>10. CASE BadPacketRefused \/ CommandSkipped \/ NoEot \/ Line \/ UNCHANGED vars
  <2>1. UNCHANGED <<tx, rx, flash>>
    BY <1>10 DEF BadPacketRefused, CommandSkipped, NoEot, TakePacket, Line, vars,
                 PacketDamaged, PacketLost, AnswerLost, PacketRepeated
  <2> QED BY <1>0, <1>3, <2>1
<1> QED BY <1>4, <1>5, <1>6, <1>7, <1>8, <1>9, <1>10 DEF Next, Sender, Receiver

-----------------------------------------------------------------------------
LEMMA Invariant == Spec => []IInv
<1>1. Init => IInv
  BY Initially
<1>2. IInv /\ [Next]_vars => IInv'
  BY StepKeeps
<1> QED BY <1>1, <1>2, PTL DEF Spec

(* Every variable has the values the code can give it, whatever the sizes  *)
(* and the faults of the line: no counter of either end runs away.         *)
THEOREM TypeCorrect == Spec => []TypeOK
<1>1. IInv => TypeOK
  BY DEF IInv
<1> QED BY <1>1, Invariant, PTL

(* The transfer of xmodem.c does what xmodem.h promises: what was written  *)
(* to flash is the source in order, each byte once, and neither end        *)
(* returns before all of it was, for every size of transfer and any number *)
(* of packets damaged, lost or repeated and answers lost.                  *)
THEOREM TransfersAlways == Spec => Transfers
<1>1. Init => Abstract!Init
  BY InitRefines
<1>2. IInv /\ IInv' /\ [Next]_vars => [Abstract!Next]_(Abstract!vars)
  BY StepRefines
<1> QED BY <1>1, <1>2, Invariant, PTL DEF Spec, Transfers, Abstract!Spec
=============================================================================
