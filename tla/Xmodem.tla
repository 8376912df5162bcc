------------------------------- MODULE Xmodem -------------------------------
(***************************************************************************)
(* A dump of the external flash of one radio that is the restore of        *)
(* another (core/backup.c), over XMODEM (core/xmodem.c): xmodem_sendData   *)
(* at one end of a serial line, xmodem_receiveData at the other.           *)
(*                                                                         *)
(* The line keeps order.  It may damage a packet, which the CRC tells, or  *)
(* lose a packet (its first byte damaged, the receiver looks for another)  *)
(* or an answer.  The sender of this code waits for an answer for ever; a  *)
(* PC in its place repeats the packet after a while.                       *)
(***************************************************************************)
EXTENDS Integers, Sequences

CONSTANTS
  Small, Large,  \* payload of a packet: 128 and 1024 bytes
  BlockNums,     \* block numbers: 256
  Sector,        \* bytes erased at once: 4096
  FlashSize,     \* EFLASH_SIZE
  Sizes,         \* sizes of transfers
  MaxDamaged, MaxLost, MaxRepeated  \* bounds of the faults

ASSUME SizeAssumption ==
  /\ {Small, Large, Sector, FlashSize} \subseteq Nat \ {0}
  /\ 2 * Small <= Large /\ Sector % Large = 0
ASSUME BlockAssumption == BlockNums \in Nat /\ BlockNums > 2
ASSUME TransferAssumption == Sizes \subseteq Nat
ASSUME FaultAssumption == {MaxDamaged, MaxLost, MaxRepeated} \subseteq Nat

VARIABLES
  size,    \* the argument of xmodem_sendData and xmodem_receiveData
  tx,      \* xmodem_sendData and getDataCallback
  rx,      \* xmodem_receiveData and writeDataCallback
  flash,   \* the flash that is restored: where each byte came from
  toRx,    \* packets and commands on their way to the receiver
  toTx,    \* answers on their way to the sender
  faults   \* packets damaged, packets and answers lost, packets repeated

vars == <<size, tx, rx, flash, toRx, toTx, faults>>

(* What a byte of flash may be, other than a position in the source.       *)
Old == -1
Erased == -2
Mixed == -3
Pad == -4

Addresses == 0 .. FlashSize - 1
NextNumUnwrapped(b) == b + 1
NextNum(b) == (b + 1) % BlockNums
Smaller(a, b) == IF a < b THEN a ELSE b

-----------------------------------------------------------------------------
(* The sender.                                                             *)

Command(kind) == [kind |-> kind, num |-> 0, from |-> 0, len |-> 0, real |-> 0]

(* xmodem_sendPacket: a packet of a size XMODEM does not have is not sent. *)
(* Its first bytes are the source from where the block started, the rest   *)
(* is padding.                                                             *)
SendPacket(t) ==
  toRx' = IF t.len \in {Small, Large}
            THEN Append(toRx, [kind |-> "packet", num |-> t.block, from |-> t.sent,
                               len  |-> t.len,    real |-> t.addr - t.sent])
            ELSE toRx

BlockSize == Smaller(size - tx.sent, Large)
PadSize(n) == IF n < Small THEN Small - n ELSE Large - n

(* The top of the loop: the callback reads a block, which is padded and    *)
(* sent.                                                                   *)
SendBlock ==
  /\ tx.pc = "block"
  /\ tx.sent < size
  /\ tx.addr + BlockSize <= FlashSize
  /\ tx' = [tx EXCEPT !.pc   = "answer",
                      !.addr = @ + BlockSize,
                      !.pad  = PadSize(BlockSize),
                      !.len  = BlockSize + PadSize(BlockSize)]
  /\ SendPacket(tx')
  /\ UNCHANGED <<size, rx, flash, toTx, faults>>

(* The callback fails: the transfer is cancelled.                          *)
CancelTransfer ==
  /\ tx.pc = "block"
  /\ tx.sent < size
  /\ tx.addr + BlockSize > FlashSize
  /\ tx' = [tx EXCEPT !.pc = "failed"]
  /\ toRx' = Append(toRx, Command("CAN"))
  /\ UNCHANGED <<size, rx, flash, toTx, faults>>

SendEot ==
  /\ tx.pc = "block"
  /\ tx.sent >= size
  /\ tx' = [tx EXCEPT !.pc = "eot"]
  /\ toRx' = Append(toRx, Command("EOT"))
  /\ UNCHANGED <<size, rx, flash, toTx, faults>>

TakeAnswer(a) ==
  /\ toTx # <<>>
  /\ Head(toTx) = a
  /\ toTx' = Tail(toTx)
  /\ UNCHANGED <<size, rx, flash, faults>>

Started ==
  /\ tx.pc = "start"
  /\ TakeAnswer("C")
  /\ tx' = [tx EXCEPT !.pc = "block"]
  /\ UNCHANGED toRx

(* sentSize grows by the block without its padding.                        *)
BlockAcknowledged ==
  /\ tx.pc = "answer"
  /\ TakeAnswer("ACK")
  /\ tx' = [tx EXCEPT !.pc = "block", !.sent = @ + tx.len - tx.pad, !.block = NextNum(@)]
  /\ UNCHANGED toRx

(* Once more around the do loop, which adds the padding to the block size  *)
(* again.                                                                  *)
BlockRefused ==
  /\ tx.pc = "answer"
  /\ TakeAnswer("NAK")
  /\ tx' = [tx EXCEPT !.len = @ + tx.pad]
  /\ SendPacket(tx')

(* No NAK is on its way any more: the receiver sends none after the        *)
(* acknowledgement of the last block.                                      *)
TransferAcknowledged ==
  /\ tx.pc = "eot"
  /\ TakeAnswer("ACK")
  /\ tx' = [tx EXCEPT !.pc = "returned"]
  /\ UNCHANGED toRx

-----------------------------------------------------------------------------
(* The receiver.                                                           *)

Request ==
  /\ rx.pc = "idle"
  /\ rx' = [rx EXCEPT !.pc = IF size = 0 THEN "eot" ELSE "packet"]
  /\ toTx' = Append(toTx, "C")
  /\ UNCHANGED <<size, tx, flash, toRx, faults>>

AcceptsAnyNumber(p) == p.kind = "packet"

(* xmodem_receivePacket: the checks of the block number and of the CRC.    *)
Accepts(p) == p.kind = "packet" /\ p.num = rx.block

ByteOf(p, i) == IF i < p.real THEN p.from + i ELSE Pad

(* writeDataCallback: a sector is erased when the address is at its start; *)
(* what is programmed over other data is neither.                          *)
Written(at, n, p) ==
  LET blank(a) == \/ flash[a] = Erased
                  \/ at % Sector = 0 /\ a \in at .. at + Sector - 1
  IN  [a \in Addresses |->
         IF a \in at .. at + n - 1 THEN IF blank(a) THEN ByteOf(p, a - at) ELSE Mixed
         ELSE IF blank(a) THEN Erased ELSE flash[a]]

TakePacket ==
  /\ toRx # <<>>
  /\ toRx' = Tail(toRx)
  /\ UNCHANGED <<size, tx, faults>>

(* The delta of the last block is what was still to come.                  *)
BlockReceived ==
  LET p     == Head(toRx)
      delta == Smaller(p.len, size - rx.rcvd)
  IN  /\ rx.pc = "packet"
      /\ TakePacket
      /\ Accepts(p)
      /\ flash' = Written(rx.addr, delta, p)
      /\ rx' = [pc    |-> IF rx.rcvd + delta < size THEN "packet" ELSE "eot",
                block |-> NextNum(rx.block),
                rcvd  |-> rx.rcvd + delta,
                addr  |-> rx.addr + delta]
      /\ toTx' = Append(toTx, "ACK")

BadPacketIgnored ==
  /\ rx.pc = "packet"
  /\ TakePacket
  /\ ~Accepts(Head(toRx))
  /\ toTx' = toTx
  /\ UNCHANGED <<rx, flash>>

BadPacketRefused ==
  /\ rx.pc = "packet"
  /\ TakePacket
  /\ Head(toRx).kind \in {"packet", "damaged"}
  /\ ~Accepts(Head(toRx))
  /\ toTx' = Append(toTx, "NAK")
  /\ UNCHANGED <<rx, flash>>

(* No byte of it starts a packet: the cancellation of a transfer is not    *)
(* looked for.                                                             *)
CommandSkipped ==
  /\ rx.pc = "packet"
  /\ TakePacket
  /\ Head(toRx).kind \in {"CAN", "EOT"}
  /\ UNCHANGED <<rx, flash, toTx>>

(* Waiting for EOT; a packet that was repeated may hold a byte like it.    *)
EotReceived ==
  /\ rx.pc = "eot"
  /\ TakePacket
  /\ Head(toRx).kind # "CAN"
  /\ rx' = [rx EXCEPT !.pc = "returned"]
  /\ toTx' = Append(toTx, "ACK")
  /\ UNCHANGED flash

NoEot ==
  /\ rx.pc = "eot"
  /\ TakePacket
  /\ Head(toRx).kind # "EOT"
  /\ UNCHANGED <<rx, flash, toTx>>

-----------------------------------------------------------------------------
(* The line, and the PC.                                                   *)

PacketDamaged ==
  /\ faults.damaged < MaxDamaged
  /\ faults' = [faults EXCEPT !.damaged = @ + 1]
  /\ \E i \in DOMAIN toRx :
       toRx[i].kind = "packet" /\ toRx' = [toRx EXCEPT ![i].kind = "damaged"]
  /\ UNCHANGED <<size, tx, rx, flash, toTx>>

PacketLost ==
  /\ faults.lost < MaxLost
  /\ toRx # <<>>
  /\ faults' = [faults EXCEPT !.lost = @ + 1]
  /\ toRx' = Tail(toRx)
  /\ UNCHANGED <<size, tx, rx, flash, toTx>>

AnswerLost ==
  /\ faults.lost < MaxLost
  /\ toTx # <<>>
  /\ faults' = [faults EXCEPT !.lost = @ + 1]
  /\ toTx' = Tail(toTx)
  /\ UNCHANGED <<size, tx, rx, flash, toRx>>

(* A PC that has no answer for some time repeats what it sent.             *)
PacketRepeated ==
  /\ faults.repeated < MaxRepeated
  /\ tx.pc = "answer"
  /\ faults' = [faults EXCEPT !.repeated = @ + 1]
  /\ SendPacket(tx)
  /\ UNCHANGED <<size, tx, rx, flash, toTx>>

-----------------------------------------------------------------------------
Init ==
  /\ size \in Sizes
  /\ tx = [pc |-> "start", block |-> 1, sent |-> 0, addr |-> 0, len |-> 0, pad |-> 0]
  /\ rx = [pc |-> "idle", block |-> 1, rcvd |-> 0, addr |-> 0]
  /\ flash = [a \in Addresses |-> Old]
  /\ toRx = <<>>
  /\ toTx = <<>>
  /\ faults = [damaged |-> 0, lost |-> 0, repeated |-> 0]

Sender == \/ SendBlock \/ CancelTransfer \/ SendEot
          \/ Started \/ BlockAcknowledged \/ BlockRefused
          \/ TransferAcknowledged

Receiver == \/ Request \/ BlockReceived \/ BadPacketRefused \/ CommandSkipped
            \/ EotReceived \/ NoEot

Line == PacketDamaged \/ PacketLost \/ AnswerLost \/ PacketRepeated

Next == Sender \/ Receiver \/ Line

Spec == Init /\ [][Next]_vars

(* Both ends run as long as they have something to do.                     *)
FairSpec == Spec /\ WF_vars(Sender) /\ WF_vars(Receiver)

-----------------------------------------------------------------------------
(* Every variable has the values the code can give it.                     *)
Packets == [kind : {"packet", "damaged", "CAN", "EOT"}, num : 0 .. BlockNums - 1,
            from : Nat, len : Nat, real : Nat]

TypeOK ==
  /\ size \in Sizes
  /\ tx \in [pc : {"start", "block", "answer", "eot", "returned", "failed"},
             block : 0 .. BlockNums - 1, sent : Nat, addr : Nat, len : Nat, pad : Nat]
  /\ rx \in [pc : {"idle", "packet", "eot", "returned"},
             block : 0 .. BlockNums - 1, rcvd : Nat, addr : Nat]
  /\ flash \in [Addresses -> Int]
  /\ toRx \in Seq(Packets)
  /\ toTx \in Seq({"C", "ACK", "NAK"})
  /\ faults \in [damaged : 0 .. MaxDamaged, lost : 0 .. MaxLost, repeated : 0 .. MaxRepeated]

(* The promise of xmodem.h and the purpose of a backup: what the receiver  *)
(* has written is the source in order, each byte once, and no end returns  *)
(* the size before everything was written, whatever was damaged, lost or   *)
(* sent twice.                                                             *)
Received == [i \in 1 .. rx.rcvd |-> flash[i - 1]]
Ended(pc) == CASE pc = "returned" -> "done" [] pc = "failed" -> "failed" [] OTHER -> "busy"
Abstract == INSTANCE FileTransfer WITH
  file <- Received, sender <- Ended(tx.pc), receiver <- Ended(rx.pc)
Transfers == Abstract!Spec

(* A transfer in whole packets ends at both sides, although packets are    *)
(* damaged or repeated, when nothing is lost.  (A block that is padded and *)
(* refused is never sent again.)                                           *)
TransferEnds ==
  size <= FlashSize /\ size % Large = 0 /\ [](faults.lost = 0)
    => <>(tx.pc = "returned" /\ rx.pc = "returned")
=============================================================================
