---------------------------- MODULE FileTransfer ----------------------------
(***************************************************************************)
(* What core/xmodem.h promises of a transfer: the receiver gets the data   *)
(* of the sender in order, each byte once, and neither end returns the     *)
(* size of the transfer before all of it has arrived.                      *)
(***************************************************************************)
EXTENDS Integers, Sequences

VARIABLES
  size,      \* bytes to be transferred
  file,      \* what the receiver has, a sequence of positions in the source
  sender,    \* "busy", "done" or "failed"
  receiver   \* "busy" or "done"

vars == <<size, file, sender, receiver>>

Source(n) == [i \in 1 .. n |-> i - 1]

Init ==
  /\ size \in Nat
  /\ file = <<>>
  /\ sender = "busy"
  /\ receiver = "busy"

Deliver ==
  /\ receiver = "busy"
  /\ \E n \in Len(file) + 1 .. size : file' = Source(n)
  /\ UNCHANGED <<size, sender, receiver>>

(* The data run out before the size asked for, or the source has more.     *)
SenderFails ==
  /\ sender = "busy"
  /\ Len(file) < size
  /\ sender' = "failed"
  /\ UNCHANGED <<size, file, receiver>>

SenderReturns ==
  /\ sender = "busy"
  /\ Len(file) = size
  /\ sender' = "done"
  /\ UNCHANGED <<size, file, receiver>>

ReceiverReturns ==
  /\ receiver = "busy"
  /\ Len(file) = size
  /\ receiver' = "done"
  /\ UNCHANGED <<size, file, sender>>

Next == Deliver \/ SenderFails \/ SenderReturns \/ ReceiverReturns

Spec == Init /\ [][Next]_vars
=============================================================================
