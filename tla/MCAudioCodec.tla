---------------------------- MODULE MCAudioCodec ----------------------------
(* Instances of AudioCodec for TLC: the path of a transmission and that of *)
(* a reception, of the priorities the radio task asks for.                 *)
EXTENDS AudioCodec

CONSTANTS rx, tx

const_Paths == {rx, tx}
const_Prio == [p \in {rx, tx} |-> IF p = tx THEN 4 ELSE 2]
=============================================================================
