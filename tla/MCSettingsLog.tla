---------------------------- MODULE MCSettingsLog ----------------------------
(* Instances of SettingsLog for TLC: four blocks with flags of two bits. *)
EXTENDS SettingsLog

CONSTANTS a, b, c

const_Values == {a, b, c}

(* The first word of a block is taken up by its CRC: odd, even, and zero. *)
const_FirstWord == [v \in {a, b, c} |-> IF v = a THEN {0, 1} ELSE IF v = b THEN {1} ELSE {}]

const_NoCut == {}
const_CutSave == {"idle", "erase", "data", "flag"}
const_CutAny == {"idle", "erase", "magic", "data", "flag"}
=============================================================================
