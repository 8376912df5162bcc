------------------------------- MODULE MCEeep -------------------------------
(* Instances of Eeep for TLC: three keys with data of one cell, of which a *)
(* page change copies two at most, in pages that hold exactly three        *)
(* records.                                                                *)
EXTENDS Eeep, TLC

CONSTANTS vfo, settings, spare, v1, v2

const_Keys == {vfo, settings, spare}
const_Values == {v1, v2}
const_DataCells == [k \in {vfo, settings, spare} |-> 1]
const_Symmetry == Permutations({v1, v2}) \cup Permutations(const_Keys)

const_MayFail == {"erase", "mark", "append", "validate", "activate", "retire"}
=============================================================================
