------------------------------ MODULE MCM17Link ------------------------------
(* Instances of M17Link for TLC: a call for us and one for somebody else.  *)
EXTENDS M17Link

CONSTANTS t1, t2

const_Transmissions == {t1, t2}
const_Blocks == [t \in {t1, t2} |-> IF t = t1 THEN 2 ELSE 1]
const_Ours == {t1}
=============================================================================
