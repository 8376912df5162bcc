------------------------------ MODULE MCXmodem ------------------------------
(* Instances of Xmodem for TLC: transfers of no, two, three and four       *)
(* blocks, the last one padded or not, and one of more than there is.      *)
EXTENDS Xmodem

const_Sizes == {0, 8, 9, 11, 16, 20}
=============================================================================
