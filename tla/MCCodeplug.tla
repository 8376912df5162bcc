----------------------------- MODULE MCCodeplug -----------------------------
(* An instance of Codeplug for TLC: two banks, one of which can hold more  *)
(* channels than there are banks.  Nothing tells one name from another.    *)
EXTENDS Codeplug

Symmetry == Permutations(Names)

=============================================================================
