----------------------------- MODULE MCFatChain -----------------------------
(* Instances of FatChain for TLC.                                          *)
EXTENDS FatChain, TLC

CONSTANTS a, b

TwoNames == {a, b}

(* FatChain treats the names alike.  Used with invariants only.            *)
NamesAlike == Permutations(TwoNames)
=============================================================================
