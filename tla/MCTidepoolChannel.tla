------------------------- MODULE MCTidepoolChannel -------------------------
(* Small instances of TidepoolChannel for TLC.                             *)
EXTENDS TidepoolChannel

CONSTANTS d1, d2

MCTwoDomains == {d1, d2}
MCOneDomain == {d1}

MCSymmetry == Permutations(MCTwoDomains)
=============================================================================
