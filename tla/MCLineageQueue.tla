--------------------------- MODULE MCLineageQueue ---------------------------
(* Small instances of LineageQueue for TLC. *)
EXTENDS LineageQueue, TLC

CONSTANTS k1, k2

MCOneKey == {k1}
MCTwoKeys == {k1, k2}
MCNoKey == {}
MCSymmetry == Permutations(MCTwoKeys)
=============================================================================
