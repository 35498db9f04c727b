---------------------------- MODULE MCIssueLedger ----------------------------
(* Small instances of IssueLedger for TLC. *)
EXTENDS IssueLedger, TLC

CONSTANTS l1, l2

MCOneLane == {l1}
MCTwoLanes == {l1, l2}
MCLaneSymmetry == Permutations(MCTwoLanes)
=============================================================================
