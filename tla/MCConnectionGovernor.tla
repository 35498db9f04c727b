------------------------ MODULE MCConnectionGovernor ------------------------
(* Small instances of ConnectionGovernor for TLC. *)
EXTENDS ConnectionGovernor, TLC

CONSTANTS c1, c2, c3, c4

MCThreeCallers == {c1, c2, c3}
MCFourCallers == {c1, c2, c3, c4}
MCSymmetry == Permutations(Callers)
=============================================================================
