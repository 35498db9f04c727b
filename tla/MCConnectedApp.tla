---------------------------- MODULE MCConnectedApp ----------------------------
(* Small instances of ConnectedApp for TLC. *)
EXTENDS ConnectedApp, TLC

CONSTANTS x1, x2, c1, c2

MCReplicas == {x1, x2}
MCCalls == {c1, c2}
MCSymmetry == Permutations(MCReplicas) \cup Permutations(MCCalls)
=============================================================================
