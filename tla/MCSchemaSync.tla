---------------------------- MODULE MCSchemaSync ----------------------------
(* Small instances of SchemaSync for TLC. *)
EXTENDS SchemaSync, TLC

CONSTANTS d1, d2, o1, o2

MCOneDatabase == {d1}
MCTwoDatabases == {d1, d2}
MCOneOperation == {o1}
MCTwoOperations == {o1, o2}

OperationSymmetry == Permutations(MCTwoOperations)
DatabaseSymmetry == Permutations(MCTwoDatabases)
=============================================================================
