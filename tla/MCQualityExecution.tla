------------------------- MODULE MCQualityExecution -------------------------
(* Small instances of QualityExecution for TLC. *)
EXTENDS QualityExecution, TLC

CONSTANTS r1, r2, w1, w2, c1, c2

MCOneRule == {r1}
MCTwoRules == {r1, r2}
MCFollowTarget == [r \in MCOneRule |-> 0]
MCOneSparse == [r \in MCTwoRules |-> IF r = r2 THEN 2 ELSE 0]
MCOneWorker == {w1}
MCTwoWorkers == {w1, w2}
MCNoCaller == {}
MCTwoCallers == {c1, c2}
MCNoManual == {}
MCTwoManual == {1, 2}
MCTwoScheduled == {11, 12}
MCFiveScheduled == {11, 12, 13, 14, 15}

ActorSymmetry == Permutations(MCTwoWorkers) \cup Permutations(MCTwoCallers)
=============================================================================
