---------------------------- MODULE QualityBatch ----------------------------
(***************************************************************************)
(* What the quality runner promises to a reader of quality_run and         *)
(* quality_execution, whatever runs, fails or restarts behind the tables:  *)
(* a batch's executions appear together, a check runs only inside a        *)
(* started batch, a verdict or an abandonment is never rewritten, and a    *)
(* batch reports a rollup only when every execution of it has a verdict.   *)
(***************************************************************************)
CONSTANTS
    Batches,  \* batches, manual and scheduled
    Rules     \* quality checks

VARIABLES
    status,   \* quality_run.status
    row       \* quality_execution.state of the batch's execution of a rule

vars == <<status, row>>

Open == {"PENDING", "RUNNING"}
Closed == {"COMPLETED", "ABANDONED"}
States == {"none"} \cup Open \cup Closed

RulesOf(b) == {r \in Rules : row[b][r] # "none"}

Init ==
    /\ status = [b \in Batches |-> "none"]
    /\ row = [b \in Batches |-> [r \in Rules |-> "none"]]

Create(b) ==
    /\ status[b] = "none"
    /\ status' = [status EXCEPT ![b] = "PENDING"]
    /\ UNCHANGED row

\* All of them or none.
Plan(b, chosen) ==
    /\ status[b] = "PENDING" /\ RulesOf(b) = {} /\ chosen # {}
    /\ row' = [row EXCEPT ![b] = [r \in Rules |-> IF r \in chosen THEN "PENDING" ELSE "none"]]
    /\ UNCHANGED status

Start(b) ==
    /\ status[b] = "PENDING" /\ RulesOf(b) # {}
    /\ status' = [status EXCEPT ![b] = "RUNNING"]
    /\ UNCHANGED row

Begin(b, r) ==
    /\ status[b] = "RUNNING" /\ row[b][r] = "PENDING"
    /\ row' = [row EXCEPT ![b][r] = "RUNNING"]
    /\ UNCHANGED status

Judge(b, r) ==
    /\ status[b] = "RUNNING" /\ row[b][r] = "RUNNING"
    /\ row' = [row EXCEPT ![b][r] = "COMPLETED"]
    /\ UNCHANGED status

Complete(b) ==
    /\ status[b] = "RUNNING" /\ RulesOf(b) # {}
    /\ \A r \in RulesOf(b) : row[b][r] = "COMPLETED"
    /\ status' = [status EXCEPT ![b] = "COMPLETED"]
    /\ UNCHANGED row

\* Work is given up: any open batches and any open executions at once.
Abandon ==
    /\ status' \in [Batches -> States]
    /\ row' \in [Batches -> [Rules -> States]]
    /\ \A b \in Batches :
         /\ \/ status'[b] = status[b]
            \/ status[b] \in Open /\ status'[b] = "ABANDONED"
         /\ \A r \in Rules :
              \/ row'[b][r] = row[b][r]
              \/ row[b][r] \in Open /\ row'[b][r] = "ABANDONED"

Next ==
    \/ \E b \in Batches :
         \/ Create(b) \/ Start(b) \/ Complete(b)
         \/ \E chosen \in SUBSET Rules : Plan(b, chosen)
         \/ \E r \in Rules : Begin(b, r) \/ Judge(b, r)
    \/ Abandon

Spec == Init /\ [][Next]_vars
=============================================================================
