---------------------------- MODULE IssueLedger ----------------------------
(***************************************************************************)
(* The problem ledger of one quality check: quality_issue, the settlement  *)
(* of verdicts in the quality runner (runner/qualityrunner/issue.go), the  *)
(* transition table (component/dataquality/issue.go) and what users do to  *)
(* an issue.  The check is executed by two lanes, the runner loop and a    *)
(* scheduled worker; a verdict is written first and settled after the      *)
(* whole batch, so the other lane can do anything in between.              *)
(*                                                                         *)
(* Executions are numbered in the order of started_at.  MaxExecutions      *)
(* bounds them, MaxFaults the failed statements and restarts, MaxUser the  *)
(* actions of users.  The lane's `alone' and the last verdict's `clean'    *)
(* are history: the execution overlapped no other one, and nothing         *)
(* disturbed its settlement or undid it since.                             *)
(***************************************************************************)
EXTENDS Naturals, Sequences, FiniteSets

CONSTANTS
    Lanes,       \* what executes the check
    Verdicts,    \* what the query of the check may end with
    MaxExecutions, MaxFaults, MaxUser

Statuses == {"PASS", "WARN", "FAIL", "ERROR", "NOT_EVALUATED", "SKIPPED"}

ASSUME VerdictsAssumption == Verdicts \subseteq Statuses
ASSUME BoundsAssumption == MaxExecutions \in Nat /\ MaxFaults \in Nat /\ MaxUser \in Nat

VARIABLES
    last,      \* the newest completed execution of the check
    clock,     \* executions started so far
    inflight,  \* the check is in r.inflight
    lane,      \* where each lane is with the check
    issue,     \* quality_issue, in order of creation
    faults, users

vars == <<last, clock, inflight, lane, issue, faults, users>>

IdleLane == [pc |-> "idle", stamp |-> 0, previous |-> "none", verdict |-> "none",
             found |-> 0, alone |-> TRUE]

Init ==
    /\ last = [stamp |-> 0, status |-> "none", clean |-> FALSE]
    /\ clock = 0 /\ inflight = FALSE
    /\ lane = [l \in Lanes |-> IdleLane]
    /\ issue = <<>>
    /\ faults = 0 /\ users = 0

At(l, pc) == lane[l].pc = pc
Quiet == \A l \in Lanes : At(l, "idle")
Unresolved == {i \in 1..Len(issue) : issue[i].status \in {"OPEN", "ACKNOWLEDGED"}}

Fault == faults < MaxFaults /\ faults' = faults + 1
NoFault == UNCHANGED faults

\* The settlement of lane l's verdict is lost; its verdict is the last one.
Disturbed(l) ==
    last' = IF lane[l].stamp = last.stamp THEN [last EXCEPT !.clean = FALSE] ELSE last

-----------------------------------------------------------------------------
\* The execution of the check.

\* previousQualityStatus, before the row is marked RUNNING.  An unreadable
\* history counts as none.
ReadPrevious(l) ==
    /\ At(l, "idle") /\ clock < MaxExecutions
    /\ \E known \in BOOLEAN :
         /\ IF known THEN NoFault ELSE Fault
         /\ lane' = [m \in Lanes |->
              IF m = l THEN [IdleLane EXCEPT !.pc = "mark",
                                !.previous = IF known THEN last.status ELSE "none",
                                !.alone = known /\ Quiet]
              ELSE [lane[m] EXCEPT !.alone = FALSE]]
    /\ last' = IF Quiet THEN last ELSE [last EXCEPT !.clean = FALSE]
    /\ UNCHANGED <<clock, inflight, issue, users>>

\* MarkQualityExecutionRunning; when it fails the check is not executed.
MarkRunning(l) ==
    /\ At(l, "mark")
    /\ \/ /\ clock < MaxExecutions
          /\ clock' = clock + 1
          /\ lane' = [lane EXCEPT ![l].pc = "acquire", ![l].stamp = clock + 1]
          /\ NoFault
       \/ /\ clock = MaxExecutions \/ faults < MaxFaults
          /\ IF clock = MaxExecutions THEN NoFault ELSE Fault
          /\ lane' = [lane EXCEPT ![l] = IdleLane]
          /\ UNCHANGED clock
    /\ UNCHANGED <<last, inflight, issue, users>>

\* acquireInflight: the check is SKIPPED while the other lane queries it.
Acquire(l) ==
    /\ At(l, "acquire")
    /\ \/ /\ ~inflight /\ inflight' = TRUE
          /\ lane' = [lane EXCEPT ![l].pc = "query"]
       \/ /\ inflight /\ UNCHANGED inflight
          /\ lane' = [lane EXCEPT ![l].pc = "write", ![l].verdict = "SKIPPED"]
    /\ UNCHANGED <<last, clock, issue, faults, users>>

\* Mutant: a panic leaves the verdict unset.
QueryMutant(l) ==
    /\ At(l, "query")
    /\ inflight' = FALSE
    /\ \E v \in Verdicts \cup {"none"} :
         lane' = [lane EXCEPT ![l].pc = "write", ![l].verdict = v]
    /\ UNCHANGED <<last, clock, issue, faults, users>>

\* executeOneSafe
Query(l) ==
    /\ At(l, "query")
    /\ inflight' = FALSE
    /\ \E v \in Verdicts : lane' = [lane EXCEPT ![l].pc = "write", ![l].verdict = v]
    /\ UNCHANGED <<last, clock, issue, faults, users>>

\* FinishQualityExecution; a verdict that was not written is not settled.
WriteVerdict(l) ==
    /\ At(l, "write")
    /\ \/ /\ last' = IF lane[l].stamp > last.stamp
                     THEN [stamp |-> lane[l].stamp, status |-> lane[l].verdict,
                           clean |-> lane[l].alone]
                     ELSE last
          /\ lane' = [lane EXCEPT ![l].pc = "settle"]
          /\ NoFault
       \/ /\ Fault
          /\ lane' = [lane EXCEPT ![l] = IdleLane]
          /\ UNCHANGED last
    /\ UNCHANGED <<clock, inflight, issue, users>>

-----------------------------------------------------------------------------
\* The settlement of the verdict.

\* Mutant: a failure is only a problem when the one before it was not.
PlanIssueTransitionMutant(previous, current, hasOpenIssue) ==
    CASE current = "FAIL" /\ hasOpenIssue -> "touch"
      [] current = "FAIL" /\ ~hasOpenIssue /\ previous # "FAIL" -> "open"
      [] current = "PASS" /\ hasOpenIssue /\ previous = "FAIL" -> "resolve"
      [] OTHER -> "none"

PlanIssueTransition(previous, current, hasOpenIssue) ==
    CASE current = "FAIL" /\ hasOpenIssue -> "touch"
      [] current = "FAIL" /\ ~hasOpenIssue -> "open"
      [] current = "PASS" /\ hasOpenIssue /\ previous = "FAIL" -> "resolve"
      [] current \in {"WARN", "NOT_EVALUATED", "SKIPPED"} /\ hasOpenIssue /\ previous = "FAIL" -> "touch"
      [] OTHER -> "none"

\* settleRuleExecution, GetOpenQualityIssueForRule
ReadIssue(l) ==
    /\ At(l, "settle")
    /\ \/ /\ \E i \in Unresolved \cup {0} :
               /\ (i = 0) = (Unresolved = {})
               /\ lane' = [lane EXCEPT ![l].pc = "apply", ![l].found = i]
          /\ NoFault /\ UNCHANGED last
       \/ /\ Fault /\ Disturbed(l)
          /\ lane' = [lane EXCEPT ![l] = IdleLane]
    /\ UNCHANGED <<clock, inflight, issue, users>>

Action(l) == PlanIssueTransition(lane[l].previous, lane[l].verdict, lane[l].found # 0)

\* Mutant: the partial unique index is missing.
OpenIssueMutant(l) ==
    issue' = Append(issue, [status |-> "OPEN", seen |-> lane[l].stamp])

\* OpenQualityIssue: the partial unique index refuses a second one.
OpenIssue(l) ==
    IF Unresolved = {}
    THEN issue' = Append(issue, [status |-> "OPEN", seen |-> lane[l].stamp])
    ELSE UNCHANGED issue

\* TouchQualityIssue: only an unresolved issue.
TouchIssue(l) ==
    issue' = IF lane[l].found \in Unresolved
             THEN [issue EXCEPT ![lane[l].found].seen = lane[l].stamp] ELSE issue

\* ResolveQualityIssue: only an unresolved issue.
ResolveIssue(i) ==
    issue' = IF i \in Unresolved THEN [issue EXCEPT ![i].status = "RESOLVED"] ELSE issue

\* The write of settleRuleExecution, and its failure, which is only logged.
Apply(l) ==
    /\ At(l, "apply")
    /\ lane' = [lane EXCEPT ![l] = IdleLane]
    /\ \/ /\ NoFault /\ UNCHANGED last
          /\ CASE Action(l) = "open" -> OpenIssue(l)
               [] Action(l) = "touch" -> TouchIssue(l)
               [] Action(l) = "resolve" -> ResolveIssue(lane[l].found)
               [] OTHER -> UNCHANGED issue
       \/ /\ Fault /\ Disturbed(l) /\ Action(l) # "none"
          /\ UNCHANGED issue
    /\ UNCHANGED <<clock, inflight, users>>

-----------------------------------------------------------------------------
\* Users, retention and restarts.

User == users < MaxUser /\ users' = users + 1

\* Mutant: the first form of the statement, status <> ACKNOWLEDGED.
AcknowledgeMutant(i) ==
    /\ User
    /\ issue[i].status \in {"OPEN", "RESOLVED"}
    /\ issue' = [issue EXCEPT ![i].status = "ACKNOWLEDGED"]
    /\ UNCHANGED <<last, clock, inflight, lane, faults>>

\* AcknowledgeQualityIssue
Acknowledge(i) ==
    /\ User
    /\ issue[i].status \in {"OPEN", "ACKNOWLEDGED"}
    /\ issue' = [issue EXCEPT ![i].status = "ACKNOWLEDGED"]
    /\ UNCHANGED <<last, clock, inflight, lane, faults>>

\* A user resolves the issue, whatever the check says.
ResolveByUser(i) ==
    /\ User
    /\ i \in Unresolved /\ ResolveIssue(i)
    /\ last' = [last EXCEPT !.clean = FALSE]
    /\ lane' = [l \in Lanes |-> [lane[l] EXCEPT !.alone = FALSE]]
    /\ UNCHANGED <<clock, inflight, faults>>

\* DeleteExpiredQualityIssues; no settlement spans the retention period.
Prune(i) ==
    /\ issue[i].status = "RESOLVED"
    /\ \A l \in Lanes : lane[l].found # i
    /\ issue' = [issue EXCEPT ![i].status = "deleted"]
    /\ UNCHANGED <<last, clock, inflight, lane, faults, users>>

\* A restart, or a panic in a lane, loses the settlements under way.
Restart ==
    /\ ~Quiet /\ Fault
    /\ lane' = [l \in Lanes |-> IdleLane] /\ inflight' = FALSE
    /\ last' = [last EXCEPT !.clean = FALSE]
    /\ UNCHANGED <<clock, issue, users>>

Next ==
    \/ \E l \in Lanes :
         \/ ReadPrevious(l) \/ MarkRunning(l) \/ Acquire(l) \/ Query(l)
         \/ WriteVerdict(l) \/ ReadIssue(l) \/ Apply(l)
    \/ \E i \in 1..Len(issue) : Acknowledge(i) \/ ResolveByUser(i) \/ Prune(i)
    \/ Restart

Spec == Init /\ [][Next]_vars

-----------------------------------------------------------------------------
LanePcs == {"idle", "mark", "acquire", "query", "write", "settle", "apply"}

LastStates == [stamp : Nat, status : Statuses \cup {"none"}, clean : BOOLEAN]
LaneStates == [pc : LanePcs, stamp : Nat, previous : Statuses \cup {"none"},
               verdict : Statuses \cup {"none"}, found : Nat, alone : BOOLEAN]
Issues == [status : {"OPEN", "ACKNOWLEDGED", "RESOLVED", "deleted"}, seen : Nat]

\* The types; a completed execution carries a real status, and nothing is stamped
\* by an execution to come.
TypeOK ==
    /\ last \in LastStates /\ last.stamp <= clock /\ (last.stamp = 0) = (last.status = "none")
    /\ clock \in 0..MaxExecutions /\ inflight \in BOOLEAN
    /\ lane \in [Lanes -> LaneStates]
    /\ \A l \in Lanes : lane[l].stamp <= clock /\ lane[l].found <= Len(issue)
    /\ issue \in Seq(Issues)
    /\ \A i \in 1..Len(issue) : issue[i].seen \in 1..clock
    /\ faults \in 0..MaxFaults /\ users \in 0..MaxUser

\* A check has at most one unresolved issue, although both lanes may have read
\* that it has none (the partial unique index and ON CONFLICT DO NOTHING).
OneUnresolved == Cardinality(Unresolved) <= 1

\* A resolved issue is history: neither a settlement that read it before, nor an
\* acknowledgement, nor a later failure changes it or opens it again.
ResolvedIsFinal ==
    [][\A i \in 1..Len(issue) :
         issue[i].status = "RESOLVED"
           => issue'[i] \in {issue[i], [issue[i] EXCEPT !.status = "deleted"]}]_vars

\* Failures heal the ledger: once an execution that overlapped no other has
\* failed and is settled, the check has an unresolved issue, whatever lost
\* writes, restarts, races or stale transitions came before it.
FailingIsOpen ==
    Quiet /\ last.status = "FAIL" /\ last.clean => Unresolved # {}

\* "When a check passes again its issue resolves itself": once an execution that
\* overlapped no other has passed and is settled, the check has no issue left.
RecoveredIsResolved ==
    Quiet /\ last.status = "PASS" /\ last.clean => Unresolved = {}
=============================================================================
