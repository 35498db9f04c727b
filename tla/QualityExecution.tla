-------------------------- MODULE QualityExecution --------------------------
(***************************************************************************)
(* The data-quality runner (backend/runner/qualityrunner) of one target on *)
(* one instance: the API that plans and queues manual batches, the runner  *)
(* loop that executes them and scans for due work, the scheduled worker,   *)
(* and the tables quality_run, quality_execution and                       *)
(* quality_target_schedule they share.                                     *)
(*                                                                         *)
(* A statement, a critical section or a channel operation is one action.   *)
(* Time is abstracted to the instants at which the target comes due: next  *)
(* is next_run_at, cycle the latest slot that arrived, which stands for    *)
(* every `now' until the following one, and slot[b][r] is the cycle in     *)
(* which an execution was last stamped.  Slots may lie any distance apart. *)
(* What a check finds is IssueLedger's; here an execution has a verdict or *)
(* none.                                                                   *)
(* MaxFaults bounds together the failed statements, refused admissions,    *)
(* timeouts, panics, cancelled requests and restarts; MaxEdits the user's  *)
(* changes of the schedule and of the enabled checks.                      *)
(***************************************************************************)
EXTENDS Naturals, Sequences, FiniteSets

CONSTANTS
    Manual,       \* ids of manual batches, a set of positive numbers
    Scheduled,    \* ids of scheduled batches, another
    Rules,        \* the checks of the target
    Workers,      \* the scheduled workers (maxConcurrentInstanceBatches)
    Callers,      \* concurrent requests to RunQualityRules
    Period,       \* qualityFrequencyTierPeriod of each check, 0 to follow the target
    MaxAttempts,  \* maxScheduledRuleAttempts
    QueueCap,     \* manualQueueCapacity
    MaxCycles, MaxFaults, MaxEdits

ASSUME BatchAssumption == Manual \cup Scheduled \subseteq Nat \ {0}
                          /\ Manual \cap Scheduled = {} /\ IsFiniteSet(Scheduled)
ASSUME LoopAssumption == "loop" \notin Workers
ASSUME PeriodAssumption == Period \in [Rules -> Nat]
ASSUME AttemptsAssumption == MaxAttempts \in Nat \ {0}
ASSUME CapAssumption == QueueCap \in Nat \ {0}
ASSUME BoundAssumption == MaxCycles \in Nat /\ MaxFaults \in Nat /\ MaxEdits \in Nat

VARIABLES
    status,    \* quality_run.status
    row,       \* quality_execution.state
    slot,      \* quality_execution.started_at, as a due cycle
    scheduledAt, \* quality_execution.scheduled_at of a scheduled batch, a slot
    next,      \* next_run_at, 0 for NULL
    cycle,     \* the latest slot of the target that arrived
    enabled,   \* enabled checks
    past,      \* the checks that an earlier batch completed for slot 0
    queue,     \* r.manual
    group,     \* r.scheduled: the rules of the queued group, {} for none
    groupDue,  \* and the slot they were found due for
    reserved,  \* the instance is in r.scheduledInstances
    inflight,  \* r.inflight
    lane,      \* the runner loop and the scheduled workers
    api,       \* the requests
    faults, edits,
    excused    \* batches a failed statement or a restart cut off

tables == <<status, row, slot, scheduledAt>>
target == <<next, cycle, enabled, past>>
process == <<queue, group, groupDue, reserved, inflight, lane, api>>
vars == <<tables, target, process, faults, edits, excused>>

Batches == Manual \cup Scheduled
Lanes == Workers \cup {"loop"}
Open == {"PENDING", "RUNNING"}
Closed == {"COMPLETED", "ABANDONED"}

IdleLane == [pc |-> "idle", b |-> 0, todo |-> {}, due |-> 0, rule |-> {}, missed |-> FALSE,
             late |-> FALSE, basis |-> {}]
IdleCaller == [pc |-> "idle", b |-> 0, chosen |-> {}]

\* nextTargetRun: the interval or the cron expression puts the next slot anywhere in
\* the future; one after MaxCycles is never reached.
Later == cycle + 1 .. MaxCycles + 1

Init ==
    /\ status = [b \in Batches |-> "none"]
    /\ row = [b \in Batches |-> [r \in Rules |-> "none"]]
    /\ slot = [b \in Batches |-> [r \in Rules |-> 0]]
    /\ scheduledAt = [b \in Batches |-> 0]
    /\ cycle = 0 /\ next \in Later /\ enabled = Rules
    /\ past \in SUBSET {r \in Rules : Period[r] > 0}
    /\ queue = <<>> /\ group = {} /\ groupDue = 0 /\ reserved = FALSE /\ inflight = {}
    /\ lane = [l \in Lanes |-> IdleLane]
    /\ api = [c \in Callers |-> IdleCaller]
    /\ faults = 0 /\ edits = 0 /\ excused = {}

Fault == faults < MaxFaults /\ faults' = faults + 1
NoFault == UNCHANGED faults

\* A cleanup that fails leaves the batch to a later restart.
CutOff(b) == Fault /\ excused' = excused \cup ({b} \cap Batches)
Fine == UNCHANGED <<faults, excused>>

Fresh(ids) == {b \in ids : status[b] = "none" /\ \A c \in ids : status[c] = "none" => b <= c}

-----------------------------------------------------------------------------
\* The statements on quality_run and quality_execution.

\* CreateQualityRun
CreateRun(b) == status' = [status EXCEPT ![b] = "PENDING"]

\* PlanQualityExecutions
PlanRows(b, chosen) ==
    /\ row' = [row EXCEPT ![b] = [r \in Rules |-> IF r \in chosen THEN "PENDING" ELSE @[r]]]
    /\ slot' = [slot EXCEPT ![b] = [r \in Rules |-> IF r \in chosen THEN cycle ELSE @[r]]]

\* Mutant: the mark is only made for a batch that is RUNNING already.
StartRunMutant(b) == UNCHANGED status

\* MarkQualityRunRunning
CanStart(b) == status[b] \in Open
StartRun(b) == status' = [status EXCEPT ![b] = "RUNNING"]

\* MarkQualityExecutionRunning: started_at is stamped again.
BeginRow(b, r) ==
    /\ row' = [row EXCEPT ![b][r] = "RUNNING"]
    /\ slot' = [slot EXCEPT ![b][r] = cycle]

\* FinishQualityExecution
JudgeRow(b, r) == row' = [row EXCEPT ![b][r] = "COMPLETED"]

\* Mutant: the statement forgets its list of states.
AbandonRowsMutant(b) ==
    row' = [row EXCEPT ![b] = [r \in Rules |-> IF @[r] # "none" THEN "ABANDONED" ELSE @[r]]]

\* AbandonQualityExecutions
AbandonRows(b) ==
    row' = [row EXCEPT ![b] = [r \in Rules |-> IF @[r] \in Open THEN "ABANDONED" ELSE @[r]]]

\* FinishQualityRun: a Conflict, hence no change, on a closed batch.
FinishRun(b, final) ==
    status' = IF status[b] \in Open THEN [status EXCEPT ![b] = final] ELSE status

-----------------------------------------------------------------------------
\* The due cycle.

Due == next \in 1 .. cycle

\* The target's scheduled executions stamped since it came due.
Attempts(r) == {b \in Scheduled : row[b][r] # "none" /\ slot[b][r] >= next}

\* Mutant: the gate looks at what was planned, not at what was completed.
GatedMutant(r) ==
    \/ r \in past /\ Period[r] > next
    \/ \E b \in Scheduled : row[b][r] # "none" /\ scheduledAt[b] + Period[r] > next

\* qualityFrequencyGateSQL: the check was completed for a slot that lies less than
\* the period of its run cadence before the current one, whenever it executed.
Gated(r) ==
    \/ r \in past /\ Period[r] > next
    \/ \E b \in Scheduled : row[b][r] = "COMPLETED" /\ scheduledAt[b] + Period[r] > next

\* pendingQualityTargetRulesStatement, dueQualityTargetRulesStatement: what the cycle
\* still has to attempt.  A slot in the future has no attempt yet, a NULL one selects
\* nothing.
Settled(r) ==
    \/ \E b \in Attempts(r) : row[b][r] = "COMPLETED"
    \/ Cardinality(Attempts(r)) >= MaxAttempts
Pending == IF next = 0 THEN {} ELSE {r \in enabled : ~Settled(r) /\ ~Gated(r)}

\* The slot arrives.
ComesDue ==
    /\ next \in cycle + 1 .. MaxCycles
    /\ cycle' = next
    /\ UNCHANGED <<tables, next, enabled, past, process, faults, edits, excused>>

\* UpdateQualityTargetSchedule reschedules from now.
EditSchedule ==
    /\ edits < MaxEdits /\ edits' = edits + 1
    /\ IF enabled = {} THEN next' = 0 ELSE next' \in Later
    /\ UNCHANGED <<tables, cycle, enabled, past, process, faults, excused>>

\* A check is paused or enabled, and SyncQualityTargetSchedule reconciles the slot.
Toggle(r) ==
    /\ edits < MaxEdits /\ edits' = edits + 1
    /\ enabled' = IF r \in enabled THEN enabled \ {r} ELSE enabled \cup {r}
    /\ \/ enabled' = {} /\ next' = 0
       \/ enabled' # {} /\ next = 0 /\ next' \in Later
       \/ enabled' # {} /\ next # 0 /\ next' = next
    /\ UNCHANGED <<tables, cycle, past, process, faults, excused>>

-----------------------------------------------------------------------------
\* RunQualityRules.

\* The queue has room for the selection; the batch row is created.
ApiCreate(c, chosen) ==
    /\ api[c].pc = "idle" /\ chosen # {} /\ chosen \subseteq enabled
    /\ Len(queue) + 1 <= QueueCap
    /\ \E b \in Fresh(Manual) :
         /\ CreateRun(b)
         /\ api' = [api EXCEPT ![c] = [pc |-> "plan", b |-> b, chosen |-> chosen]]
    /\ UNCHANGED <<row, slot, scheduledAt, target, queue, group, groupDue, reserved,
                   inflight, lane, faults, edits, excused>>

\* planManualQualityExecutions
ApiPlan(c) ==
    /\ api[c].pc = "plan"
    /\ \/ /\ PlanRows(api[c].b, api[c].chosen)
          /\ api' = [api EXCEPT ![c].pc = "enqueue"]
          /\ NoFault
       \/ /\ Fault
          /\ api' = [api EXCEPT ![c].pc = "abandonRows"]
          /\ UNCHANGED <<row, slot>>
    /\ UNCHANGED <<status, scheduledAt, target, queue, group, groupDue, reserved, inflight,
                   lane, edits, excused>>

\* Mutant: the room check at the start of the request is relied on.
ApiEnqueueMutant(c) ==
    /\ api[c].pc = "enqueue"
    /\ queue' = Append(queue, api[c].b)
    /\ api' = [api EXCEPT ![c] = IdleCaller]
    /\ UNCHANGED <<tables, target, group, groupDue, reserved, inflight, lane, faults, edits,
                   excused>>

\* EnqueueQualityExecutions never blocks: a full queue refuses the batch.
ApiEnqueue(c) ==
    /\ api[c].pc = "enqueue"
    /\ \/ /\ Len(queue) < QueueCap
          /\ queue' = Append(queue, api[c].b)
          /\ api' = [api EXCEPT ![c] = IdleCaller]
       \/ /\ Len(queue) >= QueueCap
          /\ api' = [api EXCEPT ![c].pc = "abandonRows"]
          /\ UNCHANGED queue
    /\ UNCHANGED <<tables, target, group, groupDue, reserved, inflight, lane, faults, edits,
                   excused>>

\* abandonQualityBatch: the second write is made whatever the first one did.
ApiAbandonRows(c) ==
    /\ api[c].pc = "abandonRows"
    /\ api' = [api EXCEPT ![c].pc = "abandonBatch"]
    /\ \/ AbandonRows(api[c].b) /\ Fine
       \/ CutOff(api[c].b) /\ UNCHANGED row
    /\ UNCHANGED <<status, slot, scheduledAt, target, queue, group, groupDue, reserved,
                   inflight, lane, edits>>

ApiAbandonBatch(c) ==
    /\ api[c].pc = "abandonBatch"
    /\ api' = [api EXCEPT ![c] = IdleCaller]
    /\ \/ FinishRun(api[c].b, "ABANDONED") /\ Fine
       \/ CutOff(api[c].b) /\ UNCHANGED status
    /\ UNCHANGED <<row, slot, scheduledAt, target, queue, group, groupDue, reserved,
                   inflight, lane, edits>>

\* The caller goes away: the context of every remaining statement is cancelled.
ApiCancelled(c) ==
    /\ api[c].pc \in {"plan", "abandonRows", "abandonBatch"}
    /\ api' = [api EXCEPT ![c] = IdleCaller]
    /\ CutOff(api[c].b)
    /\ UNCHANGED <<tables, target, queue, group, groupDue, reserved, inflight, lane, edits>>

-----------------------------------------------------------------------------
\* The runner loop: the manual queue and the due scan.

At(l, pc) == lane[l].pc = pc
Goto(l, pc) == lane' = [lane EXCEPT ![l].pc = pc]

\* executeManualBatch
TakeManual ==
    /\ At("loop", "idle") /\ queue # <<>>
    /\ queue' = Tail(queue)
    /\ lane' = [lane EXCEPT !["loop"] =
                  [IdleLane EXCEPT !.pc = "admit", !.b = Head(queue),
                     !.todo = {r \in Rules : row[Head(queue)][r] # "none"}]]
    /\ UNCHANGED <<tables, target, group, groupDue, reserved, inflight, api, faults, edits,
                   excused>>

\* scanDue, FindDueQualityTargets: what is read here is used after the busy check.
ScanFind ==
    /\ At("loop", "idle") /\ Due /\ enabled # {}
    /\ lane' = [lane EXCEPT !["loop"] =
                  IF Pending = {}
                  THEN [IdleLane EXCEPT !.pc = "advance", !.basis = {<<next, r>> : r \in enabled}]
                  ELSE [IdleLane EXCEPT !.pc = "submit", !.todo = Pending, !.due = next]]
    /\ UNCHANGED <<tables, target, queue, group, groupDue, reserved, inflight, api, faults,
                   edits, excused>>

\* Mutant: the group is queued without looking at the busy instances.
ScanSubmitMutant ==
    /\ At("loop", "submit") /\ group = {}
    /\ reserved' = TRUE /\ group' = lane["loop"].todo /\ NoFault
    /\ groupDue' = lane["loop"].due
    /\ lane' = [lane EXCEPT !["loop"] = IdleLane]
    /\ UNCHANGED <<tables, target, queue, inflight, api, edits, excused>>

\* dueTargetsWithoutBusyInstance and submitScheduledGroup.  Other instances can
\* fill the queue; the group is then left to the next tick.
ScanSubmit ==
    /\ At("loop", "submit")
    /\ \/ reserved /\ NoFault /\ UNCHANGED <<reserved, group, groupDue>>
       \/ /\ ~reserved /\ NoFault /\ reserved' = TRUE
          /\ group' = lane["loop"].todo /\ groupDue' = lane["loop"].due
       \/ ~reserved /\ Fault /\ UNCHANGED <<reserved, group, groupDue>>
    /\ lane' = [lane EXCEPT !["loop"] = IdleLane]
    /\ UNCHANGED <<tables, target, queue, inflight, api, edits, excused>>

-----------------------------------------------------------------------------
\* The scheduled worker.

\* Mutant: an early return keeps the instance reserved.
EndGroupMutant(w) == lane' = [lane EXCEPT ![w] = IdleLane] /\ UNCHANGED reserved

\* The worker ends its group and releases the instance.
EndGroup(w) == lane' = [lane EXCEPT ![w] = IdleLane] /\ reserved' = FALSE

TakeGroup(w) ==
    /\ At(w, "idle") /\ group # {}
    /\ group' = {} /\ groupDue' = 0
    /\ lane' = [lane EXCEPT ![w] = [IdleLane EXCEPT !.pc = "recheck", !.todo = group,
                                                   !.due = groupDue]]
    /\ UNCHANGED <<tables, target, queue, reserved, inflight, api, faults, edits, excused>>

\* startScheduledBatch skips a plan whose target is no longer due.
Recheck(w) ==
    /\ At(w, "recheck")
    /\ \/ Due /\ Goto(w, "admit") /\ NoFault /\ UNCHANGED reserved
       \/ ~Due /\ EndGroup(w) /\ NoFault
       \/ Fault /\ EndGroup(w)
    /\ UNCHANGED <<tables, target, queue, group, groupDue, inflight, api, edits, excused>>

\* CreateQualityRun, once the batch is admitted.
CreateScheduled(w) ==
    /\ At(w, "create")
    /\ \/ \E b \in Fresh(Scheduled) :
            /\ CreateRun(b)
            /\ lane' = [lane EXCEPT ![w].pc = "plan", ![w].b = b]
            /\ NoFault /\ UNCHANGED reserved
       \/ Fault /\ EndGroup(w) /\ UNCHANGED status
    /\ UNCHANGED <<row, slot, scheduledAt, target, queue, group, groupDue, inflight, api,
                   edits, excused>>

\* plannedExecution names the slot the scan found, whatever became of it since.
PlanScheduled(w) ==
    /\ At(w, "plan")
    /\ \/ /\ PlanRows(lane[w].b, lane[w].todo)
          /\ scheduledAt' = [scheduledAt EXCEPT ![lane[w].b] = lane[w].due]
          /\ Goto(w, "start") /\ NoFault
       \/ /\ Fault /\ Goto(w, "empty")
          /\ UNCHANGED <<row, slot, scheduledAt>>
    /\ UNCHANGED <<status, target, queue, group, groupDue, reserved, inflight, api, edits, excused>>

\* abandonEmptyBatch
AbandonEmpty(w) ==
    /\ At(w, "empty")
    /\ \/ FinishRun(lane[w].b, "ABANDONED") /\ Fine
       \/ CutOff(lane[w].b) /\ UNCHANGED status
    /\ EndGroup(w)
    /\ UNCHANGED <<row, slot, scheduledAt, target, queue, group, groupDue, inflight, api, edits>>

-----------------------------------------------------------------------------
\* executeBatch, in either lane.

\* executeBatch returns: the worker goes on to advance the target.
AfterBatch(l) ==
    lane' = [lane EXCEPT ![l] = IF l \in Workers THEN [IdleLane EXCEPT !.pc = "count"]
                                                   ELSE IdleLane]

\* admitBatch: the instance read and the wait for a connection slot.  A manual
\* batch that is not admitted is abandoned, a scheduled one was not created yet.
Admit(l) ==
    /\ At(l, "admit")
    /\ \/ /\ Goto(l, IF l = "loop" THEN "start" ELSE "create")
          /\ NoFault /\ UNCHANGED reserved
       \/ l = "loop" /\ Fault /\ Goto(l, "unadmitted") /\ UNCHANGED reserved
       \/ l \in Workers /\ Fault /\ EndGroup(l)
    /\ UNCHANGED <<tables, target, queue, group, groupDue, inflight, api, edits, excused>>

\* Mutant: a batch that was not admitted is left for later, as a scheduled one is.
UnadmittedMutant ==
    /\ At("loop", "unadmitted")
    /\ lane' = [lane EXCEPT !["loop"] = IdleLane]
    /\ UNCHANGED <<tables, target, queue, group, groupDue, reserved, inflight, api, faults,
                   edits, excused>>

\* abandonUnadmittedBatch: a failure of the first write skips the second.
Unadmitted ==
    /\ At("loop", "unadmitted")
    /\ \/ /\ AbandonRows(lane["loop"].b)
          /\ Goto("loop", "abandonBatch") /\ Fine
       \/ /\ CutOff(lane["loop"].b)
          /\ lane' = [lane EXCEPT !["loop"] = IdleLane]
          /\ UNCHANGED row
    /\ UNCHANGED <<status, slot, scheduledAt, target, queue, group, groupDue, reserved,
                   inflight, api, edits>>

StartBatch(l) ==
    /\ At(l, "start")
    /\ \/ CanStart(lane[l].b) /\ StartRun(lane[l].b) /\ Goto(l, "task") /\ NoFault
       \/ ~CanStart(lane[l].b) /\ Goto(l, "abandonRows") /\ NoFault /\ UNCHANGED status
       \/ Fault /\ Goto(l, "abandonRows") /\ UNCHANGED status
    /\ UNCHANGED <<row, slot, scheduledAt, target, queue, group, groupDue, reserved,
                   inflight, api, edits, excused>>

\* A task that did not get its verdict is left to the accounting at the end.
SkipTask(l, r) == lane' = [lane EXCEPT ![l].todo = @ \ {r}, ![l].missed = TRUE]

\* loadPlannedExecution, then MarkQualityExecutionRunning.
BeginTask(l) ==
    /\ At(l, "task")
    /\ \E r \in lane[l].todo :
         \/ /\ ~lane[l].late /\ row[lane[l].b][r] = "PENDING"
            /\ BeginRow(lane[l].b, r)
            /\ lane' = [lane EXCEPT ![l].pc = "acquire", ![l].rule = {r}, ![l].todo = @ \ {r}]
            /\ NoFault
         \/ /\ lane[l].late \/ row[lane[l].b][r] # "PENDING"
            /\ SkipTask(l, r)
            /\ NoFault /\ UNCHANGED <<row, slot>>
         \/ /\ ~lane[l].late
            /\ Fault /\ SkipTask(l, r)
            /\ UNCHANGED <<row, slot>>
    /\ UNCHANGED <<status, scheduledAt, target, queue, group, groupDue, reserved, inflight, api,
                   edits, excused>>

\* Mutant: the release is deferred before the check is known to be ours.
AcquireMutant(l) ==
    /\ At(l, "acquire")
    /\ \/ lane[l].rule \cap inflight = {} /\ inflight' = inflight \cup lane[l].rule /\ Goto(l, "query")
       \/ lane[l].rule \subseteq inflight /\ Goto(l, "verdict") /\ inflight' = inflight \ lane[l].rule
    /\ UNCHANGED <<tables, target, queue, group, groupDue, reserved, api, faults, edits, excused>>

\* acquireInflight: the check is SKIPPED, a verdict, when the other lane has it.
Acquire(l) ==
    /\ At(l, "acquire")
    /\ \/ lane[l].rule \cap inflight = {} /\ inflight' = inflight \cup lane[l].rule /\ Goto(l, "query")
       \/ lane[l].rule \subseteq inflight /\ Goto(l, "verdict") /\ UNCHANGED inflight
    /\ UNCHANGED <<tables, target, queue, group, groupDue, reserved, api, faults, edits, excused>>

\* executeOneSafe: the check ends with a verdict, a panic in it with ERROR.
EndQuery(l) ==
    /\ At(l, "query")
    /\ inflight' = inflight \ lane[l].rule
    /\ Goto(l, "verdict")
    /\ UNCHANGED <<tables, target, queue, group, groupDue, reserved, api, faults, edits, excused>>

\* FinishQualityExecution; when it fails, the batch is abandoned there and then.
WriteVerdict(l) ==
    /\ At(l, "verdict")
    /\ \E r \in lane[l].rule :
         \/ /\ ~lane[l].late /\ row[lane[l].b][r] \in Open
            /\ JudgeRow(lane[l].b, r)
            /\ lane' = [lane EXCEPT ![l].pc = "task", ![l].rule = {}]
            /\ NoFault
         \/ /\ lane[l].late \/ row[lane[l].b][r] \notin Open
            /\ lane' = [lane EXCEPT ![l].pc = "abandonRows", ![l].rule = {}]
            /\ NoFault /\ UNCHANGED row
         \/ /\ ~lane[l].late /\ Fault
            /\ lane' = [lane EXCEPT ![l].pc = "abandonRows", ![l].rule = {}]
            /\ UNCHANGED row
    /\ UNCHANGED <<status, slot, scheduledAt, target, queue, group, groupDue, reserved,
                   inflight, api, edits, excused>>

\* The loop is over: an incomplete batch is abandoned, a complete one finished.
EndTasks(l) ==
    /\ At(l, "task") /\ lane[l].todo = {}
    /\ Goto(l, IF lane[l].missed THEN "abandonRows" ELSE "complete")
    /\ UNCHANGED <<tables, target, queue, group, groupDue, reserved, inflight, api, faults,
                   edits, excused>>

\* abandonBatch
AbandonBatchRows(l) ==
    /\ At(l, "abandonRows")
    /\ Goto(l, "abandonBatch")
    /\ \/ AbandonRows(lane[l].b) /\ Fine
       \/ CutOff(lane[l].b) /\ UNCHANGED row
    /\ UNCHANGED <<status, slot, scheduledAt, target, queue, group, groupDue, reserved,
                   inflight, api, edits>>

FinishBatch(l) ==
    /\ At(l, "abandonBatch") \/ At(l, "complete")
    /\ \/ /\ FinishRun(lane[l].b, IF At(l, "complete") THEN "COMPLETED" ELSE "ABANDONED")
          /\ Fine
       \/ CutOff(lane[l].b) /\ UNCHANGED status
    /\ AfterBatch(l)
    /\ UNCHANGED <<row, slot, scheduledAt, target, queue, group, groupDue, reserved,
                   inflight, api, edits>>

\* batchExecutionTimeout: every later statement on the batch's context fails.
Timeout(l) ==
    /\ lane[l].pc \in {"task", "acquire", "query", "verdict"} /\ ~lane[l].late
    /\ Fault
    /\ lane' = [lane EXCEPT ![l].late = TRUE]
    /\ UNCHANGED <<tables, target, queue, group, groupDue, reserved, inflight, api, edits, excused>>

-----------------------------------------------------------------------------
\* The end of a cycle.

\* advanceTargetIfCycleComplete
CountPending(w) ==
    /\ At(w, "count")
    /\ \/ /\ Pending = {}
          /\ lane' = [lane EXCEPT ![w].pc = "advance",
                                  ![w].basis = {<<next, r>> : r \in enabled}]
          /\ NoFault /\ UNCHANGED reserved
       \/ Pending # {} /\ NoFault /\ EndGroup(w)
       \/ Fault /\ EndGroup(w)
    /\ UNCHANGED <<tables, target, queue, group, groupDue, inflight, api, edits, excused>>

\* AdvanceDueQualityTargetNextRun, by the worker or by the scan.
Advance(l) ==
    /\ At(l, "advance")
    /\ \/ Due /\ enabled # {} /\ next' \in Later /\ NoFault
       \/ ~(Due /\ enabled # {}) /\ UNCHANGED next /\ NoFault
       \/ Fault /\ UNCHANGED next
    /\ lane' = [lane EXCEPT ![l] = IdleLane]
    /\ reserved' = (IF l \in Workers THEN FALSE ELSE reserved)
    /\ UNCHANGED <<tables, cycle, enabled, past, queue, group, groupDue, inflight, api, edits,
                   excused>>

\* guardScheduledGroup: a panic outside executeOneSafe ends the group; the
\* deferred release of the instance runs.
Panic(w) ==
    /\ lane[w].pc \notin {"idle", "acquire", "query"}
    /\ EndGroup(w)
    /\ CutOff(lane[w].b)
    /\ UNCHANGED <<tables, target, queue, group, groupDue, inflight, api, edits>>

\* The process stops and starts again; abandonStaleWork closes the executions
\* and the batches that are older than staleExecutionCutoff.
Restart(executions, batches) ==
    /\ \A e \in executions : row[e[1]][e[2]] \in Open
    /\ \A b \in batches : status[b] \in Open
    /\ Fault
    /\ row' = [b \in Batches |-> [r \in Rules |->
                 IF <<b, r>> \in executions THEN "ABANDONED" ELSE row[b][r]]]
    /\ status' = [b \in Batches |-> IF b \in batches THEN "ABANDONED" ELSE status[b]]
    /\ excused' = excused \cup {b \in Batches : status[b] \in Open}
    /\ queue' = <<>> /\ group' = {} /\ groupDue' = 0 /\ reserved' = FALSE /\ inflight' = {}
    /\ lane' = [l \in Lanes |-> IdleLane]
    /\ api' = [c \in Callers |-> IdleCaller]
    /\ UNCHANGED <<slot, scheduledAt, target, edits>>

-----------------------------------------------------------------------------
ApiStep(c) ==
    \/ ApiPlan(c) \/ ApiEnqueue(c) \/ ApiAbandonRows(c) \/ ApiAbandonBatch(c)

BatchStep(l) ==
    \/ Admit(l) \/ StartBatch(l) \/ BeginTask(l) \/ Acquire(l) \/ EndQuery(l)
    \/ WriteVerdict(l) \/ EndTasks(l) \/ AbandonBatchRows(l) \/ FinishBatch(l)
    \/ Advance(l)

LoopStep == TakeManual \/ ScanFind \/ ScanSubmit \/ Unadmitted \/ BatchStep("loop")

WorkerStep(w) ==
    \/ TakeGroup(w) \/ Recheck(w) \/ CreateScheduled(w) \/ PlanScheduled(w) \/ AbandonEmpty(w)
    \/ CountPending(w) \/ BatchStep(w)

OpenRows == {e \in Batches \X Rules : row[e[1]][e[2]] \in Open}
OpenBatches == {b \in Batches : status[b] \in Open}

Environment ==
    \/ ComesDue \/ EditSchedule
    \/ \E w \in Workers : Panic(w)
    \/ \E r \in Rules : Toggle(r)
    \/ \E c \in Callers : ApiCancelled(c) \/ \E chosen \in SUBSET Rules : ApiCreate(c, chosen)
    \/ \E l \in Lanes : Timeout(l)
    \/ \E executions \in SUBSET OpenRows, batches \in SUBSET OpenBatches : Restart(executions, batches)

Next ==
    \/ LoopStep \/ Environment
    \/ \E w \in Workers : WorkerStep(w)
    \/ \E c \in Callers : ApiStep(c)

\* The loop and the workers run while the process does, and a check is bounded
\* by its query timeout; nothing is assumed of users, requests or faults.
Spec ==
    /\ Init /\ [][Next]_vars
    /\ WF_vars(LoopStep)
    /\ \A w \in Workers : WF_vars(WorkerStep(w))

-----------------------------------------------------------------------------
LanePcs == {"idle", "admit", "unadmitted", "submit", "recheck", "create", "plan", "empty",
            "start", "task", "acquire", "query", "verdict", "complete", "abandonRows",
            "abandonBatch", "count", "advance"}
CallerPcs == {"idle", "plan", "enqueue", "abandonRows", "abandonBatch"}

LaneStates == [pc : LanePcs, b : Batches \cup {0}, todo : SUBSET Rules, due : Nat, rule : SUBSET Rules,
               missed : BOOLEAN, late : BOOLEAN, basis : SUBSET (Nat \X Rules)]
CallerStates == [pc : CallerPcs, b : Manual \cup {0}, chosen : SUBSET Rules]

\* The types; the manual queue stays within its capacity, and no attempt is stamped
\* in the future.
TypeOK ==
    /\ status \in [Batches -> {"none"} \cup Open \cup Closed]
    /\ row \in [Batches -> [Rules -> {"none"} \cup Open \cup Closed]]
    /\ slot \in [Batches -> [Rules -> 0..cycle]]
    /\ scheduledAt \in [Batches -> Nat] /\ groupDue \in Nat
    /\ next \in 0..MaxCycles + 1 /\ cycle \in 0..MaxCycles
    /\ enabled \subseteq Rules /\ past \subseteq Rules
    /\ queue \in Seq(Manual) /\ Len(queue) <= QueueCap
    /\ group \subseteq Rules /\ reserved \in BOOLEAN /\ inflight \subseteq Rules
    /\ lane \in [Lanes -> LaneStates]
    /\ api \in [Callers -> CallerStates]
    /\ faults \in 0..MaxFaults /\ edits \in 0..MaxEdits
    /\ excused \subseteq Batches

\* One check is queried by one lane at a time, and the in-flight map names
\* exactly the checks being queried: none is leaked by a skip, a panic, a
\* timeout or a failed write (acquireInflight, releaseInflight).
OneQueryPerRule ==
    /\ inflight = UNION {lane[l].rule : l \in {m \in Lanes : At(m, "query")}}
    /\ \A l, m \in Lanes : l # m /\ At(l, "query") /\ At(m, "query")
                             => lane[l].rule \cap lane[m].rule = {}

\* A batch of the instance is executed by at most one scheduled worker, and the
\* reservation outlives neither the group nor the worker that runs it
\* (scheduledInstances across ticks, queueing, panics and early returns).
InstanceIsSerial ==
    /\ \A v, w \in Workers : v # w => At(v, "idle") \/ At(w, "idle")
    /\ reserved <=> group # {} \/ \E w \in Workers : ~At(w, "idle")
    /\ group # {} => \A w \in Workers : At(w, "idle")

\* Somebody still works on the batch.
Owned(b) ==
    \/ \E i \in 1..Len(queue) : queue[i] = b
    \/ \E l \in Lanes : lane[l].b = b
    \/ \E c \in Callers : api[c].b = b

\* No batch and no execution is left PENDING or RUNNING with nobody to close it,
\* unless a cleanup write failed, a panic or a cancelled request cut the cleanup
\* off, or the process restarted (abandonBatch, abandonUnadmittedBatch,
\* abandonEmptyBatch, abandonQualityBatch).
NothingStranded ==
    \A b \in Batches :
      (status[b] \in Open \/ \E r \in Rules : row[b][r] \in Open) => Owned(b) \/ b \in excused

Promise == INSTANCE QualityBatch WITH Batches <- Batches, Rules <- Rules, status <- status, row <- row

\* The tables keep the promise of QualityBatch through every interleaving,
\* fault and restart.
RefinesQualityBatch == Promise!Spec

\* The check has a verdict since cycle c came due, or has used its attempts
\* since then: started_at >= next_run_at.
SettledIn(c, r) ==
    \/ \E b \in Scheduled : row[b][r] = "COMPLETED" /\ slot[b][r] >= c
    \/ Cardinality({b \in Scheduled : row[b][r] # "none" /\ slot[b][r] >= c}) >= MaxAttempts

\* Cycle c may leave the check out: it has a verdict of a slot less than its period
\* before c (the run cadence of docs/data-quality.md).
NotYetAgain(c, r) ==
    \/ r \in past /\ c < Period[r]
    \/ \E b \in Scheduled : row[b][r] = "COMPLETED" /\ c < scheduledAt[b] + Period[r]

\* A target's schedule moves on only when each check that was enabled when the
\* runner looked has a verdict since that cycle came due or has used its attempts,
\* or its run cadence excuses it from the cycle (advanceTargetIfCycleComplete,
\* advanceSettledTarget).
NoCycleSkipped ==
    [][\A l \in Lanes :
         At(l, "advance") /\ lane'[l] # lane[l] /\ Due /\ next' # next
           => \A p \in lane[l].basis : SettledIn(p[1], p[2]) \/ NotYetAgain(p[1], p[2])]_vars

\* A due target does not stay due: whatever fails, its cycle is attempted,
\* retried within the budget and settled, and its schedule moves on.
CycleSettles == Due ~> ~Due
=============================================================================
