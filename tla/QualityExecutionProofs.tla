----------------------- MODULE QualityExecutionProofs -----------------------
(***************************************************************************)
(* Proofs about the quality runner, for every set of batches, rules,       *)
(* workers and callers: its type invariant, one query per check, one       *)
(* scheduled group per instance, no batch left behind, no cycle skipped,   *)
(* and that its tables implement QualityBatch.                             *)
(*                                                                         *)
(* The argument is about ownership.  A batch that is still open belongs to *)
(* exactly one of the requests, the manual queue and the lanes, and what   *)
(* its tables say follows from where its owner stands; nobody else touches *)
(* them until a restart takes every owner away at once.                    *)
(***************************************************************************)
EXTENDS QualityExecution, FiniteSetTheorems, TLAPS

-----------------------------------------------------------------------------
\* The inductive invariant.

\* A batch that was created and has no executions yet.
Unplanned(b) == b \in Batches /\ status[b] = "PENDING" /\ \A r \in Rules : row[b][r] = "none"

\* A batch that was planned and not started.
Ready(b) ==
    /\ b \in Batches /\ status[b] = "PENDING"
    /\ \E r \in Rules : row[b][r] # "none"
    /\ \A r \in Rules : row[b][r] \in {"none", "PENDING"}

\* A batch being executed.
Executing(b) == b \in Batches /\ status[b] = "RUNNING" /\ \E r \in Rules : row[b][r] # "none"

\* The tables have nothing open for the batch.
RowsShut(b) == \A r \in Rules : row[b][r] \notin Open
Done(b) == status[b] \notin Open /\ RowsShut(b)

Detached == {"idle", "submit", "recheck", "create", "count", "advance"}
Querying == {"acquire", "query", "verdict"}

\* What a lane knows of its batch, by where it stands.
LaneInv(l) ==
    LET s == lane[l] IN
    /\ s.pc \in Detached => s.b = 0
    /\ s.pc = "admit" /\ l # "loop" => s.b = 0
    /\ s.pc \in {"submit", "recheck", "create", "plan"} => s.todo # {}
    /\ s.pc = "admit" /\ l # "loop" => s.todo # {}
    /\ s.pc \in {"plan", "empty"} => Unplanned(s.b)
    /\ s.pc = "admit" /\ l = "loop" => Ready(s.b)
    /\ s.pc = "admit" /\ l = "loop" => \A r \in Rules \ s.todo : row[s.b][r] = "none"
    /\ s.pc = "start" => \A r \in Rules \ s.todo : row[s.b][r] = "none"
    /\ s.pc \in {"unadmitted", "start"} => Ready(s.b)
    /\ s.pc \in Querying \cup {"task", "complete"} => Executing(s.b)
    /\ s.pc \in Querying \cup {"task"} /\ ~s.missed
         => \A r \in Rules \ (s.todo \cup s.rule) : row[s.b][r] \in {"none", "COMPLETED"}
    /\ s.pc \in Querying => \E r \in Rules : s.rule = {r} /\ row[s.b][r] = "RUNNING"
    /\ s.pc \notin Querying => s.rule = {}
    /\ s.pc = "complete" => \A r \in Rules : row[s.b][r] \in {"none", "COMPLETED"}
    /\ s.pc \in {"abandonRows", "abandonBatch"} => s.b \in Batches /\ status[s.b] \in Open
    /\ s.pc = "abandonBatch" => s.b \in excused \/ RowsShut(s.b)

\* What a request knows of its batch.
CallerInv(c) ==
    LET s == api[c] IN
    /\ s.pc = "idle" => s.b = 0
    /\ s.pc = "plan" => Unplanned(s.b) /\ s.chosen # {}
    /\ s.pc = "enqueue" => Ready(s.b)
    /\ s.pc \in {"abandonRows", "abandonBatch"} => s.b \in Batches /\ status[s.b] \in Open
    /\ s.pc = "abandonBatch" => s.b \in excused \/ RowsShut(s.b)

QueueInv == \A i \in 1..Len(queue) : Ready(queue[i])

\* A batch has one owner.
OwnInv ==
    /\ \A l, m \in Lanes : l # m /\ lane[l].b = lane[m].b => lane[l].b = 0
    /\ \A c, d \in Callers : c # d /\ api[c].b = api[d].b => api[c].b = 0
    /\ \A l \in Lanes, c \in Callers : lane[l].b = api[c].b => lane[l].b = 0
    /\ \A i, j \in 1..Len(queue) : i # j => queue[i] # queue[j]
    /\ \A i \in 1..Len(queue), l \in Lanes : queue[i] # lane[l].b
    /\ \A i \in 1..Len(queue), c \in Callers : queue[i] # api[c].b

\* A batch is owned while it is open; otherwise it is done, or excused.
BookInv == \A b \in Batches : b \in excused \/ Done(b) \/ (status[b] \in Open /\ Owned(b))

\* Executions belong to a batch that exists.
BornInv == \A b \in Batches : status[b] = "none" => \A r \in Rules : row[b][r] = "none"

\* Cycle c does not wait for the check.
Excused(c, r) == SettledIn(c, r) \/ NotYetAgain(c, r)

\* Where a lane is about to advance the schedule, nothing it looked at is waited for.
BasisInv ==
    /\ next = 0 => enabled = {}
    /\ \A l \in Lanes : At(l, "advance") => \A p \in lane[l].basis : Excused(p[1], p[2])

Holders == /\ \A l \in Lanes : LaneInv(l)
           /\ \A c \in Callers : CallerInv(c)
           /\ QueueInv /\ OwnInv

Base == TypeOK /\ Holders /\ BookInv /\ BornInv
IndInv == Base /\ OneQueryPerRule /\ InstanceIsSerial /\ BasisInv

-----------------------------------------------------------------------------
\* How the lanes move.

\* Lane l moves, the others stay, and all stay well typed.
Others(l) ==
    /\ lane' \in [Lanes -> LaneStates]
    /\ \A m \in Lanes \ {l} : lane'[m] = lane[m]

LEMMA LaneFields ==
    ASSUME NEW s \in LaneStates
    PROVE  /\ s.pc \in LanePcs /\ s.b \in Batches \cup {0}
           /\ s.todo \subseteq Rules /\ s.rule \subseteq Rules
           /\ s.due \in Nat /\ s.missed \in BOOLEAN /\ s.late \in BOOLEAN
           /\ s.basis \subseteq Nat \X Rules
  BY Zenon DEF LaneStates

\* A lane that is given a well-typed state moves alone.
LEMMA LaneSet ==
    ASSUME TypeOK, NEW l \in Lanes, NEW s \in LaneStates, lane' = [lane EXCEPT ![l] = s]
    PROVE  Others(l) /\ lane'[l] = s
  BY DEF TypeOK, Others

LEMMA IdleIsTyped ==
    /\ IdleLane \in LaneStates
    /\ IdleLane.pc = "idle" /\ IdleLane.b = 0 /\ IdleLane.todo = {} /\ IdleLane.rule = {}
    /\ IdleLane.missed = FALSE /\ IdleLane.basis = {}
  <1>1. "idle" \in LanePcs /\ 0 \in Batches \cup {0} /\ {} \in SUBSET Rules
        /\ {} \in SUBSET (Nat \X Rules) /\ FALSE \in BOOLEAN /\ 0 \in Nat
    BY DEF LanePcs
  <1> QED BY <1>1, Zenon DEF IdleLane, LaneStates

\* A lane only goes to another place.
LEMMA GotoEffect ==
    ASSUME TypeOK, NEW l \in Lanes, NEW pc \in LanePcs, Goto(l, pc)
    PROVE  /\ Others(l)
           /\ lane'[l].pc = pc /\ lane'[l].b = lane[l].b /\ lane'[l].todo = lane[l].todo
           /\ lane'[l].rule = lane[l].rule /\ lane'[l].missed = lane[l].missed
           /\ lane'[l].basis = lane[l].basis
  <1>1. PICK s : s = [lane[l] EXCEPT !.pc = pc]  OBVIOUS
  <1>2. lane[l] \in LaneStates  BY DEF TypeOK
  <1>3. /\ s \in LaneStates
        /\ s.pc = pc /\ s.b = lane[l].b /\ s.todo = lane[l].todo
        /\ s.rule = lane[l].rule /\ s.missed = lane[l].missed /\ s.basis = lane[l].basis
    BY <1>1, <1>2, Zenon DEF LaneStates
  <1>4. lane' = [lane EXCEPT ![l] = s]  BY <1>1 DEF Goto, TypeOK
  <1> QED BY <1>3, <1>4, LaneSet

\* A lane becomes idle.
LEMMA IdleEffect ==
    ASSUME TypeOK, NEW l \in Lanes, lane' = [lane EXCEPT ![l] = IdleLane]
    PROVE  /\ Others(l)
           /\ lane'[l].pc = "idle" /\ lane'[l].b = 0 /\ lane'[l].rule = {} /\ lane'[l].basis = {}
  BY IdleIsTyped, LaneSet

\* A lane starts a piece of work from a clean state: executeManualBatch, scanDue,
\* the worker's next group, and the count after a batch.
LEMMA TakeManualLane ==
    ASSUME TypeOK, TakeManual
    PROVE  /\ Others("loop") /\ queue # <<>> /\ Head(queue) \in Batches
           /\ lane'["loop"].pc = "admit" /\ lane'["loop"].b = Head(queue)
           /\ lane'["loop"].todo = {r \in Rules : row[Head(queue)][r] # "none"}
           /\ lane'["loop"].rule = {} /\ lane'["loop"].basis = {}
  <1> DEFINE todo == {r \in Rules : row[Head(queue)][r] # "none"}
  <1>1. Head(queue) \in Batches /\ "loop" \in Lanes /\ queue # <<>>
    BY DEF TakeManual, TypeOK, Batches, Lanes
  <1>2. PICK s : s = [IdleLane EXCEPT !.pc = "admit", !.b = Head(queue), !.todo = todo]  OBVIOUS
  <1>3. "admit" \in LanePcs /\ todo \in SUBSET Rules  BY DEF LanePcs
  <1>4. /\ s \in LaneStates
        /\ s.pc = "admit" /\ s.b = Head(queue) /\ s.todo = todo /\ s.rule = {} /\ s.basis = {}
    <2> HIDE DEF todo
    <2> QED BY <1>1, <1>2, <1>3, IdleIsTyped, Zenon DEF LaneStates
  <1>5. lane' = [lane EXCEPT !["loop"] = s]  BY <1>2 DEF TakeManual
  <1> QED BY <1>1, <1>4, <1>5, LaneSet

LEMMA ScanFindLane ==
    ASSUME TypeOK, ScanFind
    PROVE  /\ Others("loop") /\ lane'["loop"].b = 0 /\ lane'["loop"].rule = {}
           /\ \/ /\ Pending = {} /\ lane'["loop"].pc = "advance"
                 /\ lane'["loop"].basis = {<<next, r>> : r \in enabled}
              \/ /\ Pending # {} /\ lane'["loop"].pc = "submit" /\ lane'["loop"].todo = Pending
                 /\ lane'["loop"].basis = {}
  <1> DEFINE basis == {<<next, r>> : r \in enabled}
  <1>1. "loop" \in Lanes  BY DEF Lanes
  <1>2. basis \in SUBSET (Nat \X Rules) /\ Pending \in SUBSET Rules /\ next \in Nat
    BY BoundAssumption DEF TypeOK, Pending
  <1>3. "advance" \in LanePcs /\ "submit" \in LanePcs  BY DEF LanePcs
  <1>4. CASE Pending = {}
    <2>1. PICK s : s = [IdleLane EXCEPT !.pc = "advance", !.basis = basis]  OBVIOUS
    <2>2. s \in LaneStates /\ s.pc = "advance" /\ s.b = 0 /\ s.rule = {} /\ s.basis = basis
      <3> HIDE DEF basis
      <3> QED BY <1>2, <1>3, <2>1, IdleIsTyped, Zenon DEF LaneStates
    <2>3. lane' = [lane EXCEPT !["loop"] = s]  BY <1>4, <2>1 DEF ScanFind
    <2> QED BY <1>1, <1>4, <2>2, <2>3, LaneSet
  <1>5. CASE Pending # {}
    <2>1. PICK s : s = [IdleLane EXCEPT !.pc = "submit", !.todo = Pending, !.due = next]  OBVIOUS
    <2>2. s \in LaneStates /\ s.pc = "submit" /\ s.b = 0 /\ s.rule = {} /\ s.basis = {} /\ s.todo = Pending
      BY <1>2, <1>3, <2>1, IdleIsTyped, Zenon DEF LaneStates
    <2>3. lane' = [lane EXCEPT !["loop"] = s]  BY <1>5, <2>1 DEF ScanFind
    <2> QED BY <1>1, <1>5, <2>2, <2>3, LaneSet
  <1> QED BY <1>4, <1>5

LEMMA TakeGroupLane ==
    ASSUME TypeOK, NEW w \in Workers, TakeGroup(w)
    PROVE  /\ Others(w) /\ lane'[w].pc = "recheck" /\ lane'[w].b = 0 /\ lane'[w].todo = group
           /\ lane'[w].rule = {} /\ lane'[w].basis = {}
  <1>1. w \in Lanes /\ group \in SUBSET Rules /\ groupDue \in Nat  BY DEF Lanes, TypeOK
  <1>2. PICK s : s = [IdleLane EXCEPT !.pc = "recheck", !.todo = group, !.due = groupDue]  OBVIOUS
  <1>3. "recheck" \in LanePcs  BY DEF LanePcs
  <1>4. s \in LaneStates /\ s.pc = "recheck" /\ s.b = 0 /\ s.rule = {} /\ s.basis = {} /\ s.todo = group
    BY <1>1, <1>2, <1>3, IdleIsTyped, Zenon DEF LaneStates
  <1>5. lane' = [lane EXCEPT ![w] = s]  BY <1>2 DEF TakeGroup
  <1> QED BY <1>1, <1>4, <1>5, LaneSet

\* executeBatch returns.
LEMMA AfterLane ==
    ASSUME TypeOK, NEW l \in Lanes, AfterBatch(l)
    PROVE  /\ Others(l) /\ lane'[l].b = 0 /\ lane'[l].rule = {} /\ lane'[l].basis = {}
           /\ lane'[l].pc = (IF l \in Workers THEN "count" ELSE "idle")
  <1>1. CASE l \in Workers
    <2>1. PICK s : s = [IdleLane EXCEPT !.pc = "count"]  OBVIOUS
    <2>2. "count" \in LanePcs  BY DEF LanePcs
    <2>3. s \in LaneStates /\ s.pc = "count" /\ s.b = 0 /\ s.rule = {} /\ s.basis = {}
      BY <2>1, <2>2, IdleIsTyped, Zenon DEF LaneStates
    <2>4. lane' = [lane EXCEPT ![l] = s]  BY <1>1, <2>1 DEF AfterBatch
    <2> QED BY <1>1, <2>3, <2>4, LaneSet
  <1>2. CASE l \notin Workers
    <2>1. lane' = [lane EXCEPT ![l] = IdleLane]  BY <1>2 DEF AfterBatch
    <2> QED BY <1>2, <2>1, IdleEffect
  <1> QED BY <1>1, <1>2

\* The worker learns its batch.
LEMMA CreateLane ==
    ASSUME TypeOK, NEW w \in Lanes, NEW b \in Batches,
           lane' = [lane EXCEPT ![w].pc = "plan", ![w].b = b]
    PROVE  /\ Others(w) /\ lane'[w].pc = "plan" /\ lane'[w].b = b /\ lane'[w].todo = lane[w].todo
           /\ lane'[w].rule = lane[w].rule /\ lane'[w].basis = lane[w].basis
  <1>1. PICK s : s = [lane[w] EXCEPT !.pc = "plan", !.b = b]  OBVIOUS
  <1>2. lane[w] \in LaneStates /\ "plan" \in LanePcs /\ b \in Batches \cup {0}
    BY DEF TypeOK, LanePcs
  <1>3. /\ s \in LaneStates /\ s.pc = "plan" /\ s.b = b /\ s.todo = lane[w].todo
        /\ s.rule = lane[w].rule /\ s.basis = lane[w].basis
    BY <1>1, <1>2, Zenon DEF LaneStates
  <1>4. lane' = [lane EXCEPT ![w] = s]  BY <1>1 DEF TypeOK
  <1> QED BY <1>3, <1>4, LaneSet

\* A task is skipped.
LEMMA SkipLane ==
    ASSUME TypeOK, NEW l \in Lanes, NEW r, SkipTask(l, r)
    PROVE  /\ Others(l) /\ lane'[l].pc = lane[l].pc /\ lane'[l].b = lane[l].b
           /\ lane'[l].rule = lane[l].rule /\ lane'[l].missed = TRUE
           /\ lane'[l].basis = lane[l].basis
  <1>1. PICK s : s = [lane[l] EXCEPT !.todo = @ \ {r}, !.missed = TRUE]  OBVIOUS
  <1>2. lane[l] \in LaneStates /\ TRUE \in BOOLEAN  BY DEF TypeOK
  <1>3. lane[l].todo \ {r} \in SUBSET Rules  BY <1>2, LaneFields
  <1>4. /\ s \in LaneStates /\ s.pc = lane[l].pc /\ s.b = lane[l].b
        /\ s.rule = lane[l].rule /\ s.missed = TRUE /\ s.basis = lane[l].basis
    BY <1>1, <1>2, <1>3, Zenon DEF LaneStates
  <1>5. lane' = [lane EXCEPT ![l] = s]  BY <1>1 DEF SkipTask, TypeOK
  <1> QED BY <1>4, <1>5, LaneSet

\* A task is begun.
LEMMA BeginLane ==
    ASSUME TypeOK, NEW l \in Lanes, NEW r \in Rules,
           lane' = [lane EXCEPT ![l].pc = "acquire", ![l].rule = {r}, ![l].todo = @ \ {r}]
    PROVE  /\ Others(l) /\ lane'[l].pc = "acquire" /\ lane'[l].b = lane[l].b
           /\ lane'[l].rule = {r} /\ lane'[l].todo = lane[l].todo \ {r}
           /\ lane'[l].missed = lane[l].missed /\ lane'[l].basis = lane[l].basis
  <1>1. PICK s : s = [lane[l] EXCEPT !.pc = "acquire", !.rule = {r}, !.todo = @ \ {r}]  OBVIOUS
  <1>2. lane[l] \in LaneStates /\ {r} \in SUBSET Rules /\ "acquire" \in LanePcs
    BY DEF TypeOK, LanePcs
  <1>3. lane[l].todo \ {r} \in SUBSET Rules  BY <1>2, LaneFields
  <1>4. /\ s \in LaneStates /\ s.pc = "acquire" /\ s.b = lane[l].b
        /\ s.rule = {r} /\ s.todo = lane[l].todo \ {r}
        /\ s.missed = lane[l].missed /\ s.basis = lane[l].basis
    BY <1>1, <1>2, <1>3, Zenon DEF LaneStates
  <1>5. lane' = [lane EXCEPT ![l] = s]  BY <1>1 DEF TypeOK
  <1> QED BY <1>4, <1>5, LaneSet

\* A task is over.
LEMMA VerdictLane ==
    ASSUME TypeOK, NEW l \in Lanes, NEW pc \in LanePcs,
           lane' = [lane EXCEPT ![l].pc = pc, ![l].rule = {}]
    PROVE  /\ Others(l) /\ lane'[l].pc = pc /\ lane'[l].b = lane[l].b
           /\ lane'[l].rule = {} /\ lane'[l].todo = lane[l].todo
           /\ lane'[l].missed = lane[l].missed /\ lane'[l].basis = lane[l].basis
  <1>1. PICK s : s = [lane[l] EXCEPT !.pc = pc, !.rule = {}]  OBVIOUS
  <1>2. lane[l] \in LaneStates /\ {} \in SUBSET Rules  BY DEF TypeOK
  <1>3. /\ s \in LaneStates /\ s.pc = pc /\ s.b = lane[l].b
        /\ s.rule = {} /\ s.todo = lane[l].todo
        /\ s.missed = lane[l].missed /\ s.basis = lane[l].basis
    BY <1>1, <1>2, Zenon DEF LaneStates
  <1>4. lane' = [lane EXCEPT ![l] = s]  BY <1>1 DEF TypeOK
  <1> QED BY <1>3, <1>4, LaneSet

\* The count found the cycle complete.
LEMMA CountLane ==
    ASSUME TypeOK, NEW l \in Lanes,
           lane' = [lane EXCEPT ![l].pc = "advance", ![l].basis = {<<next, r>> : r \in enabled}]
    PROVE  /\ Others(l) /\ lane'[l].pc = "advance" /\ lane'[l].b = lane[l].b
           /\ lane'[l].rule = lane[l].rule /\ lane'[l].basis = {<<next, r>> : r \in enabled}
  <1> DEFINE basis == {<<next, r>> : r \in enabled}
  <1>1. PICK s : s = [lane[l] EXCEPT !.pc = "advance", !.basis = basis]  OBVIOUS
  <1>2. lane[l] \in LaneStates /\ "advance" \in LanePcs  BY DEF TypeOK, LanePcs
  <1>3. basis \in SUBSET (Nat \X Rules)  BY BoundAssumption DEF TypeOK
  <1>4. /\ s \in LaneStates /\ s.pc = "advance" /\ s.b = lane[l].b
        /\ s.rule = lane[l].rule /\ s.basis = basis
    <2> HIDE DEF basis
    <2> QED BY <1>1, <1>2, <1>3, Zenon DEF LaneStates
  <1>5. lane' = [lane EXCEPT ![l] = s]  BY <1>1 DEF TypeOK
  <1> QED BY <1>4, <1>5, LaneSet

\* The batch's context is over.
LEMMA LateLane ==
    ASSUME TypeOK, NEW l \in Lanes, lane' = [lane EXCEPT ![l].late = TRUE]
    PROVE  /\ Others(l) /\ lane'[l].pc = lane[l].pc /\ lane'[l].b = lane[l].b
           /\ lane'[l].rule = lane[l].rule /\ lane'[l].todo = lane[l].todo
           /\ lane'[l].missed = lane[l].missed /\ lane'[l].basis = lane[l].basis
  <1>1. PICK s : s = [lane[l] EXCEPT !.late = TRUE]  OBVIOUS
  <1>2. lane[l] \in LaneStates /\ TRUE \in BOOLEAN  BY DEF TypeOK
  <1>3. /\ s \in LaneStates /\ s.pc = lane[l].pc /\ s.b = lane[l].b
        /\ s.rule = lane[l].rule /\ s.todo = lane[l].todo
        /\ s.missed = lane[l].missed /\ s.basis = lane[l].basis
    BY <1>1, <1>2, Zenon DEF LaneStates
  <1>4. lane' = [lane EXCEPT ![l] = s]  BY <1>1 DEF TypeOK
  <1> QED BY <1>3, <1>4, LaneSet

-----------------------------------------------------------------------------
\* What the statements do to the tables.

TablesOK ==
    /\ status \in [Batches -> {"none"} \cup Open \cup Closed]
    /\ row \in [Batches -> [Rules -> {"none"} \cup Open \cup Closed]]
    /\ slot \in [Batches -> [Rules -> 0..cycle]]
    /\ scheduledAt \in [Batches -> Nat]

\* Only the tables of batch b may change.
Keeps(b) == \A x \in Batches \ {b} : status'[x] = status[x] /\ row'[x] = row[x]

\* A stamp is never set back, and the slot of a planned batch stays.
SlotGrows ==
    \A b \in Batches, r \in Rules :
      slot'[b][r] >= slot[b][r] /\ (row[b][r] # "none" => scheduledAt'[b] = scheduledAt[b])

\* The step is one that QualityBatch allows.
Allowed == [Promise!Next]_<<status, row>>

\* The statement leaves the tables in order.
InOrder(b) == TablesOK' /\ Keeps(b) /\ SlotGrows /\ Allowed

LEMMA NoStatement ==
    ASSUME TypeOK, UNCHANGED tables, cycle' = cycle
    PROVE  \A b : InOrder(b)
  BY DEF TypeOK, tables, InOrder, TablesOK, Keeps, SlotGrows, Allowed

LEMMA CreateRunEffect ==
    ASSUME TypeOK, NEW b \in Batches, status[b] = "none", CreateRun(b),
           UNCHANGED <<row, slot, scheduledAt, cycle>>
    PROVE  InOrder(b) /\ status'[b] = "PENDING" /\ row'[b] = row[b]
  <1>1. TablesOK' /\ Keeps(b) /\ SlotGrows /\ status'[b] = "PENDING"
    BY DEF TypeOK, CreateRun, TablesOK, Keeps, SlotGrows, Open
  <1>2. Promise!Create(b)  BY DEF CreateRun, Promise!Create
  <1> QED BY <1>1, <1>2 DEF InOrder, Allowed, Promise!Next

LEMMA PlanRowsEffect ==
    ASSUME TypeOK, NEW b, Unplanned(b), NEW chosen \in SUBSET Rules, chosen # {},
           PlanRows(b, chosen), UNCHANGED <<status, cycle>>, scheduledAt' \in [Batches -> Nat],
           \A x \in Batches \ {b} : scheduledAt'[x] = scheduledAt[x]
    PROVE  /\ InOrder(b) /\ Ready(b)'
           /\ \A r \in Rules \ chosen : row'[b][r] = "none"
  <1>1. b \in Batches /\ cycle \in Nat  BY BoundAssumption DEF Unplanned, TypeOK
  <1>2. \A r \in Rules : row'[b][r] = (IF r \in chosen THEN "PENDING" ELSE "none")
    BY <1>1 DEF PlanRows, TypeOK, Unplanned
  <1>3. row' \in [Batches -> [Rules -> {"none"} \cup Open \cup Closed]]
    BY <1>1 DEF PlanRows, TypeOK, Open
  <1>4. slot' \in [Batches -> [Rules -> 0..cycle]] /\ SlotGrows
    BY <1>1 DEF PlanRows, TypeOK, SlotGrows, Unplanned
  <1>5. Keeps(b)  BY DEF PlanRows, TypeOK, Keeps
  <1>6. Promise!Plan(b, chosen)
    <2>1. Promise!RulesOf(b) = {}  BY DEF Promise!RulesOf, Unplanned
    <2>2. row' = [row EXCEPT ![b] = [r \in Rules |-> IF r \in chosen THEN "PENDING" ELSE "none"]]
      BY <1>1 DEF PlanRows, Unplanned, TypeOK
    <2> QED BY <2>1, <2>2 DEF Promise!Plan, Unplanned
  <1>7. Ready(b)'
    BY <1>1, <1>2 DEF Ready, Unplanned
  <1> QED BY <1>1, <1>2, <1>3, <1>4, <1>5, <1>6, <1>7
          DEF InOrder, TablesOK, TypeOK, Allowed, Promise!Next

LEMMA StartRunEffect ==
    ASSUME TypeOK, NEW b, Ready(b), StartRun(b), UNCHANGED <<row, slot, scheduledAt, cycle>>
    PROVE  InOrder(b) /\ Executing(b)' /\ row'[b] = row[b]
  <1>1. TablesOK' /\ Keeps(b) /\ SlotGrows
    BY DEF TypeOK, StartRun, TablesOK, Keeps, SlotGrows, Open, Ready
  <1>2. Executing(b)'  BY DEF TypeOK, StartRun, Executing, Ready
  <1>3. Promise!Start(b)  BY DEF StartRun, Ready, Promise!Start, Promise!RulesOf
  <1> QED BY <1>1, <1>2, <1>3 DEF InOrder, Allowed, Promise!Next, Ready

LEMMA BeginRowEffect ==
    ASSUME TypeOK, NEW b, Executing(b), NEW r \in Rules, row[b][r] = "PENDING",
           BeginRow(b, r), UNCHANGED <<status, scheduledAt, cycle>>
    PROVE  /\ InOrder(b) /\ Executing(b)' /\ row'[b][r] = "RUNNING"
           /\ \A q \in Rules \ {r} : row'[b][q] = row[b][q]
  <1>1. b \in Batches /\ cycle \in Nat  BY BoundAssumption DEF Executing, TypeOK
  <1>2. row' \in [Batches -> [Rules -> {"none"} \cup Open \cup Closed]]
    BY <1>1 DEF BeginRow, TypeOK, Open
  <1>3. slot' \in [Batches -> [Rules -> 0..cycle]] /\ SlotGrows
    BY <1>1 DEF BeginRow, TypeOK, SlotGrows
  <1>4. Keeps(b)  BY DEF BeginRow, TypeOK, Keeps
  <1>5. row'[b][r] = "RUNNING" /\ \A q \in Rules \ {r} : row'[b][q] = row[b][q]
    BY <1>1 DEF BeginRow, TypeOK
  <1>6. Executing(b)'  BY <1>1, <1>5 DEF Executing
  <1>7. Promise!Begin(b, r)  BY DEF Executing, BeginRow, Promise!Begin
  <1> QED BY <1>1, <1>2, <1>3, <1>4, <1>5, <1>6, <1>7
          DEF InOrder, TablesOK, TypeOK, Allowed, Promise!Next

LEMMA JudgeRowEffect ==
    ASSUME TypeOK, NEW b, Executing(b), NEW r \in Rules, row[b][r] = "RUNNING",
           JudgeRow(b, r), UNCHANGED <<status, slot, scheduledAt, cycle>>
    PROVE  /\ InOrder(b) /\ Executing(b)' /\ row'[b][r] = "COMPLETED"
           /\ \A q \in Rules \ {r} : row'[b][q] = row[b][q]
  <1>1. b \in Batches  BY DEF Executing
  <1>2. row' \in [Batches -> [Rules -> {"none"} \cup Open \cup Closed]]
    BY <1>1 DEF JudgeRow, TypeOK, Closed
  <1>3. SlotGrows /\ Keeps(b)  BY DEF JudgeRow, TypeOK, Keeps, SlotGrows
  <1>4. row'[b][r] = "COMPLETED" /\ \A q \in Rules \ {r} : row'[b][q] = row[b][q]
    BY <1>1 DEF JudgeRow, TypeOK
  <1>5. Executing(b)'  BY <1>1, <1>4 DEF Executing
  <1>6. Promise!Judge(b, r)  BY DEF Executing, JudgeRow, Promise!Judge
  <1> QED BY <1>1, <1>2, <1>3, <1>4, <1>5, <1>6
          DEF InOrder, TablesOK, TypeOK, Allowed, Promise!Next

LEMMA AbandonRowsEffect ==
    ASSUME TypeOK, NEW b \in Batches, AbandonRows(b), UNCHANGED <<status, slot, scheduledAt, cycle>>
    PROVE  InOrder(b) /\ RowsShut(b)' /\ status'[b] = status[b]
  <1>1. \A r \in Rules : row'[b][r] = IF row[b][r] \in Open THEN "ABANDONED" ELSE row[b][r]
    BY DEF AbandonRows, TypeOK
  <1>2. row' \in [Batches -> [Rules -> {"none"} \cup Open \cup Closed]]
    BY DEF AbandonRows, TypeOK, Closed
  <1>3. SlotGrows /\ Keeps(b)  BY DEF AbandonRows, TypeOK, Keeps, SlotGrows
  <1>4. RowsShut(b)'  BY <1>1 DEF RowsShut, Open
  <1>5. Promise!Abandon
    <2>1. status' \in [Batches -> Promise!States] /\ row' \in [Batches -> [Rules -> Promise!States]]
      BY <1>2 DEF TypeOK, Promise!States, Promise!Open, Promise!Closed, Open, Closed
    <2>2. \A x \in Batches, r \in Rules :
            row'[x][r] = row[x][r] \/ (row[x][r] \in Promise!Open /\ row'[x][r] = "ABANDONED")
      BY <1>1, <1>3 DEF Keeps, Promise!Open, Open
    <2> QED BY <2>1, <2>2 DEF Promise!Abandon
  <1> QED BY <1>2, <1>3, <1>4, <1>5 DEF InOrder, TablesOK, TypeOK, Allowed, Promise!Next

LEMMA GiveUpEffect ==
    ASSUME TypeOK, NEW b \in Batches, FinishRun(b, "ABANDONED"), UNCHANGED <<row, slot, scheduledAt, cycle>>
    PROVE  InOrder(b) /\ status'[b] \notin Open /\ row'[b] = row[b]
  <1>1. TablesOK' /\ Keeps(b) /\ SlotGrows /\ status'[b] \notin Open
    BY DEF TypeOK, FinishRun, TablesOK, Keeps, SlotGrows, Open, Closed
  <1>2. Promise!Abandon
    <2>1. status' \in [Batches -> Promise!States] /\ row' \in [Batches -> [Rules -> Promise!States]]
      BY <1>1 DEF TablesOK, Promise!States, Promise!Open, Promise!Closed, Open, Closed
    <2>2. \A x \in Batches :
            status'[x] = status[x] \/ (status[x] \in Promise!Open /\ status'[x] = "ABANDONED")
      BY DEF TypeOK, FinishRun, Promise!Open, Open
    <2> QED BY <2>1, <2>2 DEF Promise!Abandon
  <1> QED BY <1>1, <1>2 DEF InOrder, Allowed, Promise!Next

LEMMA CompleteEffect ==
    ASSUME TypeOK, NEW b, Executing(b), \A r \in Rules : row[b][r] \in {"none", "COMPLETED"},
           FinishRun(b, "COMPLETED"), UNCHANGED <<row, slot, scheduledAt, cycle>>
    PROVE  InOrder(b) /\ Done(b)'
  <1> USE DEF Executing
  <1>1. status' = [status EXCEPT ![b] = "COMPLETED"]  BY DEF FinishRun, Open
  <1>2. TablesOK' /\ Keeps(b) /\ SlotGrows
    BY <1>1 DEF TypeOK, TablesOK, Keeps, SlotGrows, Closed
  <1>3. Done(b)'  BY <1>1 DEF TypeOK, Open, Done, RowsShut
  <1>4. Promise!Complete(b)  BY <1>1 DEF Promise!Complete, Promise!RulesOf
  <1> QED BY <1>2, <1>3, <1>4 DEF InOrder, Allowed, Promise!Next

-----------------------------------------------------------------------------
\* Who is not concerned by a step.

LEMMA ZeroIsNoBatch == 0 \notin Batches
  BY BatchAssumption DEF Batches

\* A lane whose batch is left alone knows what it knew.
LEMMA LaneKept ==
    ASSUME NEW l \in Lanes, LaneInv(l), lane'[l] = lane[l], excused \subseteq excused',
           lane[l].b \in Batches => status'[lane[l].b] = status[lane[l].b]
                                    /\ row'[lane[l].b] = row[lane[l].b]
    PROVE  LaneInv(l)'
  <1>1. CASE lane[l].b \in Batches
    BY <1>1 DEF LaneInv, Unplanned, Ready, Executing, RowsShut
  <1>2. CASE lane[l].b \notin Batches
    BY <1>2 DEF LaneInv, Unplanned, Ready, Executing, Detached, Querying
  <1> QED BY <1>1, <1>2

LEMMA CallerKept ==
    ASSUME NEW c \in Callers, CallerInv(c), api'[c] = api[c], excused \subseteq excused',
           api[c].b \in Batches => status'[api[c].b] = status[api[c].b]
                                   /\ row'[api[c].b] = row[api[c].b]
    PROVE  CallerInv(c)'
  <1>1. CASE api[c].b \in Batches
    BY <1>1 DEF CallerInv, Unplanned, Ready, RowsShut
  <1>2. CASE api[c].b \notin Batches
    BY <1>2 DEF CallerInv, Unplanned, Ready
  <1> QED BY <1>1, <1>2

\* A lane's batch and a request's batch are open.
LEMMA LaneOpenNext ==
    ASSUME NEW l \in Lanes, LaneInv(l)', lane' \in [Lanes -> LaneStates], lane'[l].b \in Batches
    PROVE  status'[lane'[l].b] \in Open
  <1>1. lane'[l].pc \in LanePcs  BY LaneFields
  <1>2. lane'[l].b # 0  BY ZeroIsNoBatch
  <1> QED BY <1>1, <1>2 DEF LaneInv, Unplanned, Ready, Executing, Detached, Querying, LanePcs, Open

LEMMA CallerOpenNext ==
    ASSUME NEW c \in Callers, CallerInv(c)', api' \in [Callers -> CallerStates], api'[c].b \in Batches
    PROVE  status'[api'[c].b] \in Open
  <1>1. api'[c].pc \in CallerPcs  BY DEF CallerStates
  <1>2. api'[c].b # 0  BY ZeroIsNoBatch
  <1> QED BY <1>1, <1>2 DEF CallerInv, Unplanned, Ready, CallerPcs, Open

\* The owner lets go of a batch only when it is done, or excused.
LetsGo(b, kept) == (b \in Batches /\ kept # b) => (b \in excused' \/ Done(b)')

\* One lane works on its batch, or lets go of it.
LEMMA LaneFrame ==
    ASSUME TypeOK, Holders, BookInv, NEW l \in Lanes, Others(l), UNCHANGED <<api, queue>>,
           NEW x, x = lane[l].b, Keeps(x), excused \subseteq excused', lane'[l].b \in {x, 0},
           LaneInv(l)', LetsGo(x, lane'[l].b)
    PROVE  Holders' /\ BookInv'
  <1>1. \A m \in Lanes \ {l} : lane[m].b \in Batches => lane[m].b # lane[l].b
    BY ZeroIsNoBatch DEF Holders, OwnInv
  <1>2. ASSUME NEW m \in Lanes PROVE LaneInv(m)'
    <2>1. CASE m = l  BY <2>1
    <2>2. CASE m # l  BY <1>1, <2>2, LaneKept DEF Keeps, Others, Holders
    <2> QED BY <2>1, <2>2
  <1>3. ASSUME NEW c \in Callers PROVE CallerInv(c)'
    <2>1. api[c].b \in Batches => api[c].b # lane[l].b  BY ZeroIsNoBatch DEF Holders, OwnInv
    <2> QED BY <2>1, CallerKept DEF Keeps, Holders
  <1>4. QueueInv'
    <2>1. \A i \in 1..Len(queue) : queue[i] # lane[l].b  BY DEF Holders, OwnInv
    <2> QED BY <2>1 DEF QueueInv, Holders, Ready, Keeps
  <1>5. OwnInv'
    <2>1. \A m \in Lanes : lane'[m].b \in {lane[m].b, 0}  BY DEF Others
    <2>2. \A i \in 1..Len(queue) : queue[i] # 0
      BY ZeroIsNoBatch DEF Holders, QueueInv, Ready
    <2> QED BY <2>1, <2>2 DEF Holders, OwnInv
  <1>6. BookInv'
    <2> SUFFICES ASSUME NEW b \in Batches
                 PROVE  (b \in excused \/ Done(b) \/ (status[b] \in Open /\ Owned(b)))'
      BY DEF BookInv
    <2>1. CASE b # lane[l].b
      <3>1. Done(b) => Done(b)'  BY <2>1 DEF Done, RowsShut, Keeps
      <3>2. Owned(b) => Owned(b)'  BY <2>1 DEF Owned, Others
      <3> QED BY <2>1, <3>1, <3>2 DEF BookInv, Keeps
    <2>2. CASE b = lane[l].b /\ lane'[l].b = lane[l].b
      <3>1. Owned(b)'  BY <2>2 DEF Owned
      <3> QED BY <2>2, <3>1, LaneOpenNext DEF Others
    <2>3. CASE b = lane[l].b /\ lane'[l].b # lane[l].b
      BY <2>3 DEF LetsGo
    <2> QED BY <2>1, <2>2, <2>3
  <1> QED BY <1>2, <1>3, <1>4, <1>5, <1>6 DEF Holders

\* Request c moves, the others stay.
OtherCallers(c) ==
    /\ api' \in [Callers -> CallerStates]
    /\ \A d \in Callers \ {c} : api'[d] = api[d]

LEMMA CallerFrame ==
    ASSUME TypeOK, Holders, BookInv, NEW c \in Callers, OtherCallers(c), UNCHANGED <<lane, queue>>,
           NEW x, x = api[c].b, Keeps(x), excused \subseteq excused', api'[c].b \in {x, 0},
           CallerInv(c)', LetsGo(x, api'[c].b)
    PROVE  Holders' /\ BookInv'
  <1>1. \A d \in Callers \ {c} : api[d].b \in Batches => api[d].b # api[c].b
    BY ZeroIsNoBatch DEF Holders, OwnInv
  <1>2. ASSUME NEW d \in Callers PROVE CallerInv(d)'
    <2>1. CASE d = c  BY <2>1
    <2>2. CASE d # c  BY <1>1, <2>2, CallerKept DEF Keeps, OtherCallers, Holders
    <2> QED BY <2>1, <2>2
  <1>3. ASSUME NEW m \in Lanes PROVE LaneInv(m)'
    <2>1. lane[m].b \in Batches => lane[m].b # api[c].b  BY ZeroIsNoBatch DEF Holders, OwnInv
    <2> QED BY <2>1, LaneKept DEF Keeps, Holders
  <1>4. QueueInv'
    <2>1. \A i \in 1..Len(queue) : queue[i] # api[c].b  BY DEF Holders, OwnInv
    <2> QED BY <2>1 DEF QueueInv, Holders, Ready, Keeps
  <1>5. OwnInv'
    <2>1. \A d \in Callers : api'[d].b \in {api[d].b, 0}  BY DEF OtherCallers
    <2>2. \A i \in 1..Len(queue) : queue[i] # 0
      BY ZeroIsNoBatch DEF Holders, QueueInv, Ready
    <2> QED BY <2>1, <2>2 DEF Holders, OwnInv
  <1>6. BookInv'
    <2> SUFFICES ASSUME NEW b \in Batches
                 PROVE  (b \in excused \/ Done(b) \/ (status[b] \in Open /\ Owned(b)))'
      BY DEF BookInv
    <2>1. CASE b # api[c].b
      <3>1. Done(b) => Done(b)'  BY <2>1 DEF Done, RowsShut, Keeps
      <3>2. Owned(b) => Owned(b)'  BY <2>1 DEF Owned, OtherCallers
      <3> QED BY <2>1, <3>1, <3>2 DEF BookInv, Keeps
    <2>2. CASE b = api[c].b /\ api'[c].b = api[c].b
      <3>1. Owned(b)'  BY <2>2 DEF Owned
      <3> QED BY <2>2, <3>1, CallerOpenNext DEF OtherCallers
    <2>3. CASE b = api[c].b /\ api'[c].b # api[c].b
      BY <2>3 DEF LetsGo
    <2> QED BY <2>1, <2>2, <2>3
  <1> QED BY <1>2, <1>3, <1>4, <1>5, <1>6 DEF Holders

-----------------------------------------------------------------------------
\* The lanes' steps, one by one.

\* What every step has to show.
Good == TypeOK' /\ Holders' /\ BookInv' /\ Allowed /\ SlotGrows /\ past' = past

LEMMA LaterIsTyped ==
    ASSUME TypeOK
    PROVE  \A t \in Later : t \in 1..MaxCycles + 1
  BY BoundAssumption DEF TypeOK, Later

\* The counters and the runner's own state stay typed.
Quiet ==
    /\ next' \in 0..MaxCycles + 1 /\ faults' \in 0..MaxFaults
    /\ group' \subseteq Rules /\ groupDue' \in Nat /\ reserved' \in BOOLEAN /\ inflight' \subseteq Rules
    /\ excused \subseteq excused' /\ excused' \subseteq Batches
    /\ UNCHANGED <<cycle, enabled, past, edits>>

LEMMA FaultIsTyped ==
    ASSUME TypeOK
    PROVE  /\ Fault => faults' \in 0..MaxFaults
           /\ NoFault => faults' \in 0..MaxFaults
           /\ Fine => faults' \in 0..MaxFaults /\ excused' = excused
           /\ \A b : CutOff(b) => /\ faults' \in 0..MaxFaults /\ excused \subseteq excused'
                                  /\ excused' \subseteq Batches /\ (b \in Batches => b \in excused')
  BY BoundAssumption DEF TypeOK, Fault, NoFault, Fine, CutOff

LEMMA LaneGood ==
    ASSUME Base, NEW l \in Lanes, Others(l), NEW x, x = lane[l].b, InOrder(x), Quiet,
           UNCHANGED <<api, queue>>, lane'[l].b \in {x, 0}, LaneInv(l)', LetsGo(x, lane'[l].b)
    PROVE  Good
  <1>1. Holders' /\ BookInv'
    BY LaneFrame DEF Base, InOrder, Quiet
  <1>2. TypeOK'
    BY DEF Base, TypeOK, InOrder, TablesOK, Quiet, Others
  <1> QED BY <1>1, <1>2 DEF Good, InOrder, Quiet

\* The fields of a lane that stands at a given place.
LEMMA LaneTyped ==
    ASSUME TypeOK, NEW l \in Lanes
    PROVE  /\ lane[l].b \in Batches \cup {0} /\ lane[l].todo \subseteq Rules
           /\ lane[l].rule \subseteq Rules /\ lane[l].due \in Nat
  BY LaneFields DEF TypeOK

LEMMA ScanFindGood ==
    ASSUME Base, ScanFind
    PROVE  Good
  <1>1. "loop" \in Lanes /\ TypeOK  BY DEF Lanes, Base
  <1>2. PICK x : x = lane["loop"].b  OBVIOUS
  <1>3. x = 0  BY <1>1, <1>2 DEF Base, Holders, LaneInv, ScanFind, At, Detached
  <1>4. InOrder(x) /\ Quiet /\ UNCHANGED <<api, queue>>
    BY <1>1, NoStatement DEF ScanFind, Quiet, target, TypeOK
  <1>5. /\ Others("loop") /\ lane'["loop"].b = 0 /\ lane'["loop"].rule = {}
        /\ \/ /\ Pending = {} /\ lane'["loop"].pc = "advance"
              /\ lane'["loop"].basis = {<<next, r>> : r \in enabled}
           \/ /\ Pending # {} /\ lane'["loop"].pc = "submit" /\ lane'["loop"].todo = Pending
              /\ lane'["loop"].basis = {}
    BY <1>1, ScanFindLane
  <1>7. LaneInv("loop")'  BY <1>5 DEF LaneInv, Detached, Querying
  <1> QED BY <1>1, <1>2, <1>3, <1>4, <1>5, <1>7, LaneGood DEF LetsGo

LEMMA ScanSubmitGood ==
    ASSUME Base, ScanSubmit
    PROVE  Good
  <1>1. "loop" \in Lanes /\ TypeOK  BY DEF Lanes, Base
  <1>2. PICK x : x = lane["loop"].b  OBVIOUS
  <1>3. x = 0  BY <1>1, <1>2 DEF Base, Holders, LaneInv, ScanSubmit, At, Detached
  <1>4. InOrder(x)  BY <1>1, NoStatement DEF ScanSubmit, target
  <1>5. Quiet /\ UNCHANGED <<api, queue>>
    BY <1>1, LaneTyped, FaultIsTyped DEF ScanSubmit, Quiet, target, TypeOK
  <1>6. Others("loop") /\ lane'["loop"].pc = "idle" /\ lane'["loop"].b = 0
        /\ lane'["loop"].rule = {} /\ lane'["loop"].basis = {}
    BY <1>1, IdleEffect DEF ScanSubmit
  <1>7. LaneInv("loop")'  BY <1>6 DEF LaneInv, Detached, Querying
  <1> QED BY <1>1, <1>2, <1>3, <1>4, <1>5, <1>6, <1>7, LaneGood DEF LetsGo

LEMMA TakeGroupGood ==
    ASSUME Base, NEW w \in Workers, TakeGroup(w)
    PROVE  Good
  <1>1. w \in Lanes /\ TypeOK  BY DEF Lanes, Base
  <1>2. PICK x : x = lane[w].b  OBVIOUS
  <1>3. x = 0  BY <1>1, <1>2 DEF Base, Holders, LaneInv, TakeGroup, At, Detached
  <1>4. InOrder(x) /\ Quiet /\ UNCHANGED <<api, queue>>
    BY <1>1, NoStatement DEF TakeGroup, Quiet, target, TypeOK
  <1>5. Others(w) /\ lane'[w].pc = "recheck" /\ lane'[w].b = 0 /\ lane'[w].todo = group
        /\ lane'[w].rule = {} /\ lane'[w].basis = {}
    BY <1>1, TakeGroupLane
  <1>6. LaneInv(w)'  BY <1>5 DEF LaneInv, Detached, Querying, TakeGroup
  <1> QED BY <1>1, <1>2, <1>3, <1>4, <1>5, <1>6, LaneGood DEF LetsGo

\* A lane without a batch, or whose batch is done or excused, becomes idle.
LEMMA IdleGood ==
    ASSUME Base, NEW l \in Lanes, lane' = [lane EXCEPT ![l] = IdleLane],
           NEW x, x = lane[l].b, InOrder(x), Quiet, UNCHANGED <<api, queue>>, LetsGo(x, 0)
    PROVE  Good
  <1>1. TypeOK  BY DEF Base
  <1>2. Others(l) /\ lane'[l].pc = "idle" /\ lane'[l].b = 0
        /\ lane'[l].rule = {} /\ lane'[l].basis = {}
    BY <1>1, IdleEffect
  <1>3. LaneInv(l)'  BY <1>2 DEF LaneInv, Detached, Querying
  <1> QED BY <1>2, <1>3, LaneGood

\* A lane goes elsewhere and keeps its batch.
LEMMA GotoGood ==
    ASSUME Base, NEW l \in Lanes, NEW pc \in LanePcs, Goto(l, pc),
           NEW x, x = lane[l].b, InOrder(x), Quiet, UNCHANGED <<api, queue>>, LaneInv(l)'
    PROVE  Good
  <1>1. TypeOK  BY DEF Base
  <1>2. Others(l) /\ lane'[l].b = lane[l].b /\ lane'[l].basis = lane[l].basis
    BY <1>1, GotoEffect
  <1> QED BY <1>1, <1>2, LaneTyped, LaneGood DEF LetsGo

LEMMA RecheckGood ==
    ASSUME Base, NEW w \in Workers, Recheck(w)
    PROVE  Good
  <1>1. w \in Lanes /\ TypeOK /\ "admit" \in LanePcs /\ w # "loop"
    BY LoopAssumption DEF Lanes, Base, LanePcs
  <1>2. PICK x : x = lane[w].b  OBVIOUS
  <1>3. x = 0 /\ lane[w].todo # {} /\ lane[w].rule = {}
    BY <1>1, <1>2 DEF Base, Holders, LaneInv, Recheck, At, Detached, Querying
  <1>4. InOrder(x)  BY <1>1, NoStatement DEF Recheck, target
  <1>5. Quiet /\ UNCHANGED <<api, queue>>
    BY <1>1, FaultIsTyped DEF Recheck, EndGroup, Quiet, target, TypeOK
  <1>6. CASE Goto(w, "admit")
    <2>1. LaneInv(w)'
      BY <1>1, <1>2, <1>3, <1>6, GotoEffect DEF LaneInv, Detached, Querying
    <2> QED BY <1>1, <1>2, <1>4, <1>5, <1>6, <2>1, GotoGood
  <1>7. CASE EndGroup(w)
    BY <1>1, <1>2, <1>3, <1>4, <1>5, <1>7, IdleGood DEF EndGroup, LetsGo
  <1> QED BY <1>6, <1>7 DEF Recheck

LEMMA AdmitGood ==
    ASSUME Base, NEW l \in Lanes, Admit(l)
    PROVE  Good
  <1>1. TypeOK /\ {"start", "create", "unadmitted"} \subseteq LanePcs
    BY DEF Base, LanePcs
  <1>2. PICK x : x = lane[l].b  OBVIOUS
  <1>3. LaneInv(l) /\ lane[l].pc = "admit"  BY DEF Base, Holders, Admit, At
  <1>4. InOrder(x)  BY <1>1, NoStatement DEF Admit, target
  <1>5. Quiet /\ UNCHANGED <<api, queue>>
    BY <1>1, FaultIsTyped DEF Admit, EndGroup, Quiet, target, TypeOK
  <1>6. UNCHANGED <<status, row>>  BY DEF Admit, tables
  <1>7. CASE l = "loop" /\ Goto(l, "start")
    <2>1. LaneInv(l)'
      BY <1>1, <1>3, <1>6, <1>7, GotoEffect DEF LaneInv, Detached, Querying, Ready
    <2> QED BY <1>1, <1>2, <1>4, <1>5, <1>7, <2>1, GotoGood
  <1>8. CASE l = "loop" /\ Goto(l, "unadmitted")
    <2>1. LaneInv(l)'
      BY <1>1, <1>3, <1>6, <1>8, GotoEffect DEF LaneInv, Detached, Querying, Ready
    <2> QED BY <1>1, <1>2, <1>4, <1>5, <1>8, <2>1, GotoGood
  <1>9. CASE l # "loop" /\ Goto(l, "create")
    <2>1. LaneInv(l)'
      BY <1>1, <1>3, <1>9, GotoEffect DEF LaneInv, Detached, Querying
    <2> QED BY <1>1, <1>2, <1>4, <1>5, <1>9, <2>1, GotoGood
  <1>10. CASE l \in Workers /\ EndGroup(l)
    <2>1. l # "loop"  BY <1>10, LoopAssumption
    <2>2. x = 0  BY <1>2, <1>3, <2>1 DEF LaneInv
    <2> QED BY <1>2, <1>4, <1>5, <1>10, <2>2, ZeroIsNoBatch, IdleGood DEF EndGroup, LetsGo
  <1> QED BY <1>7, <1>8, <1>9, <1>10 DEF Admit

LEMMA UnadmittedGood ==
    ASSUME Base, Unadmitted
    PROVE  Good
  <1>1. "loop" \in Lanes /\ TypeOK /\ "abandonBatch" \in LanePcs  BY DEF Lanes, Base, LanePcs
  <1>2. PICK x : x = lane["loop"].b  OBVIOUS
  <1>3. Ready(x) /\ x \in Batches /\ lane["loop"].rule = {}
    BY <1>1, <1>2 DEF Base, Holders, LaneInv, Unadmitted, At, Ready, Querying
  <1>4. Quiet /\ UNCHANGED <<api, queue>>
    BY <1>1, FaultIsTyped DEF Unadmitted, Quiet, target, TypeOK
  <1>5. CASE AbandonRows(x) /\ Goto("loop", "abandonBatch")
    <2>1. InOrder(x) /\ RowsShut(x)' /\ status'[x] = status[x]
      BY <1>1, <1>3, <1>5, AbandonRowsEffect DEF Unadmitted, target
    <2>2. LaneInv("loop")'
      BY <1>1, <1>2, <1>3, <1>5, <2>1, GotoEffect DEF LaneInv, Detached, Querying, Ready, RowsShut, Open
    <2> QED BY <1>1, <1>2, <1>4, <1>5, <2>1, <2>2, GotoGood
  <1>6. CASE CutOff(x) /\ lane' = [lane EXCEPT !["loop"] = IdleLane] /\ UNCHANGED row
    <2>1. InOrder(x)  BY <1>1, <1>6, NoStatement DEF Unadmitted, target, tables
    <2>2. LetsGo(x, 0)  BY <1>1, <1>6, FaultIsTyped DEF LetsGo
    <2> QED BY <1>1, <1>2, <1>4, <1>6, <2>1, <2>2, IdleGood
  <1> QED BY <1>2, <1>5, <1>6 DEF Unadmitted

LEMMA StartBatchGood ==
    ASSUME Base, NEW l \in Lanes, StartBatch(l)
    PROVE  Good
  <1>1. TypeOK /\ {"task", "abandonRows"} \subseteq LanePcs  BY DEF Base, LanePcs
  <1>2. PICK x : x = lane[l].b  OBVIOUS
  <1>3. /\ Ready(x) /\ x \in Batches /\ lane[l].rule = {}
        /\ \A r \in Rules \ lane[l].todo : row[x][r] = "none"
    BY <1>2 DEF Base, Holders, LaneInv, StartBatch, At, Ready, Querying
  <1>4. Quiet /\ UNCHANGED <<api, queue, row, slot, scheduledAt, cycle>>
    BY <1>1, FaultIsTyped DEF StartBatch, Quiet, target, TypeOK
  <1>5. CASE StartRun(x) /\ Goto(l, "task")
    <2>1. InOrder(x) /\ Executing(x)' /\ row'[x] = row[x]
      BY <1>1, <1>3, <1>4, <1>5, StartRunEffect
    <2>2. LaneInv(l)'
      BY <1>1, <1>2, <1>3, <1>5, <2>1, GotoEffect DEF LaneInv, Detached, Querying, Executing
    <2> QED BY <1>1, <1>2, <1>4, <1>5, <2>1, <2>2, GotoGood
  <1>6. CASE Goto(l, "abandonRows") /\ UNCHANGED status
    <2>1. InOrder(x)  BY <1>1, <1>4, <1>6, NoStatement DEF tables
    <2>2. LaneInv(l)'
      BY <1>1, <1>2, <1>3, <1>6, GotoEffect DEF LaneInv, Detached, Querying, Ready, Open
    <2> QED BY <1>1, <1>2, <1>4, <1>6, <2>1, <2>2, GotoGood
  <1> QED BY <1>2, <1>5, <1>6 DEF StartBatch

LEMMA BeginTaskGood ==
    ASSUME Base, NEW l \in Lanes, BeginTask(l)
    PROVE  Good
  <1>1. TypeOK  BY DEF Base
  <1>2. PICK x : x = lane[l].b  OBVIOUS
  <1>3. /\ Executing(x) /\ lane[l].pc = "task" /\ lane[l].rule = {}
        /\ ~lane[l].missed
             => \A r \in Rules \ (lane[l].todo \cup lane[l].rule) : row[x][r] \in {"none", "COMPLETED"}
    BY <1>2 DEF Base, Holders, LaneInv, BeginTask, At, Querying
  <1>4. Quiet /\ UNCHANGED <<api, queue, status, scheduledAt, cycle>>
    BY <1>1, FaultIsTyped DEF BeginTask, Quiet, target, TypeOK
  <1>5. PICK r \in lane[l].todo :
          \/ /\ row[x][r] = "PENDING" /\ BeginRow(x, r)
             /\ lane' = [lane EXCEPT ![l].pc = "acquire", ![l].rule = {r}, ![l].todo = @ \ {r}]
          \/ SkipTask(l, r) /\ UNCHANGED <<row, slot>>
    BY <1>2 DEF BeginTask
  <1>6. r \in Rules  BY <1>1, <1>5, LaneTyped
  <1>7. CASE /\ row[x][r] = "PENDING" /\ BeginRow(x, r)
             /\ lane' = [lane EXCEPT ![l].pc = "acquire", ![l].rule = {r}, ![l].todo = @ \ {r}]
    <2>1. /\ InOrder(x) /\ Executing(x)' /\ row'[x][r] = "RUNNING"
          /\ \A q \in Rules \ {r} : row'[x][q] = row[x][q]
      BY <1>1, <1>3, <1>4, <1>6, <1>7, BeginRowEffect
    <2>2. /\ Others(l) /\ lane'[l].pc = "acquire" /\ lane'[l].b = x
          /\ lane'[l].rule = {r} /\ lane'[l].todo = lane[l].todo \ {r}
          /\ lane'[l].missed = lane[l].missed /\ lane'[l].basis = lane[l].basis
      BY <1>1, <1>2, <1>6, <1>7, BeginLane
    <2>3. LaneInv(l)'
      BY <1>3, <1>6, <2>1, <2>2 DEF LaneInv, Detached, Querying
    <2> QED BY <1>1, <1>2, <1>4, <2>1, <2>2, <2>3, LaneTyped, LaneGood DEF LetsGo
  <1>8. CASE SkipTask(l, r) /\ UNCHANGED <<row, slot>>
    <2>1. InOrder(x)  BY <1>1, <1>4, <1>8, NoStatement DEF tables
    <2>2. /\ Others(l) /\ lane'[l].pc = "task" /\ lane'[l].b = x /\ lane'[l].rule = {}
          /\ lane'[l].missed = TRUE /\ lane'[l].basis = lane[l].basis
      BY <1>1, <1>2, <1>3, <1>8, SkipLane
    <2>3. Executing(x)'  BY <1>3, <1>4, <1>8 DEF Executing
    <2>4. LaneInv(l)'
      BY <2>2, <2>3 DEF LaneInv, Detached, Querying
    <2> QED BY <1>1, <1>2, <1>4, <2>1, <2>2, <2>4, LaneTyped, LaneGood DEF LetsGo
  <1> QED BY <1>5, <1>7, <1>8

\* A lane that stays with its task, the tables as they are.
LEMMA TaskKept ==
    ASSUME TypeOK, NEW l \in Lanes, LaneInv(l), lane[l].pc \in Querying, lane'[l].pc \in Querying,
           lane'[l].b = lane[l].b, lane'[l].rule = lane[l].rule, lane'[l].todo = lane[l].todo,
           lane'[l].missed = lane[l].missed, UNCHANGED <<status, row>>
    PROVE  LaneInv(l)'
  BY DEF LaneInv, Detached, Querying, Executing

LEMMA AcquireGood ==
    ASSUME Base, NEW l \in Lanes, Acquire(l)
    PROVE  Good
  <1>1. TypeOK /\ LaneInv(l) /\ {"query", "verdict"} \subseteq LanePcs  BY DEF Base, Holders, LanePcs
  <1>2. PICK x : x = lane[l].b  OBVIOUS
  <1>3. InOrder(x)  BY <1>1, NoStatement DEF Acquire, target
  <1>4. Quiet /\ UNCHANGED <<api, queue>>
    BY <1>1, LaneTyped DEF Acquire, Quiet, target, TypeOK
  <1>5. PICK pc \in {"query", "verdict"} : Goto(l, pc)  BY DEF Acquire
  <1>6. LaneInv(l)'
    BY <1>1, <1>5, GotoEffect, TaskKept DEF Acquire, At, tables, Querying
  <1> QED BY <1>1, <1>2, <1>3, <1>4, <1>5, <1>6, GotoGood

LEMMA EndQueryGood ==
    ASSUME Base, NEW l \in Lanes, EndQuery(l)
    PROVE  Good
  <1>1. TypeOK /\ LaneInv(l) /\ "verdict" \in LanePcs  BY DEF Base, Holders, LanePcs
  <1>2. PICK x : x = lane[l].b  OBVIOUS
  <1>3. InOrder(x)  BY <1>1, NoStatement DEF EndQuery, target
  <1>4. Quiet /\ UNCHANGED <<api, queue>>
    BY <1>1 DEF EndQuery, Quiet, target, TypeOK
  <1>5. LaneInv(l)'
    BY <1>1, GotoEffect, TaskKept DEF EndQuery, At, tables, Querying
  <1> QED BY <1>1, <1>2, <1>3, <1>4, <1>5, GotoGood DEF EndQuery

LEMMA TimeoutGood ==
    ASSUME Base, NEW l \in Lanes, Timeout(l)
    PROVE  Good
  <1>1. TypeOK /\ LaneInv(l)  BY DEF Base, Holders
  <1>2. PICK x : x = lane[l].b  OBVIOUS
  <1>3. InOrder(x)  BY <1>1, NoStatement DEF Timeout, target
  <1>4. Quiet /\ UNCHANGED <<api, queue>>
    BY <1>1, FaultIsTyped DEF Timeout, Quiet, target, TypeOK
  <1>5. /\ Others(l) /\ lane'[l].pc = lane[l].pc /\ lane'[l].b = lane[l].b
        /\ lane'[l].rule = lane[l].rule /\ lane'[l].todo = lane[l].todo
        /\ lane'[l].missed = lane[l].missed /\ lane'[l].basis = lane[l].basis
    BY <1>1, LateLane DEF Timeout
  <1>6. LaneInv(l)'
    BY <1>1, <1>5 DEF LaneInv, Timeout, tables, Executing, Detached, Querying
  <1> QED BY <1>1, <1>2, <1>3, <1>4, <1>5, <1>6, LaneTyped, LaneGood DEF LetsGo

LEMMA WriteVerdictGood ==
    ASSUME Base, NEW l \in Lanes, WriteVerdict(l)
    PROVE  Good
  <1>1. TypeOK /\ {"task", "abandonRows"} \subseteq LanePcs  BY DEF Base, LanePcs
  <1>2. PICK x : x = lane[l].b  OBVIOUS
  <1>3. PICK r \in Rules : lane[l].rule = {r} /\ row[x][r] = "RUNNING"
    BY <1>2 DEF Base, Holders, LaneInv, WriteVerdict, At, Querying
  <1>4. /\ Executing(x)
        /\ ~lane[l].missed
             => \A q \in Rules \ (lane[l].todo \cup {r}) : row[x][q] \in {"none", "COMPLETED"}
    BY <1>2, <1>3 DEF Base, Holders, LaneInv, WriteVerdict, At, Querying
  <1>5. Quiet /\ UNCHANGED <<api, queue, status, slot, scheduledAt, cycle>>
    BY <1>1, FaultIsTyped DEF WriteVerdict, Quiet, target, TypeOK
  <1>6. CASE JudgeRow(x, r) /\ lane' = [lane EXCEPT ![l].pc = "task", ![l].rule = {}]
    <2>1. /\ InOrder(x) /\ Executing(x)' /\ row'[x][r] = "COMPLETED"
          /\ \A q \in Rules \ {r} : row'[x][q] = row[x][q]
      BY <1>1, <1>3, <1>4, <1>5, <1>6, JudgeRowEffect
    <2>2. /\ Others(l) /\ lane'[l].pc = "task" /\ lane'[l].b = x
          /\ lane'[l].rule = {} /\ lane'[l].todo = lane[l].todo
          /\ lane'[l].missed = lane[l].missed /\ lane'[l].basis = lane[l].basis
      BY <1>1, <1>2, <1>6, VerdictLane
    <2>3. ~lane[l].missed => \A q \in Rules \ lane[l].todo : row'[x][q] \in {"none", "COMPLETED"}
      BY <1>4, <2>1
    <2>4. LaneInv(l)'
      BY <2>1, <2>2, <2>3 DEF LaneInv, Detached, Querying
    <2> QED BY <1>1, <1>2, <1>5, <2>1, <2>2, <2>4, LaneTyped, LaneGood DEF LetsGo
  <1>7. CASE lane' = [lane EXCEPT ![l].pc = "abandonRows", ![l].rule = {}] /\ UNCHANGED row
    <2>1. InOrder(x)  BY <1>1, <1>5, <1>7, NoStatement DEF tables
    <2>2. /\ Others(l) /\ lane'[l].pc = "abandonRows" /\ lane'[l].b = x
          /\ lane'[l].rule = {} /\ lane'[l].basis = lane[l].basis
      BY <1>1, <1>2, <1>7, VerdictLane
    <2>3. LaneInv(l)'
      BY <1>4, <1>5, <2>2 DEF LaneInv, Detached, Querying, Executing, Open
    <2> QED BY <1>1, <1>2, <1>5, <2>1, <2>2, <2>3, LaneTyped, LaneGood DEF LetsGo
  <1> QED BY <1>2, <1>3, <1>6, <1>7 DEF WriteVerdict

LEMMA EndTasksGood ==
    ASSUME Base, NEW l \in Lanes, EndTasks(l)
    PROVE  Good
  <1>1. TypeOK /\ LaneInv(l) /\ {"complete", "abandonRows"} \subseteq LanePcs
    BY DEF Base, Holders, LanePcs
  <1>2. PICK x : x = lane[l].b  OBVIOUS
  <1>3. InOrder(x) /\ UNCHANGED <<status, row>>  BY <1>1, NoStatement DEF EndTasks, target, tables
  <1>4. Quiet /\ UNCHANGED <<api, queue>>
    BY <1>1 DEF EndTasks, Quiet, target, TypeOK
  <1>5. CASE ~lane[l].missed /\ Goto(l, "complete")
    <2>1. LaneInv(l)'
      BY <1>1, <1>3, <1>5, GotoEffect DEF LaneInv, Detached, Querying, Executing, EndTasks, At
    <2> QED BY <1>1, <1>2, <1>3, <1>4, <1>5, <2>1, GotoGood
  <1>6. CASE Goto(l, "abandonRows")
    <2>1. LaneInv(l)'
      BY <1>1, <1>3, <1>6, GotoEffect DEF LaneInv, Detached, Querying, Executing, EndTasks, At, Open
    <2> QED BY <1>1, <1>2, <1>3, <1>4, <1>6, <2>1, GotoGood
  <1> QED BY <1>5, <1>6 DEF EndTasks

LEMMA AbandonBatchRowsGood ==
    ASSUME Base, NEW l \in Lanes, AbandonBatchRows(l)
    PROVE  Good
  <1>1. TypeOK /\ "abandonBatch" \in LanePcs  BY DEF Base, LanePcs
  <1>2. PICK x : x = lane[l].b  OBVIOUS
  <1>3. x \in Batches /\ status[x] \in Open /\ lane[l].rule = {}
    BY <1>2 DEF Base, Holders, LaneInv, AbandonBatchRows, At, Querying
  <1>4. Quiet /\ UNCHANGED <<api, queue, status, slot, scheduledAt, cycle>> /\ Goto(l, "abandonBatch")
    BY <1>1, FaultIsTyped DEF AbandonBatchRows, Quiet, target, TypeOK
  <1>5. InOrder(x) /\ (x \in excused' \/ RowsShut(x)')
    <2>1. CASE AbandonRows(x)  BY <1>1, <1>3, <1>4, <2>1, AbandonRowsEffect
    <2>2. CASE CutOff(x) /\ UNCHANGED row
      BY <1>1, <1>3, <1>4, <2>2, NoStatement, FaultIsTyped DEF tables
    <2> QED BY <1>2, <2>1, <2>2 DEF AbandonBatchRows
  <1>6. LaneInv(l)'
    BY <1>1, <1>2, <1>3, <1>4, <1>5, GotoEffect DEF LaneInv, Detached, Querying, RowsShut
  <1> QED BY <1>1, <1>2, <1>4, <1>5, <1>6, GotoGood

LEMMA FinishBatchGood ==
    ASSUME Base, NEW l \in Lanes, FinishBatch(l)
    PROVE  Good
  <1>1. TypeOK /\ LaneInv(l)  BY DEF Base, Holders
  <1>2. PICK x : x = lane[l].b  OBVIOUS
  <1>3. x \in Batches  BY <1>1, <1>2 DEF LaneInv, FinishBatch, At, Executing
  <1>4. Quiet /\ UNCHANGED <<api, queue, row, slot, scheduledAt, cycle>>
    BY <1>1, FaultIsTyped DEF FinishBatch, Quiet, target, TypeOK
  <1>5. InOrder(x) /\ LetsGo(x, 0)
    <2>1. CASE At(l, "complete") /\ FinishRun(x, "COMPLETED")
      <3>1. Executing(x) /\ \A r \in Rules : row[x][r] \in {"none", "COMPLETED"}
        BY <1>1, <1>2, <2>1 DEF LaneInv, At
      <3> QED BY <1>1, <1>4, <2>1, <3>1, CompleteEffect DEF LetsGo
    <2>2. CASE At(l, "abandonBatch") /\ FinishRun(x, "ABANDONED")
      <3>1. x \in excused \/ RowsShut(x)  BY <1>1, <1>2, <2>2 DEF LaneInv, At
      <3>2. InOrder(x) /\ status'[x] \notin Open /\ row'[x] = row[x]
        BY <1>1, <1>3, <1>4, <2>2, GiveUpEffect
      <3> QED BY <1>4, <3>1, <3>2 DEF LetsGo, Done, RowsShut, Quiet
    <2>3. CASE CutOff(x) /\ UNCHANGED status
      BY <1>1, <1>4, <2>3, NoStatement, FaultIsTyped DEF tables, LetsGo
    <2> QED BY <1>2, <2>1, <2>2, <2>3 DEF FinishBatch, At
  <1>6. /\ Others(l) /\ lane'[l].b = 0 /\ lane'[l].rule = {} /\ lane'[l].basis = {}
        /\ lane'[l].pc \in {"count", "idle"}
    BY <1>1, AfterLane DEF FinishBatch
  <1>7. LaneInv(l)'  BY <1>6 DEF LaneInv, Detached, Querying
  <1> QED BY <1>2, <1>4, <1>5, <1>6, <1>7, LaneGood

LEMMA AdvanceGood ==
    ASSUME Base, NEW l \in Lanes, Advance(l)
    PROVE  Good
  <1>1. TypeOK  BY DEF Base
  <1>2. PICK x : x = lane[l].b  OBVIOUS
  <1>3. x = 0  BY <1>2 DEF Base, Holders, LaneInv, Advance, At, Detached
  <1>4. InOrder(x)  BY <1>1, NoStatement DEF Advance
  <1>5. Quiet /\ UNCHANGED <<api, queue>>
    <2>1. next' \in 0..MaxCycles + 1
      BY <1>1, LaterIsTyped, BoundAssumption DEF Advance, TypeOK
    <2> QED BY <1>1, <2>1, FaultIsTyped DEF Advance, Quiet, TypeOK
  <1> QED BY <1>2, <1>3, <1>4, <1>5, IdleGood DEF Advance, LetsGo

LEMMA PlanScheduledGood ==
    ASSUME Base, NEW w \in Workers, PlanScheduled(w)
    PROVE  Good
  <1>1. w \in Lanes /\ TypeOK /\ {"start", "empty"} \subseteq LanePcs  BY DEF Lanes, Base, LanePcs
  <1>2. PICK x : x = lane[w].b  OBVIOUS
  <1>3. Unplanned(x) /\ lane[w].todo # {} /\ lane[w].rule = {} /\ lane[w].todo \in SUBSET Rules
    BY <1>1, <1>2, LaneTyped DEF Base, Holders, LaneInv, PlanScheduled, At, Querying
  <1>4. Quiet /\ UNCHANGED <<api, queue, status, cycle>>
    BY <1>1, FaultIsTyped DEF PlanScheduled, Quiet, target, TypeOK
  <1>5. CASE /\ PlanRows(x, lane[w].todo) /\ Goto(w, "start")
             /\ scheduledAt' = [scheduledAt EXCEPT ![x] = lane[w].due]
    <2>1. InOrder(x) /\ Ready(x)' /\ \A r \in Rules \ lane[w].todo : row'[x][r] = "none"
      <3>1. PICK t \in SUBSET Rules : t = lane[w].todo  BY <1>3
      <3>2. lane[w].due \in Nat  BY <1>1, LaneTyped
      <3>3. /\ scheduledAt' \in [Batches -> Nat]
            /\ \A b \in Batches \ {x} : scheduledAt'[b] = scheduledAt[b]
        BY <1>1, <1>5, <3>2 DEF TypeOK
      <3> QED BY <1>1, <1>3, <1>4, <1>5, <3>1, <3>3, PlanRowsEffect
    <2>2. LaneInv(w)'
      BY <1>1, <1>2, <1>3, <1>5, <2>1, GotoEffect DEF LaneInv, Detached, Querying
    <2> QED BY <1>1, <1>2, <1>4, <1>5, <2>1, <2>2, GotoGood
  <1>6. CASE Goto(w, "empty") /\ UNCHANGED <<row, slot, scheduledAt>>
    <2>1. InOrder(x)  BY <1>1, <1>4, <1>6, NoStatement DEF tables
    <2>2. Unplanned(x)'  BY <1>3, <1>4, <1>6 DEF Unplanned
    <2>3. LaneInv(w)'
      BY <1>1, <1>2, <1>3, <1>6, <2>2, GotoEffect DEF LaneInv, Detached, Querying
    <2> QED BY <1>1, <1>2, <1>4, <1>6, <2>1, <2>3, GotoGood
  <1> QED BY <1>2, <1>5, <1>6 DEF PlanScheduled

LEMMA AbandonEmptyGood ==
    ASSUME Base, NEW w \in Workers, AbandonEmpty(w)
    PROVE  Good
  <1>1. w \in Lanes /\ TypeOK  BY DEF Lanes, Base
  <1>2. PICK x : x = lane[w].b  OBVIOUS
  <1>3. Unplanned(x) /\ x \in Batches
    BY <1>1, <1>2 DEF Base, Holders, LaneInv, AbandonEmpty, At, Unplanned
  <1>4. Quiet /\ UNCHANGED <<api, queue, row, slot, scheduledAt, cycle>>
    BY <1>1, FaultIsTyped DEF AbandonEmpty, EndGroup, Quiet, target, TypeOK
  <1>5. InOrder(x) /\ LetsGo(x, 0)
    <2>1. CASE FinishRun(x, "ABANDONED")
      <3>1. InOrder(x) /\ status'[x] \notin Open /\ row'[x] = row[x]
        BY <1>1, <1>3, <1>4, <2>1, GiveUpEffect
      <3> QED BY <1>3, <3>1 DEF LetsGo, Done, RowsShut, Unplanned, Open
    <2>2. CASE CutOff(x) /\ UNCHANGED status
      BY <1>1, <1>4, <2>2, NoStatement, FaultIsTyped DEF tables, LetsGo
    <2> QED BY <1>2, <2>1, <2>2 DEF AbandonEmpty
  <1> QED BY <1>1, <1>2, <1>4, <1>5, IdleGood DEF AbandonEmpty, EndGroup

LEMMA CountPendingGood ==
    ASSUME Base, NEW w \in Workers, CountPending(w)
    PROVE  Good
  <1>1. w \in Lanes /\ TypeOK /\ cycle \in Nat  BY BoundAssumption DEF Lanes, Base, TypeOK
  <1>2. PICK x : x = lane[w].b  OBVIOUS
  <1>3. x = 0 /\ lane[w].rule = {}
    BY <1>1, <1>2 DEF Base, Holders, LaneInv, CountPending, At, Detached, Querying
  <1>4. InOrder(x)  BY <1>1, NoStatement DEF CountPending, target
  <1>5. Quiet /\ UNCHANGED <<api, queue>>
    BY <1>1, FaultIsTyped DEF CountPending, EndGroup, Quiet, target, TypeOK
  <1>6. CASE lane' = [lane EXCEPT ![w].pc = "advance", ![w].basis = {<<next, r>> : r \in enabled}]
    <2>1. /\ Others(w) /\ lane'[w].pc = "advance" /\ lane'[w].b = lane[w].b
          /\ lane'[w].rule = lane[w].rule /\ lane'[w].basis = {<<next, r>> : r \in enabled}
      BY <1>1, <1>6, CountLane
    <2>2. LaneInv(w)'  BY <1>2, <1>3, <2>1 DEF LaneInv, Detached, Querying
    <2> QED BY <1>1, <1>2, <1>3, <1>4, <1>5, <2>1, <2>2, LaneGood DEF LetsGo
  <1>7. CASE EndGroup(w)
    BY <1>1, <1>2, <1>3, <1>4, <1>5, <1>7, IdleGood DEF EndGroup, LetsGo
  <1> QED BY <1>6, <1>7 DEF CountPending

LEMMA PanicGood ==
    ASSUME Base, NEW w \in Workers, Panic(w)
    PROVE  Good
  <1>1. w \in Lanes /\ TypeOK  BY DEF Lanes, Base
  <1>2. PICK x : x = lane[w].b  OBVIOUS
  <1>3. InOrder(x)  BY <1>1, NoStatement DEF Panic, target
  <1>4. Quiet /\ UNCHANGED <<api, queue>>
    BY <1>1, FaultIsTyped DEF Panic, EndGroup, Quiet, target, TypeOK
  <1>5. LetsGo(x, 0)  BY <1>1, <1>2, FaultIsTyped DEF Panic, LetsGo
  <1> QED BY <1>1, <1>2, <1>3, <1>4, <1>5, IdleGood DEF Panic, EndGroup

\* A fresh batch belongs to nobody.
LEMMA FreshIsNobodys ==
    ASSUME Base, NEW b \in Batches, status[b] = "none"
    PROVE  /\ \A l \in Lanes : lane[l].b # b
           /\ \A c \in Callers : api[c].b # b
           /\ \A i \in 1..Len(queue) : queue[i] # b
           /\ \A r \in Rules : row[b][r] = "none"
  <1>1. ASSUME NEW l \in Lanes, lane[l].b = b PROVE FALSE
    <2>1. lane[l].pc \in LanePcs /\ b # 0  BY LaneFields, ZeroIsNoBatch DEF Base, TypeOK
    <2> QED BY <1>1, <2>1 DEF Base, Holders, LaneInv, Unplanned, Ready, Executing, Detached,
                               Querying, LanePcs, Open
  <1>2. ASSUME NEW c \in Callers, api[c].b = b PROVE FALSE
    <2>1. api[c].pc \in CallerPcs /\ b # 0  BY ZeroIsNoBatch DEF Base, TypeOK, CallerStates
    <2> QED BY <1>2, <2>1 DEF Base, Holders, CallerInv, Unplanned, Ready, CallerPcs, Open
  <1> QED BY <1>1, <1>2 DEF Base, Holders, QueueInv, Ready, BornInv

LEMMA CreateScheduledGood ==
    ASSUME Base, NEW w \in Workers, CreateScheduled(w)
    PROVE  Good
  <1>1. w \in Lanes /\ TypeOK  BY DEF Lanes, Base
  <1>2. lane[w].b = 0 /\ lane[w].todo # {} /\ lane[w].rule = {}
    BY <1>1 DEF Base, Holders, LaneInv, CreateScheduled, At, Detached, Querying
  <1>3. Quiet /\ UNCHANGED <<api, queue, row, slot, scheduledAt, cycle>>
    BY <1>1, FaultIsTyped DEF CreateScheduled, EndGroup, Quiet, target, TypeOK
  <1>4. CASE EndGroup(w) /\ UNCHANGED status
    <2>1. PICK x : x = lane[w].b  OBVIOUS
    <2>2. InOrder(x)  BY <1>1, <1>3, <1>4, NoStatement DEF tables
    <2> QED BY <1>1, <1>2, <1>3, <1>4, <2>1, <2>2, IdleGood DEF EndGroup, LetsGo
  <1>5. ASSUME NEW b \in Fresh(Scheduled), CreateRun(b), excused' = excused,
               lane' = [lane EXCEPT ![w].pc = "plan", ![w].b = b]
        PROVE  Good
    <2>1. b \in Batches /\ status[b] = "none"  BY DEF Fresh, Batches
    <2>2. InOrder(b) /\ status'[b] = "PENDING" /\ row'[b] = row[b]
      BY <1>1, <1>3, <1>5, <2>1, CreateRunEffect
    <2>3. /\ \A l \in Lanes : lane[l].b # b
          /\ \A c \in Callers : api[c].b # b
          /\ \A i \in 1..Len(queue) : queue[i] # b
          /\ \A r \in Rules : row[b][r] = "none"
      BY <2>1, FreshIsNobodys
    <2>4. /\ Others(w) /\ lane'[w].pc = "plan" /\ lane'[w].b = b /\ lane'[w].todo = lane[w].todo
          /\ lane'[w].rule = lane[w].rule /\ lane'[w].basis = lane[w].basis
      BY <1>1, <1>5, <2>1, CreateLane
    <2>5. Unplanned(b)'  BY <2>1, <2>2, <2>3 DEF Unplanned
    <2>6. ASSUME NEW m \in Lanes PROVE LaneInv(m)'
      <3>1. CASE m = w
        BY <1>2, <2>4, <2>5, <3>1 DEF LaneInv, Detached, Querying
      <3>2. CASE m # w
        BY <1>5, <2>2, <2>3, <2>4, <3>2, LaneKept DEF Base, Holders, InOrder, Keeps, Others
      <3> QED BY <3>1, <3>2
    <2>7. ASSUME NEW c \in Callers PROVE CallerInv(c)'
      BY <1>3, <1>5, <2>2, <2>3, CallerKept DEF Base, Holders, InOrder, Keeps
    <2>8. QueueInv'
      BY <1>3, <2>2, <2>3 DEF QueueInv, Base, Holders, Ready, InOrder, Keeps
    <2>9. OwnInv'
      BY <1>3, <2>3, <2>4 DEF Base, Holders, OwnInv, Others
    <2>10. BookInv'
      <3> SUFFICES ASSUME NEW x \in Batches
                   PROVE  (x \in excused \/ Done(x) \/ (status[x] \in Open /\ Owned(x)))'
        BY DEF BookInv
      <3>1. CASE x = b
        BY <1>1, <2>2, <2>4, <3>1 DEF Owned, Open
      <3>2. CASE x # b
        <4>1. Done(x) => Done(x)'  BY <2>2, <3>2 DEF Done, RowsShut, InOrder, Keeps
        <4>2. x # lane[w].b  BY <1>2, ZeroIsNoBatch
        <4>3. Owned(x) => Owned(x)'  BY <1>3, <2>4, <4>2 DEF Owned, Others
        <4> QED BY <1>5, <2>2, <3>2, <4>1, <4>3 DEF Base, BookInv, InOrder, Keeps
      <3> QED BY <3>1, <3>2
    <2>11. TypeOK'
      BY <1>1, <1>3, <2>2, <2>4 DEF TypeOK, InOrder, TablesOK, Quiet, Others
    <2> QED BY <1>3, <2>2, <2>6, <2>7, <2>8, <2>9, <2>10, <2>11 DEF Good, Holders, InOrder, Quiet
  <1> QED BY <1>4, <1>5 DEF CreateScheduled

LEMMA TakeManualGood ==
    ASSUME Base, TakeManual
    PROVE  Good
  <1>1. "loop" \in Lanes /\ TypeOK  BY DEF Lanes, Base
  <1>2. PICK b : b = Head(queue)  OBVIOUS
  <1>3. /\ Others("loop") /\ queue # <<>> /\ b \in Batches
        /\ lane'["loop"].pc = "admit" /\ lane'["loop"].b = b
        /\ lane'["loop"].todo = {r \in Rules : row[b][r] # "none"}
        /\ lane'["loop"].rule = {} /\ lane'["loop"].basis = {}
    BY <1>1, <1>2, TakeManualLane
  <1>4. /\ UNCHANGED <<tables, target, group, groupDue, reserved, inflight, api, faults,
                      edits, excused>>
        /\ queue' = Tail(queue)
    BY DEF TakeManual
  <1>5. /\ queue' \in Seq(Manual) /\ Len(queue') = Len(queue) - 1 /\ Len(queue) \in Nat
        /\ Len(queue) > 0 /\ b = queue[1]
        /\ \A i \in 1..Len(queue') : queue'[i] = queue[i + 1] /\ i + 1 \in 1..Len(queue)
    BY <1>1, <1>2, <1>3, <1>4 DEF TypeOK
  <1>6. Ready(b) /\ lane["loop"].b = 0
    BY <1>1, <1>5 DEF Base, Holders, QueueInv, LaneInv, TakeManual, At, Detached
  <1>7. \A x : InOrder(x)  BY <1>1, <1>4, NoStatement DEF target
  <1>8. ASSUME NEW m \in Lanes PROVE LaneInv(m)'
    <2>1. CASE m = "loop"
      BY <1>3, <1>4, <1>6, <2>1 DEF LaneInv, Detached, Querying, Ready, tables
    <2>2. CASE m # "loop"
      BY <1>3, <1>4, <2>2, LaneKept DEF Base, Holders, Others, tables
    <2> QED BY <2>1, <2>2
  <1>9. ASSUME NEW c \in Callers PROVE CallerInv(c)'
    BY <1>4, CallerKept DEF Base, Holders, tables
  <1>10. QueueInv'
    BY <1>4, <1>5 DEF QueueInv, Base, Holders, Ready, tables
  <1>11. OwnInv'
    <2>1. /\ \A i \in 1..Len(queue) : i # 1 => queue[i] # b
          /\ \A m \in Lanes : lane[m].b # b
          /\ \A c \in Callers : api[c].b # b
      BY <1>5 DEF Base, Holders, OwnInv
    <2>2. \A i \in 1..Len(queue') : i + 1 # 1 /\ i \in Nat  BY <1>5
    <2>3. \A i, j \in 1..Len(queue') : i # j => queue'[i] # queue'[j]
      BY <1>5, <2>2 DEF Base, Holders, OwnInv
    <2>4. \A i \in 1..Len(queue') : queue'[i] # b  BY <1>5, <2>1, <2>2
    <2>5. \A m \in Lanes : IF m = "loop" THEN lane'[m].b = b ELSE lane'[m].b = lane[m].b
      BY <1>3 DEF Others
    <2>6. /\ \A l, m \in Lanes : l # m /\ lane'[l].b = lane'[m].b => lane'[l].b = 0
          /\ \A l \in Lanes, c \in Callers : lane'[l].b = api'[c].b => lane'[l].b = 0
      BY <1>4, <2>1, <2>5 DEF Base, Holders, OwnInv
    <2>7. \A i \in 1..Len(queue'), l \in Lanes : queue'[i] # lane'[l].b
      BY <1>5, <2>4, <2>5, SMTT(30) DEF Base, Holders, OwnInv
    <2>8. \A i \in 1..Len(queue'), c \in Callers : queue'[i] # api'[c].b
      BY <1>4, <1>5 DEF Base, Holders, OwnInv
    <2> QED BY <1>4, <2>3, <2>6, <2>7, <2>8 DEF Base, Holders, OwnInv
  <1>12. BookInv'
    <2> SUFFICES ASSUME NEW x \in Batches
                 PROVE  (x \in excused \/ Done(x) \/ (status[x] \in Open /\ Owned(x)))'
      BY DEF BookInv
    <2>1. Done(x) => Done(x)'  BY <1>4 DEF Done, RowsShut, tables
    <2>2. Owned(x) => Owned(x)'
      <3>1. CASE x = b  BY <1>1, <1>3, <3>1 DEF Owned
      <3>2. CASE x # b
        <4>1. ASSUME NEW i \in 1..Len(queue), queue[i] = x PROVE Owned(x)'
          <5>1. i - 1 \in 1..Len(queue') /\ (i - 1) + 1 = i  BY <1>5, <3>2, <4>1
          <5>2. queue'[i - 1] = x  BY <1>5, <4>1, <5>1
          <5> QED BY <5>1, <5>2 DEF Owned
        <4>2. ASSUME NEW l \in Lanes, lane[l].b = x PROVE Owned(x)'
          <5>1. l # "loop"  BY <1>6, <4>2, ZeroIsNoBatch
          <5> QED BY <1>3, <4>2, <5>1 DEF Owned, Others
        <4> QED BY <1>4, <4>1, <4>2 DEF Owned
      <3> QED BY <3>1, <3>2
    <2> QED BY <1>4, <2>1, <2>2 DEF Base, BookInv, tables
  <1>13. TypeOK'
    <2>1. Len(queue') <= QueueCap  BY <1>1, <1>5, CapAssumption DEF TypeOK
    <2> QED BY <1>1, <1>3, <1>4, <1>5, <2>1 DEF TypeOK, Others, tables, target
  <1> QED BY <1>4, <1>7, <1>8, <1>9, <1>10, <1>11, <1>12, <1>13
         DEF Good, Holders, InOrder, target

-----------------------------------------------------------------------------
\* The requests' steps.

LEMMA CallerSet ==
    ASSUME TypeOK, NEW c \in Callers, NEW s \in CallerStates, api' = [api EXCEPT ![c] = s]
    PROVE  OtherCallers(c) /\ api'[c] = s
  BY DEF TypeOK, OtherCallers

LEMMA CallerIdle ==
    ASSUME TypeOK, NEW c \in Callers, api' = [api EXCEPT ![c] = IdleCaller]
    PROVE  OtherCallers(c) /\ api'[c].pc = "idle" /\ api'[c].b = 0
  <1>1. IdleCaller \in CallerStates /\ IdleCaller.pc = "idle" /\ IdleCaller.b = 0
    BY DEF IdleCaller, CallerStates, CallerPcs
  <1> QED BY <1>1, CallerSet

LEMMA CallerGoto ==
    ASSUME TypeOK, NEW c \in Callers, NEW pc \in CallerPcs, api' = [api EXCEPT ![c].pc = pc]
    PROVE  OtherCallers(c) /\ api'[c].pc = pc /\ api'[c].b = api[c].b
  <1>1. api[c] \in CallerStates  BY DEF TypeOK
  <1>2. PICK s : s = [api[c] EXCEPT !.pc = pc]  OBVIOUS
  <1>3. s \in CallerStates /\ s.pc = pc /\ s.b = api[c].b  BY <1>1, <1>2 DEF CallerStates
  <1>4. api' = [api EXCEPT ![c] = s]  BY <1>2 DEF TypeOK
  <1> QED BY <1>3, <1>4, CallerSet

LEMMA CallerGood ==
    ASSUME Base, NEW c \in Callers, OtherCallers(c), NEW x, x = api[c].b, InOrder(x), Quiet,
           UNCHANGED <<lane, queue>>, api'[c].b \in {x, 0}, CallerInv(c)', LetsGo(x, api'[c].b)
    PROVE  Good
  <1>1. Holders' /\ BookInv'
    BY CallerFrame DEF Base, InOrder, Quiet
  <1>2. TypeOK'
    BY DEF Base, TypeOK, InOrder, TablesOK, Quiet, OtherCallers
  <1> QED BY <1>1, <1>2 DEF Good, InOrder, Quiet

LEMMA ApiPlanGood ==
    ASSUME Base, NEW c \in Callers, ApiPlan(c)
    PROVE  Good
  <1>1. TypeOK /\ {"enqueue", "abandonRows"} \subseteq CallerPcs  BY DEF Base, CallerPcs
  <1>2. PICK x : x = api[c].b  OBVIOUS
  <1>3. Unplanned(x) /\ api[c].chosen # {} /\ api[c].chosen \in SUBSET Rules
    BY <1>1, <1>2 DEF Base, Holders, CallerInv, ApiPlan, TypeOK, CallerStates
  <1>4. Quiet /\ UNCHANGED <<lane, queue, status, scheduledAt, cycle>>
    BY <1>1, FaultIsTyped DEF ApiPlan, Quiet, target, TypeOK
  <1>5. CASE PlanRows(x, api[c].chosen) /\ api' = [api EXCEPT ![c].pc = "enqueue"]
    <2>1. InOrder(x) /\ Ready(x)'
      <3>1. PICK t \in SUBSET Rules : t = api[c].chosen  BY <1>3
      <3>2. scheduledAt' \in [Batches -> Nat]  BY <1>1, <1>4 DEF TypeOK
      <3> QED BY <3>2, <1>1, <1>3, <1>4, <1>5, <3>1, PlanRowsEffect
    <2>2. OtherCallers(c) /\ api'[c].pc = "enqueue" /\ api'[c].b = x
      BY <1>1, <1>2, <1>5, CallerGoto
    <2>3. CallerInv(c)'  BY <2>1, <2>2 DEF CallerInv
    <2> QED BY <1>2, <1>4, <2>1, <2>2, <2>3, CallerGood DEF LetsGo
  <1>6. CASE api' = [api EXCEPT ![c].pc = "abandonRows"] /\ UNCHANGED <<row, slot>>
    <2>1. InOrder(x)  BY <1>1, <1>4, <1>6, NoStatement DEF tables
    <2>2. OtherCallers(c) /\ api'[c].pc = "abandonRows" /\ api'[c].b = x
      BY <1>1, <1>2, <1>6, CallerGoto
    <2>3. CallerInv(c)'  BY <1>3, <1>4, <2>2 DEF CallerInv, Unplanned, Open
    <2> QED BY <1>2, <1>4, <2>1, <2>2, <2>3, CallerGood DEF LetsGo
  <1> QED BY <1>2, <1>5, <1>6 DEF ApiPlan

LEMMA ApiAbandonRowsGood ==
    ASSUME Base, NEW c \in Callers, ApiAbandonRows(c)
    PROVE  Good
  <1>1. TypeOK /\ "abandonBatch" \in CallerPcs  BY DEF Base, CallerPcs
  <1>2. PICK x : x = api[c].b  OBVIOUS
  <1>3. x \in Batches /\ status[x] \in Open
    BY <1>2 DEF Base, Holders, CallerInv, ApiAbandonRows
  <1>4. Quiet /\ UNCHANGED <<lane, queue, status, slot, scheduledAt, cycle>>
    BY <1>1, FaultIsTyped DEF ApiAbandonRows, Quiet, target, TypeOK
  <1>5. InOrder(x) /\ (x \in excused' \/ RowsShut(x)')
    <2>1. CASE AbandonRows(x)  BY <1>1, <1>3, <1>4, <2>1, AbandonRowsEffect
    <2>2. CASE CutOff(x) /\ UNCHANGED row
      BY <1>1, <1>3, <1>4, <2>2, NoStatement, FaultIsTyped DEF tables
    <2> QED BY <1>2, <2>1, <2>2 DEF ApiAbandonRows
  <1>6. OtherCallers(c) /\ api'[c].pc = "abandonBatch" /\ api'[c].b = x
    BY <1>1, <1>2, CallerGoto DEF ApiAbandonRows
  <1>7. CallerInv(c)'  BY <1>3, <1>4, <1>5, <1>6 DEF CallerInv, RowsShut
  <1> QED BY <1>2, <1>4, <1>5, <1>6, <1>7, CallerGood DEF LetsGo

LEMMA ApiAbandonBatchGood ==
    ASSUME Base, NEW c \in Callers, ApiAbandonBatch(c)
    PROVE  Good
  <1>1. TypeOK  BY DEF Base
  <1>2. PICK x : x = api[c].b  OBVIOUS
  <1>3. x \in Batches /\ (x \in excused \/ RowsShut(x))
    BY <1>2 DEF Base, Holders, CallerInv, ApiAbandonBatch
  <1>4. Quiet /\ UNCHANGED <<lane, queue, row, slot, scheduledAt, cycle>>
    BY <1>1, FaultIsTyped DEF ApiAbandonBatch, Quiet, target, TypeOK
  <1>5. InOrder(x) /\ LetsGo(x, 0)
    <2>1. CASE FinishRun(x, "ABANDONED")
      <3>1. InOrder(x) /\ status'[x] \notin Open /\ row'[x] = row[x]
        BY <1>1, <1>3, <1>4, <2>1, GiveUpEffect
      <3> QED BY <1>3, <1>4, <3>1 DEF LetsGo, Done, RowsShut, Quiet
    <2>2. CASE CutOff(x) /\ UNCHANGED status
      BY <1>1, <1>4, <2>2, NoStatement, FaultIsTyped DEF tables, LetsGo
    <2> QED BY <1>2, <2>1, <2>2 DEF ApiAbandonBatch
  <1>6. OtherCallers(c) /\ api'[c].pc = "idle" /\ api'[c].b = 0
    BY <1>1, CallerIdle DEF ApiAbandonBatch
  <1>7. CallerInv(c)'  BY <1>6 DEF CallerInv
  <1> QED BY <1>2, <1>4, <1>5, <1>6, <1>7, CallerGood

LEMMA ApiCancelledGood ==
    ASSUME Base, NEW c \in Callers, ApiCancelled(c)
    PROVE  Good
  <1>1. TypeOK  BY DEF Base
  <1>2. PICK x : x = api[c].b  OBVIOUS
  <1>3. Quiet /\ UNCHANGED <<lane, queue>>
    BY <1>1, FaultIsTyped DEF ApiCancelled, Quiet, target, TypeOK
  <1>4. InOrder(x)  BY <1>1, NoStatement DEF ApiCancelled, target
  <1>5. LetsGo(x, 0)  BY <1>1, <1>2, FaultIsTyped DEF ApiCancelled, LetsGo
  <1>6. OtherCallers(c) /\ api'[c].pc = "idle" /\ api'[c].b = 0
    BY <1>1, CallerIdle DEF ApiCancelled
  <1>7. CallerInv(c)'  BY <1>6 DEF CallerInv
  <1> QED BY <1>2, <1>3, <1>4, <1>5, <1>6, <1>7, CallerGood

LEMMA ApiCreateGood ==
    ASSUME Base, NEW c \in Callers, NEW chosen \in SUBSET Rules, ApiCreate(c, chosen)
    PROVE  Good
  <1>1. TypeOK  BY DEF Base
  <1>2. PICK b \in Fresh(Manual) :
          CreateRun(b) /\ api' = [api EXCEPT ![c] = [pc |-> "plan", b |-> b, chosen |-> chosen]]
    BY DEF ApiCreate
  <1>3. b \in Manual /\ b \in Batches /\ status[b] = "none"  BY DEF Fresh, Batches
  <1>4. Quiet /\ UNCHANGED <<lane, queue, row, slot, scheduledAt, cycle, excused>> /\ chosen # {}
    BY <1>1 DEF ApiCreate, Quiet, target, TypeOK
  <1>5. InOrder(b) /\ status'[b] = "PENDING" /\ row'[b] = row[b]
    BY <1>1, <1>2, <1>3, <1>4, CreateRunEffect
  <1>6. /\ \A l \in Lanes : lane[l].b # b
        /\ \A d \in Callers : api[d].b # b
        /\ \A i \in 1..Len(queue) : queue[i] # b
        /\ \A r \in Rules : row[b][r] = "none"
    BY <1>3, FreshIsNobodys
  <1>7. OtherCallers(c) /\ api'[c].pc = "plan" /\ api'[c].b = b /\ api'[c].chosen = chosen
    <2>1. PICK s : s = [pc |-> "plan", b |-> b, chosen |-> chosen]  OBVIOUS
    <2>2. s \in CallerStates /\ s.pc = "plan" /\ s.b = b /\ s.chosen = chosen
      BY <1>3, <2>1 DEF CallerStates, CallerPcs
    <2> QED BY <1>1, <1>2, <2>1, <2>2, CallerSet
  <1>8. Unplanned(b)'  BY <1>3, <1>5, <1>6 DEF Unplanned
  <1>9. api[c].b = 0  BY DEF Base, Holders, CallerInv, ApiCreate
  <1>10. ASSUME NEW d \in Callers PROVE CallerInv(d)'
    <2>1. CASE d = c
      BY <1>4, <1>7, <1>8, <2>1 DEF CallerInv
    <2>2. CASE d # c
      BY <1>4, <1>5, <1>6, <1>7, <2>2, CallerKept DEF Base, Holders, InOrder, Keeps, OtherCallers
    <2> QED BY <2>1, <2>2
  <1>11. ASSUME NEW l \in Lanes PROVE LaneInv(l)'
    BY <1>4, <1>5, <1>6, LaneKept DEF Base, Holders, InOrder, Keeps
  <1>12. QueueInv'
    BY <1>4, <1>5, <1>6 DEF QueueInv, Base, Holders, Ready, InOrder, Keeps
  <1>13. OwnInv'
    BY <1>4, <1>6, <1>7 DEF Base, Holders, OwnInv, OtherCallers
  <1>14. BookInv'
    <2> SUFFICES ASSUME NEW x \in Batches
                 PROVE  (x \in excused \/ Done(x) \/ (status[x] \in Open /\ Owned(x)))'
      BY DEF BookInv
    <2>1. CASE x = b
      BY <1>5, <1>7, <2>1 DEF Owned, Open
    <2>2. CASE x # b
      <3>1. Done(x) => Done(x)'  BY <1>5, <2>2 DEF Done, RowsShut, InOrder, Keeps
      <3>2. x # api[c].b  BY <1>9, ZeroIsNoBatch
      <3>3. Owned(x) => Owned(x)'  BY <1>4, <1>7, <3>2 DEF Owned, OtherCallers
      <3> QED BY <1>4, <1>5, <2>2, <3>1, <3>3 DEF Base, BookInv, InOrder, Keeps
    <2> QED BY <2>1, <2>2
  <1>15. TypeOK'
    BY <1>1, <1>4, <1>5, <1>7 DEF TypeOK, InOrder, TablesOK, Quiet, OtherCallers
  <1> QED BY <1>4, <1>5, <1>10, <1>11, <1>12, <1>13, <1>14, <1>15 DEF Good, Holders, InOrder, Quiet

LEMMA ApiEnqueueGood ==
    ASSUME Base, NEW c \in Callers, ApiEnqueue(c)
    PROVE  Good
  <1>1. TypeOK /\ "abandonRows" \in CallerPcs  BY DEF Base, CallerPcs
  <1>2. PICK b : b = api[c].b  OBVIOUS
  <1>3. Ready(b) /\ b \in Batches  BY <1>2 DEF Base, Holders, CallerInv, ApiEnqueue, Ready
  <1>4. b \in Manual  BY <1>1, <1>2, <1>3, ZeroIsNoBatch DEF TypeOK, CallerStates
  <1>5. Quiet /\ UNCHANGED <<tables, lane, status, row, slot, scheduledAt, cycle, excused>>
    BY <1>1 DEF ApiEnqueue, Quiet, target, tables, TypeOK
  <1>6. \A x : InOrder(x)  BY <1>1, <1>5, NoStatement
  <1>7. CASE api' = [api EXCEPT ![c].pc = "abandonRows"] /\ UNCHANGED queue
    <2>1. OtherCallers(c) /\ api'[c].pc = "abandonRows" /\ api'[c].b = b
      BY <1>1, <1>2, <1>7, CallerGoto
    <2>2. CallerInv(c)'  BY <1>3, <1>5, <2>1 DEF CallerInv, Ready, Open
    <2> QED BY <1>2, <1>5, <1>6, <1>7, <2>1, <2>2, CallerGood DEF LetsGo
  <1>8. CASE /\ Len(queue) < QueueCap /\ queue' = Append(queue, b)
             /\ api' = [api EXCEPT ![c] = IdleCaller]
    <2>1. OtherCallers(c) /\ api'[c].pc = "idle" /\ api'[c].b = 0
      BY <1>1, <1>8, CallerIdle
    <2>2. /\ queue' \in Seq(Manual) /\ Len(queue') = Len(queue) + 1 /\ Len(queue) \in Nat
          /\ queue'[Len(queue) + 1] = b
          /\ \A i \in 1..Len(queue) : queue'[i] = queue[i]
      BY <1>1, <1>4, <1>8 DEF TypeOK
    <2>3. \A i \in 1..Len(queue') : i \in 1..Len(queue) \/ (i = Len(queue) + 1 /\ queue'[i] = b)
      BY <2>2
    <2>4. /\ \A l \in Lanes : lane[l].b # b
          /\ \A d \in Callers \ {c} : api[d].b # b
          /\ \A i \in 1..Len(queue) : queue[i] # b
      BY <1>2, <1>3, ZeroIsNoBatch DEF Base, Holders, OwnInv
    <2>5. ASSUME NEW d \in Callers PROVE CallerInv(d)'
      <3>1. CASE d = c  BY <2>1, <3>1 DEF CallerInv
      <3>2. CASE d # c  BY <1>5, <2>1, <3>2, CallerKept DEF Base, Holders, OtherCallers
      <3> QED BY <3>1, <3>2
    <2>6. ASSUME NEW l \in Lanes PROVE LaneInv(l)'
      BY <1>5, LaneKept DEF Base, Holders
    <2>7. QueueInv'
      <3>1. \A i \in 1..Len(queue') : Ready(queue'[i])
        BY <1>3, <2>2, <2>3 DEF QueueInv, Base, Holders
      <3> QED BY <1>5, <3>1 DEF QueueInv, Ready
    <2>8. OwnInv'
      <3>1. \A d \in Callers : api'[d].b = IF d = c THEN 0 ELSE api[d].b
        BY <2>1 DEF OtherCallers
      <3>2. \A i \in 1..Len(queue') : queue'[i] # 0
        BY <1>3, <2>2, <2>3, ZeroIsNoBatch DEF Base, Holders, QueueInv, Ready
      <3>3. \A i, j \in 1..Len(queue') : i # j => queue'[i] # queue'[j]
        BY <2>2, <2>3, <2>4 DEF Base, Holders, OwnInv
      <3>4. \A i \in 1..Len(queue'), l \in Lanes : queue'[i] # lane'[l].b
        BY <1>5, <2>2, <2>3, <2>4 DEF Base, Holders, OwnInv
      <3>5. \A i \in 1..Len(queue'), d \in Callers : queue'[i] # api'[d].b
        BY <2>2, <2>3, <2>4, <3>1, <3>2 DEF Base, Holders, OwnInv
      <3> QED BY <1>5, <3>1, <3>3, <3>4, <3>5 DEF Base, Holders, OwnInv
    <2>9. BookInv'
      <3> SUFFICES ASSUME NEW x \in Batches
                   PROVE  (x \in excused \/ Done(x) \/ (status[x] \in Open /\ Owned(x)))'
        BY DEF BookInv
      <3>1. Done(x) => Done(x)'  BY <1>5 DEF Done, RowsShut
      <3>2. Owned(x) => Owned(x)'
        <4>1. CASE x = b
          <5>1. Len(queue) + 1 \in 1..Len(queue')  BY <2>2
          <5> QED BY <2>2, <4>1, <5>1 DEF Owned
        <4>2. CASE x # b
          <5>1. 1..Len(queue) \subseteq 1..Len(queue')  BY <2>2
          <5>2. (\E i \in 1..Len(queue) : queue[i] = x) => Owned(x)'
            BY <2>2, <5>1 DEF Owned
          <5>3. (\E d \in Callers : api[d].b = x) => Owned(x)'
            BY <1>2, <2>1, <4>2 DEF Owned, OtherCallers
          <5> QED BY <1>5, <5>2, <5>3 DEF Owned
        <4> QED BY <4>1, <4>2
      <3> QED BY <1>5, <3>1, <3>2 DEF Base, BookInv
    <2>10. TypeOK'
      <3>1. Len(queue') <= QueueCap  BY <1>8, <2>2, CapAssumption
      <3> QED BY <1>1, <1>5, <1>6, <2>1, <2>2, <3>1
              DEF TypeOK, InOrder, TablesOK, Quiet, OtherCallers
    <2> QED BY <1>5, <1>6, <2>5, <2>6, <2>7, <2>8, <2>9, <2>10 DEF Good, Holders, InOrder, Quiet
  <1> QED BY <1>2, <1>7, <1>8 DEF ApiEnqueue

-----------------------------------------------------------------------------
\* The steps of the users, of time and of the process.

LEMMA TargetGood ==
    ASSUME Base, UNCHANGED <<tables, process, faults, excused>>,
           next' \in 0..MaxCycles + 1, enabled' \subseteq Rules, edits' \in 0..MaxEdits,
           cycle' \in 0..MaxCycles, cycle' >= cycle, past' = past
    PROVE  Good
  <1>1. TypeOK /\ cycle \in Nat  BY BoundAssumption DEF Base, TypeOK
  <1>2. 0..cycle \subseteq 0..cycle'  BY <1>1
  <1>3. slot' \in [Batches -> [Rules -> 0..cycle']] /\ SlotGrows
    BY <1>1, <1>2 DEF TypeOK, tables, SlotGrows
  <1>5. TypeOK'
    BY <1>1, <1>3 DEF TypeOK, tables, process
  <1>6. Holders'
    BY DEF Base, Holders, LaneInv, CallerInv, QueueInv, OwnInv, Unplanned, Ready, Executing,
           RowsShut, tables, process
  <1>7. BookInv'
    BY DEF Base, BookInv, Done, RowsShut, Owned, tables, process
  <1> QED BY <1>3, <1>5, <1>6, <1>7 DEF Good, Allowed, tables

LEMMA RestartGood ==
    ASSUME Base, NEW executions \in SUBSET OpenRows, NEW batches \in SUBSET OpenBatches,
           Restart(executions, batches)
    PROVE  Good
  <1>1. TypeOK  BY DEF Base
  <1>2. \A b \in Batches, r \in Rules :
          \/ row'[b][r] = row[b][r]
          \/ row[b][r] \in Open /\ row'[b][r] = "ABANDONED"
    BY <1>1 DEF Restart, TypeOK
  <1>3. \A b \in Batches :
          \/ status'[b] = status[b]
          \/ status[b] \in Open /\ status'[b] = "ABANDONED"
    BY <1>1 DEF Restart, TypeOK
  <1>4. row' \in [Batches -> [Rules -> {"none"} \cup Open \cup Closed]]
        /\ status' \in [Batches -> {"none"} \cup Open \cup Closed]
    BY <1>1 DEF Restart, TypeOK, Closed
  <1>5. Promise!Abandon
    <2>1. status' \in [Batches -> Promise!States] /\ row' \in [Batches -> [Rules -> Promise!States]]
      BY <1>4 DEF Promise!States, Promise!Open, Promise!Closed, Open, Closed
    <2> QED BY <1>2, <1>3, <2>1 DEF Promise!Abandon, Promise!Open, Open
  <1>6. lane' \in [Lanes -> LaneStates]
        /\ \A l \in Lanes : lane'[l].pc = "idle" /\ lane'[l].b = 0 /\ lane'[l].rule = {}
                            /\ lane'[l].basis = {}
    BY IdleIsTyped DEF Restart
  <1>7. api' \in [Callers -> CallerStates]
        /\ \A c \in Callers : api'[c].pc = "idle" /\ api'[c].b = 0
    <2>1. IdleCaller \in CallerStates /\ IdleCaller.pc = "idle" /\ IdleCaller.b = 0
      BY DEF IdleCaller, CallerStates, CallerPcs
    <2> QED BY <2>1 DEF Restart
  <1>8. SlotGrows  BY <1>1 DEF SlotGrows, TypeOK, Restart
  <1>9. TypeOK'
    <2>1. queue' \in Seq(Manual) /\ Len(queue') <= QueueCap
      BY CapAssumption DEF Restart
    <2>2. group' \subseteq Rules /\ reserved' \in BOOLEAN /\ inflight' \subseteq Rules
          /\ excused' \subseteq Batches /\ faults' \in 0..MaxFaults
      BY <1>1, FaultIsTyped DEF Restart, TypeOK
    <2> QED BY <1>1, <1>4, <1>6, <1>7, <2>1, <2>2 DEF TypeOK, Restart, target
  <1>10. Holders'
    <2>1. \A l \in Lanes : LaneInv(l)'  BY <1>6 DEF LaneInv, Detached, Querying
    <2>2. \A c \in Callers : CallerInv(c)'  BY <1>7 DEF CallerInv
    <2>3. QueueInv'  BY DEF QueueInv, Restart
    <2>4. OwnInv'  BY <1>6, <1>7 DEF OwnInv, Restart
    <2> QED BY <2>1, <2>2, <2>3, <2>4 DEF Holders
  <1>11. BookInv'
    <2> SUFFICES ASSUME NEW b \in Batches PROVE b \in excused' \/ Done(b)'  BY DEF BookInv
    <2>1. CASE b \in excused \/ status[b] \in Open  BY <2>1 DEF Restart
    <2>2. CASE Done(b)
      BY <1>2, <1>3, <2>2 DEF Done, RowsShut
    <2> QED BY <2>1, <2>2 DEF Base, BookInv
  <1> QED BY <1>5, <1>8, <1>9, <1>10, <1>11 DEF Good, Allowed, Promise!Next, Restart, target

-----------------------------------------------------------------------------
\* The step lemma for the tables and their owners.

\* What follows from a step that QualityBatch allows: a verdict and an execution
\* stay, and a batch that does not exist has no execution.
LEMMA AllowedKeeps ==
    ASSUME TypeOK, BornInv, Allowed
    PROVE  /\ \A b \in Batches, r \in Rules : row[b][r] = "COMPLETED" => row'[b][r] = "COMPLETED"
           /\ \A b \in Batches, r \in Rules : row[b][r] # "none" => row'[b][r] # "none"
           /\ BornInv'
  <1> DEFINE Stays == /\ \A b \in Batches, r \in Rules :
                           row[b][r] = "COMPLETED" => row'[b][r] = "COMPLETED"
                      /\ \A b \in Batches, r \in Rules : row[b][r] # "none" => row'[b][r] # "none"
  <1> SUFFICES Stays /\ BornInv'  OBVIOUS
  <1>1. CASE UNCHANGED <<status, row>>  BY <1>1 DEF BornInv
  <1>2. ASSUME NEW b \in Batches, Promise!Create(b) PROVE Stays /\ BornInv'
    BY <1>2 DEF Promise!Create, BornInv, TypeOK
  <1>3. ASSUME NEW b \in Batches, Promise!Start(b) PROVE Stays /\ BornInv'
    BY <1>3 DEF Promise!Start, BornInv, TypeOK
  <1>4. ASSUME NEW b \in Batches, Promise!Complete(b) PROVE Stays /\ BornInv'
    BY <1>4 DEF Promise!Complete, BornInv, TypeOK
  <1>5. ASSUME NEW b \in Batches, NEW chosen \in SUBSET Rules, Promise!Plan(b, chosen)
        PROVE  Stays /\ BornInv'
    <2>1. \A r \in Rules : row[b][r] = "none"  BY <1>5 DEF Promise!Plan, Promise!RulesOf
    <2>2. \A x \in Batches \ {b} : row'[x] = row[x]  BY <1>5 DEF Promise!Plan, TypeOK
    <2>3. status' = status /\ status[b] = "PENDING"  BY <1>5 DEF Promise!Plan
    <2> QED BY <2>1, <2>2, <2>3 DEF BornInv
  <1>6. ASSUME NEW b \in Batches, NEW r \in Rules, Promise!Begin(b, r) PROVE Stays /\ BornInv'
    <2>1. \A x \in Batches, q \in Rules :
            row'[x][q] = IF x = b /\ q = r THEN "RUNNING" ELSE row[x][q]
      BY <1>6 DEF Promise!Begin, TypeOK
    <2>2. status' = status /\ status[b] = "RUNNING" /\ row[b][r] = "PENDING"
      BY <1>6 DEF Promise!Begin
    <2> QED BY <2>1, <2>2 DEF BornInv
  <1>7. ASSUME NEW b \in Batches, NEW r \in Rules, Promise!Judge(b, r) PROVE Stays /\ BornInv'
    <2>1. \A x \in Batches, q \in Rules :
            row'[x][q] = IF x = b /\ q = r THEN "COMPLETED" ELSE row[x][q]
      BY <1>7 DEF Promise!Judge, TypeOK
    <2>2. status' = status /\ status[b] = "RUNNING" /\ row[b][r] = "RUNNING"
      BY <1>7 DEF Promise!Judge
    <2> QED BY <2>1, <2>2 DEF BornInv
  <1>8. CASE Promise!Abandon
    BY <1>8 DEF Promise!Abandon, Promise!Open, BornInv
  <1> QED BY <1>1, <1>2, <1>3, <1>4, <1>5, <1>6, <1>7, <1>8 DEF Allowed, Promise!Next

LEMMA BatchStepGood ==
    ASSUME Base, NEW l \in Lanes, BatchStep(l)
    PROVE  Good
  BY AdmitGood, StartBatchGood, BeginTaskGood, AcquireGood, EndQueryGood, WriteVerdictGood,
     EndTasksGood, AbandonBatchRowsGood, FinishBatchGood, AdvanceGood DEF BatchStep

LEMMA EnvironmentGood ==
    ASSUME Base, Environment
    PROVE  Good
  <1>1. TypeOK /\ cycle \in Nat  BY BoundAssumption DEF Base, TypeOK
  <1>2. CASE ComesDue
    <2>1. cycle' \in 0..MaxCycles  BY <1>1, <1>2, BoundAssumption DEF ComesDue
    <2> QED BY <1>1, <1>2, <2>1, TargetGood DEF ComesDue, TypeOK
  <1>3. CASE EditSchedule
    <2>1. edits' \in 0..MaxEdits  BY <1>1, <1>3, BoundAssumption DEF EditSchedule, TypeOK
    <2>2. next' \in 0..MaxCycles + 1
      BY <1>1, <1>3, LaterIsTyped, BoundAssumption DEF EditSchedule
    <2> QED BY <1>1, <1>3, <2>1, <2>2, TargetGood DEF EditSchedule, TypeOK
  <1>4. ASSUME NEW r \in Rules, Toggle(r) PROVE Good
    <2>1. edits' \in 0..MaxEdits  BY <1>1, <1>4, BoundAssumption DEF Toggle, TypeOK
    <2>2. enabled' \subseteq Rules  BY <1>1, <1>4 DEF Toggle, TypeOK
    <2>3. next' \in 0..MaxCycles + 1  BY <1>1, <1>4, LaterIsTyped, BoundAssumption DEF Toggle, TypeOK
    <2> QED BY <1>1, <1>4, <2>1, <2>2, <2>3, TargetGood DEF Toggle, TypeOK
  <1> QED BY <1>2, <1>3, <1>4, PanicGood, ApiCancelledGood, ApiCreateGood, TimeoutGood, RestartGood
          DEF Environment

\* Every step keeps the types, the owners and the books, and is one that
\* QualityBatch allows.
LEMMA StepGood ==
    ASSUME Base, [Next]_vars
    PROVE  Good /\ Base'
  <1>1. Good
    <2>1. CASE LoopStep
      BY <2>1, TakeManualGood, ScanFindGood, ScanSubmitGood, UnadmittedGood, BatchStepGood
         DEF LoopStep, Lanes
    <2>2. CASE Environment  BY <2>2, EnvironmentGood
    <2>3. ASSUME NEW w \in Workers, WorkerStep(w) PROVE Good
      <3>1. w \in Lanes  BY DEF Lanes
      <3> QED BY <2>3, <3>1, TakeGroupGood, RecheckGood, CreateScheduledGood, PlanScheduledGood,
                 AbandonEmptyGood, CountPendingGood, BatchStepGood DEF WorkerStep
    <2>4. ASSUME NEW c \in Callers, ApiStep(c) PROVE Good
      BY <2>4, ApiPlanGood, ApiEnqueueGood, ApiAbandonRowsGood, ApiAbandonBatchGood DEF ApiStep
    <2>5. CASE UNCHANGED vars
      <3>1. UNCHANGED <<tables, process, faults, excused>> /\ UNCHANGED <<next, cycle, enabled, past, edits>>
        BY <2>5 DEF vars, target
      <3> QED BY <3>1, TargetGood DEF Base, TypeOK
    <2> QED BY <2>1, <2>2, <2>3, <2>4, <2>5 DEF Next
  <1>2. BornInv'  BY <1>1, AllowedKeeps DEF Good, Base
  <1> QED BY <1>1, <1>2 DEF Good, Base

-----------------------------------------------------------------------------
\* The in-flight checks, the reservation and the schedule.

\* What is settled in a cycle stays settled.
LEMMA SettledStays ==
    ASSUME Base, Good, NEW c \in Nat, NEW r \in Rules, SettledIn(c, r)
    PROVE  SettledIn(c, r)'
  <1>1. /\ \A b \in Batches : row[b][r] = "COMPLETED" => row'[b][r] = "COMPLETED"
        /\ \A b \in Batches : row[b][r] # "none" => row'[b][r] # "none"
    BY AllowedKeeps DEF Base, Good
  <1>2. \A b \in Batches : slot[b][r] \in Nat /\ slot'[b][r] \in Nat /\ slot'[b][r] >= slot[b][r]
    BY BoundAssumption DEF Base, Good, TypeOK, SlotGrows
  <1>3. Scheduled \subseteq Batches  BY DEF Batches
  <1>4. CASE \E b \in Scheduled : row[b][r] = "COMPLETED" /\ slot[b][r] >= c
    BY <1>1, <1>2, <1>3, <1>4 DEF SettledIn
  <1>5. CASE Cardinality({b \in Scheduled : row[b][r] # "none" /\ slot[b][r] >= c}) >= MaxAttempts
    <2> DEFINE S == {b \in Scheduled : row[b][r] # "none" /\ slot[b][r] >= c}
               T == {b \in Scheduled : row'[b][r] # "none" /\ slot'[b][r] >= c}
    <2>1. S \subseteq T  BY <1>1, <1>2, <1>3
    <2>2. IsFiniteSet(Scheduled)  BY BatchAssumption
    <2>3. T \subseteq Scheduled  OBVIOUS
    <2>4. IsFiniteSet(T)  BY <2>2, <2>3, FS_Subset
    <2>5. IsFiniteSet(S) /\ Cardinality(S) <= Cardinality(T)  BY <2>1, <2>4, FS_Subset
    <2>6. Cardinality(S) \in Nat /\ Cardinality(T) \in Nat  BY <2>4, <2>5, FS_CardinalityType
    <2>7. Cardinality(S) >= MaxAttempts  BY <1>5
    <2>8. Cardinality(T) >= MaxAttempts
      <3> HIDE DEF S, T
      <3> QED BY <2>5, <2>6, <2>7, AttemptsAssumption
    <2> QED BY <2>8 DEF SettledIn
  <1> QED BY <1>4, <1>5 DEF SettledIn

\* A verdict keeps its slot: the run cadence excuses the check as long.
LEMMA CadenceStays ==
    ASSUME Base, Good, NEW c \in Nat, NEW r \in Rules, NotYetAgain(c, r)
    PROVE  NotYetAgain(c, r)'
  <1>1. \A b \in Batches : row[b][r] = "COMPLETED" => row'[b][r] = "COMPLETED"
    BY AllowedKeeps DEF Base, Good
  <1>2. \A b \in Batches : row[b][r] # "none" => scheduledAt'[b] = scheduledAt[b]
    BY DEF Good, SlotGrows
  <1>3. Scheduled \subseteq Batches  BY DEF Batches
  <1>4. CASE r \in past /\ c < Period[r]
    BY <1>4 DEF Good, NotYetAgain
  <1>5. CASE \E b \in Scheduled : row[b][r] = "COMPLETED" /\ c < scheduledAt[b] + Period[r]
    <2>1. PICK b \in Scheduled : row[b][r] = "COMPLETED" /\ c < scheduledAt[b] + Period[r]
      BY <1>5
    <2>2. row'[b][r] = "COMPLETED" /\ scheduledAt'[b] = scheduledAt[b]
      BY <1>1, <1>2, <1>3, <2>1
    <2> QED BY <2>1, <2>2 DEF NotYetAgain
  <1> QED BY <1>4, <1>5 DEF NotYetAgain

\* What the runner counts as not pending is not waited for in the current cycle.
LEMMA NothingPending ==
    ASSUME TypeOK, next = 0 => enabled = {}, Pending = {}
    PROVE  \A p \in {<<next, r>> : r \in enabled} : Excused(p[1], p[2])
  <1> SUFFICES ASSUME NEW r \in enabled PROVE Excused(next, r)  OBVIOUS
  <1>1. r \in Rules /\ next \in Nat /\ Period[r] \in Nat
        /\ \A b \in Scheduled : scheduledAt[b] \in Nat
    BY BoundAssumption, PeriodAssumption DEF TypeOK, Batches
  <1>2. Settled(r) \/ Gated(r)  BY DEF Pending
  <1>3. CASE Settled(r)
    BY <1>3 DEF Settled, Attempts, SettledIn, Excused
  <1>4. CASE Gated(r)
    BY <1>1, <1>4 DEF Gated, NotYetAgain, Excused
  <1> QED BY <1>2, <1>3, <1>4

\* The in-flight map, check by check.
LEMMA QueryParts ==
    OneQueryPerRule <=>
      /\ \A r : r \in inflight <=> \E l \in Lanes : At(l, "query") /\ r \in lane[l].rule
      /\ \A l, m \in Lanes : l # m /\ At(l, "query") /\ At(m, "query")
                               => lane[l].rule \cap lane[m].rule = {}
  BY ZenonT(60) DEF OneQueryPerRule

LEMMA QueryPartsNext ==
    OneQueryPerRule' <=>
      /\ \A r : r \in inflight' <=> \E l \in Lanes : lane'[l].pc = "query" /\ r \in lane'[l].rule
      /\ \A l, m \in Lanes : l # m /\ lane'[l].pc = "query" /\ lane'[m].pc = "query"
                               => lane'[l].rule \cap lane'[m].rule = {}
  <1>1. (inflight = UNION {lane[l].rule : l \in {m \in Lanes : At(m, "query")}})' <=>
          \A r : r \in inflight' <=> \E l \in Lanes : lane'[l].pc = "query" /\ r \in lane'[l].rule
    BY DEF At
  <1> QED BY <1>1 DEF OneQueryPerRule, At

\* A lane moves outside the query.
LEMMA QueryKept ==
    ASSUME OneQueryPerRule, NEW l \in Lanes, Others(l), inflight' = inflight,
           lane[l].pc # "query", lane'[l].pc # "query"
    PROVE  OneQueryPerRule'
  <1>1. \A m \in Lanes : /\ lane'[m].pc = "query" <=> lane[m].pc = "query"
                         /\ lane[m].pc = "query" => lane'[m].rule = lane[m].rule
    BY DEF Others
  <1> QED BY <1>1, QueryParts, QueryPartsNext DEF At

\* Where a lane stands on the way to the schedule is settled, if it was before
\* and the lane that moves arrives with something settled.
LEMMA BasisKept ==
    ASSUME Base, Good, BasisInv, next' = 0 => enabled' = {}, NEW l \in Lanes, Others(l),
           lane'[l].pc = "advance" => \A p \in lane'[l].basis : Excused(p[1], p[2])
    PROVE  BasisInv'
  <1> SUFFICES ASSUME NEW m \in Lanes, lane'[m].pc = "advance", NEW p \in lane'[m].basis
               PROVE  Excused(p[1], p[2])'
    BY DEF BasisInv, At
  <1>1. Excused(p[1], p[2])
    BY DEF BasisInv, At, Others
  <1>2. lane'[m].basis \subseteq Nat \X Rules  BY LaneFields DEF Others
  <1>3. p[1] \in Nat /\ p[2] \in Rules  BY <1>2
  <1> QED BY <1>1, <1>3, SettledStays, CadenceStays DEF Excused

\* The invariants that are not about the tables.
Tail3 == OneQueryPerRule /\ InstanceIsSerial /\ BasisInv

\* A worker goes on with its group, or ends it and releases the instance.
WorkerGoesOn(w) ==
    /\ lane[w].pc # "idle"
    /\ \/ reserved' = reserved /\ lane'[w].pc # "idle"
       \/ reserved' = FALSE /\ lane'[w].pc = "idle"

LEMMA SerialKept ==
    ASSUME InstanceIsSerial, NEW l \in Lanes, Others(l), group' = group,
           l \in Workers => WorkerGoesOn(l), l \notin Workers => reserved' = reserved
    PROVE  InstanceIsSerial'
  <1>1. Workers \subseteq Lanes  BY DEF Lanes
  <1>2. CASE l \notin Workers
    <2>1. \A w \in Workers : lane'[w].pc = lane[w].pc  BY <1>1, <1>2 DEF Others
    <2> QED BY <1>2, <2>1 DEF InstanceIsSerial, At
  <1>3. CASE l \in Workers
    <2>1. \A w \in Workers \ {l} : lane'[w].pc = lane[w].pc /\ lane[w].pc = "idle"
      BY <1>1, <1>3 DEF Others, InstanceIsSerial, WorkerGoesOn, At
    <2>2. group = {}  BY <1>3 DEF InstanceIsSerial, WorkerGoesOn, At
    <2>3. reserved  BY <1>3 DEF InstanceIsSerial, WorkerGoesOn, At
    <2>4. \A v, w \in Workers : v # w => lane'[v].pc = "idle" \/ lane'[w].pc = "idle"
      BY <2>1
    <2>5. CASE reserved' = reserved /\ lane'[l].pc # "idle"
      <3>1. reserved' <=> group' # {} \/ \E w \in Workers : lane'[w].pc # "idle"
        BY <1>3, <2>3, <2>5, Zenon
      <3> QED BY <2>2, <2>4, <3>1 DEF InstanceIsSerial, At
    <2>6. CASE reserved' = FALSE /\ lane'[l].pc = "idle"
      <3>1. \A w \in Workers : lane'[w].pc = "idle"  BY <2>1, <2>6
      <3>2. reserved' <=> group' # {} \/ \E w \in Workers : lane'[w].pc # "idle"
        BY <2>2, <2>6, <3>1, Zenon
      <3> QED BY <2>2, <2>4, <3>2 DEF InstanceIsSerial, At
    <2> QED BY <1>3, <2>5, <2>6 DEF WorkerGoesOn
  <1> QED BY <1>2, <1>3

\* A step of a lane that neither queries, nor goes to advance the schedule, nor
\* touches the queued group.
Ordinary(l) ==
    /\ Others(l) /\ inflight' = inflight /\ group' = group
    /\ lane[l].pc # "query" /\ lane'[l].pc # "query" /\ lane'[l].pc # "advance"
    /\ l \in Workers => WorkerGoesOn(l)
    /\ l \notin Workers => reserved' = reserved
    /\ (next' = 0 => next = 0) /\ enabled' = enabled

LEMMA OrdinaryKeeps ==
    ASSUME IndInv, Good, NEW l \in Lanes, Ordinary(l)
    PROVE  Tail3'
  <1>1. OneQueryPerRule'  BY QueryKept DEF IndInv, Ordinary
  <1>2. InstanceIsSerial'  BY SerialKept DEF IndInv, Ordinary
  <1>3. next' = 0 => enabled' = {}  BY DEF IndInv, BasisInv, Ordinary
  <1>4. BasisInv'  BY <1>3, BasisKept DEF IndInv, Ordinary
  <1> QED BY <1>1, <1>2, <1>4 DEF Tail3

\* Going elsewhere is ordinary, and so is ending the group.
LEMMA GotoOrdinary ==
    ASSUME TypeOK, NEW l \in Lanes, NEW pc \in LanePcs \ {"idle", "query", "advance"}, Goto(l, pc),
           lane[l].pc \notin {"idle", "query"}, UNCHANGED <<inflight, group, reserved, next, enabled>>
    PROVE  Ordinary(l)
  BY GotoEffect DEF Ordinary, WorkerGoesOn

LEMMA EndOrdinary ==
    ASSUME TypeOK, NEW l \in Lanes, lane' = [lane EXCEPT ![l] = IdleLane],
           lane[l].pc \notin {"idle", "query"}, UNCHANGED <<inflight, group, enabled>>,
           next' = 0 => next = 0, l \in Workers => reserved' = FALSE,
           l \notin Workers => reserved' = reserved
    PROVE  Ordinary(l)
  BY IdleEffect DEF Ordinary, WorkerGoesOn

LEMMA BatchStepTail ==
    ASSUME IndInv, Good, NEW l \in Lanes, BatchStep(l)
    PROVE  Tail3'
  <1>1. TypeOK /\ LaneInv(l) /\ Base  BY DEF IndInv, Base, Holders
  <1>2. {"start", "create", "unadmitted", "task", "abandonRows", "complete", "abandonBatch",
         "query", "verdict"} \subseteq LanePcs
    BY DEF LanePcs
  <1>3. CASE Admit(l)
    <2>1. CASE \E pc \in {"start", "create", "unadmitted"} : Goto(l, pc) /\ UNCHANGED reserved
      <3>1. Ordinary(l)  BY <1>1, <1>2, <1>3, <2>1, GotoOrdinary DEF Admit, At, target
      <3> QED BY <3>1, OrdinaryKeeps
    <2>2. CASE l \in Workers /\ EndGroup(l)
      <3>1. Ordinary(l)  BY <1>1, <1>3, <2>2, EndOrdinary DEF Admit, At, target, EndGroup
      <3> QED BY <3>1, OrdinaryKeeps
    <2> QED BY <1>3, <2>1, <2>2 DEF Admit
  <1>4. CASE StartBatch(l)
    <2>1. Ordinary(l)  BY <1>1, <1>2, <1>4, GotoOrdinary DEF StartBatch, At, target
    <2> QED BY <2>1, OrdinaryKeeps
  <1>5. CASE BeginTask(l)
    <2>1. PICK r \in lane[l].todo :
            \/ lane' = [lane EXCEPT ![l].pc = "acquire", ![l].rule = {r}, ![l].todo = @ \ {r}]
            \/ SkipTask(l, r)
      BY <1>5 DEF BeginTask
    <2>2. r \in Rules  BY <1>1, <2>1, LaneTyped
    <2>3. Others(l) /\ lane'[l].pc \in {"acquire", "task"}
      BY <1>1, <1>5, <2>1, <2>2, BeginLane, SkipLane DEF BeginTask, At
    <2>4. Ordinary(l)
      BY <1>5, <2>3 DEF Ordinary, WorkerGoesOn, BeginTask, At, target
    <2> QED BY <2>4, OrdinaryKeeps
  <1>6. CASE Acquire(l)
    <2>1. PICK pc \in {"query", "verdict"} : Goto(l, pc)  BY <1>6 DEF Acquire
    <2>2. Others(l) /\ lane'[l].pc = pc /\ lane'[l].rule = lane[l].rule
      BY <1>1, <1>2, <2>1, GotoEffect
    <2>3. lane[l].pc = "acquire" /\ UNCHANGED <<group, reserved, next, enabled>>
      BY <1>6 DEF Acquire, At, target
    <2>4. OneQueryPerRule'
      <3>1. CASE inflight' = inflight /\ pc = "verdict"
        BY <2>2, <2>3, <3>1, QueryKept DEF IndInv
      <3>2. CASE pc = "query" /\ lane[l].rule \cap inflight = {} /\ inflight' = inflight \cup lane[l].rule
        <4>1. \A m \in Lanes \ {l} : lane'[m].pc = lane[m].pc /\ lane'[m].rule = lane[m].rule
          BY <2>2 DEF Others
        <4>2. \A r : r \in inflight <=> \E m \in Lanes : lane[m].pc = "query" /\ r \in lane[m].rule
          BY QueryParts DEF IndInv, At
        <4>3. \A m \in Lanes : lane[m].pc = "query" => lane[m].rule \cap lane[l].rule = {}
          BY <3>2, <4>2
        <4>4. \A r : r \in inflight' <=> \E m \in Lanes : lane'[m].pc = "query" /\ r \in lane'[m].rule
          BY <2>2, <2>3, <3>2, <4>1, <4>2
        <4>5. \A k, m \in Lanes : k # m /\ lane'[k].pc = "query" /\ lane'[m].pc = "query"
                                   => lane'[k].rule \cap lane'[m].rule = {}
          BY <2>2, <4>1, <4>3, QueryParts DEF IndInv, At
        <4> QED BY <4>4, <4>5, QueryPartsNext
      <3>3. pc = "query" => ~Goto(l, "verdict")
        BY <1>1, <1>2, <2>2, GotoEffect
      <3>4. pc = "verdict" => ~Goto(l, "query")
        BY <1>1, <1>2, <2>2, GotoEffect
      <3> QED BY <1>6, <3>1, <3>2, <3>3, <3>4 DEF Acquire
    <2>5. InstanceIsSerial'  BY <2>2, <2>3, SerialKept DEF IndInv, WorkerGoesOn
    <2>6. BasisInv'  BY <1>1, <2>2, <2>3, BasisKept DEF IndInv, BasisInv
    <2> QED BY <2>4, <2>5, <2>6 DEF Tail3
  <1>7. CASE EndQuery(l)
    <2>1. Others(l) /\ lane'[l].pc = "verdict"  BY <1>1, <1>2, <1>7, GotoEffect DEF EndQuery
    <2>2. lane[l].pc = "query" /\ UNCHANGED <<group, reserved, next, enabled>>
          /\ inflight' = inflight \ lane[l].rule
      BY <1>7 DEF EndQuery, At, target
    <2>3. OneQueryPerRule'
      <3>1. \A m \in Lanes \ {l} : lane'[m].pc = lane[m].pc /\ lane'[m].rule = lane[m].rule
        BY <2>1 DEF Others
      <3>2. \A m \in Lanes \ {l} : lane[m].pc = "query" => lane[m].rule \cap lane[l].rule = {}
        BY <2>2, QueryParts DEF IndInv, At
      <3>3. \A r : r \in inflight' <=> \E m \in Lanes : lane'[m].pc = "query" /\ r \in lane'[m].rule
        BY <2>1, <2>2, <3>1, <3>2, QueryParts DEF IndInv, At
      <3>4. \A k, m \in Lanes : k # m /\ lane'[k].pc = "query" /\ lane'[m].pc = "query"
                                 => lane'[k].rule \cap lane'[m].rule = {}
        BY <2>1, <3>1, QueryParts DEF IndInv, At
      <3> QED BY <3>3, <3>4, QueryPartsNext
    <2>4. InstanceIsSerial'  BY <2>1, <2>2, SerialKept DEF IndInv, WorkerGoesOn
    <2>5. BasisInv'  BY <1>1, <2>1, <2>2, BasisKept DEF IndInv, BasisInv
    <2> QED BY <2>3, <2>4, <2>5 DEF Tail3
  <1>8. CASE WriteVerdict(l)
    <2>1. PICK pc \in {"task", "abandonRows"} : lane' = [lane EXCEPT ![l].pc = pc, ![l].rule = {}]
      BY <1>8 DEF WriteVerdict
    <2>2. Others(l) /\ lane'[l].pc = pc  BY <1>1, <1>2, <2>1, VerdictLane
    <2>3. Ordinary(l)
      BY <1>8, <2>2 DEF Ordinary, WorkerGoesOn, WriteVerdict, At, target
    <2> QED BY <2>3, OrdinaryKeeps
  <1>9. CASE EndTasks(l)
    <2>1. PICK pc \in {"abandonRows", "complete"} : Goto(l, pc)  BY <1>9 DEF EndTasks
    <2>2. Ordinary(l)  BY <1>1, <1>2, <1>9, <2>1, GotoOrdinary DEF EndTasks, At, target
    <2> QED BY <2>2, OrdinaryKeeps
  <1>10. CASE AbandonBatchRows(l)
    <2>1. Ordinary(l)  BY <1>1, <1>2, <1>10, GotoOrdinary DEF AbandonBatchRows, At, target
    <2> QED BY <2>1, OrdinaryKeeps
  <1>11. CASE FinishBatch(l)
    <2>1. Others(l) /\ lane'[l].pc = (IF l \in Workers THEN "count" ELSE "idle")
      BY <1>1, <1>11, AfterLane DEF FinishBatch
    <2>2. Ordinary(l)
      BY <1>11, <2>1 DEF Ordinary, WorkerGoesOn, FinishBatch, At, target
    <2> QED BY <2>2, OrdinaryKeeps
  <1>12. CASE Advance(l)
    <2>1. next' = 0 => next = 0  BY <1>1, <1>12, LaterIsTyped DEF Advance
    <2>2. Ordinary(l)  BY <1>1, <1>12, <2>1, EndOrdinary DEF Advance, At
    <2> QED BY <2>2, OrdinaryKeeps
  <1> QED BY <1>3, <1>4, <1>5, <1>6, <1>7, <1>8, <1>9, <1>10, <1>11, <1>12 DEF BatchStep

\* Whoever leaves the lanes and the runner's own state alone.
LEMMA StillTail ==
    ASSUME IndInv, Good, UNCHANGED <<lane, inflight, group, reserved>>,
           next' = 0 => enabled' = {}
    PROVE  Tail3'
  <1>1. OneQueryPerRule' /\ InstanceIsSerial'
    BY DEF IndInv, OneQueryPerRule, InstanceIsSerial, At
  <1>2. "loop" \in Lanes /\ Others("loop")  BY DEF Lanes, Others, IndInv, Base, TypeOK
  <1>3. BasisInv'
    BY <1>2, BasisKept DEF IndInv, BasisInv, At
  <1> QED BY <1>1, <1>3 DEF Tail3

LEMMA LoopStepTail ==
    ASSUME IndInv, Good, LoopStep
    PROVE  Tail3'
  <1>1. TypeOK /\ "loop" \in Lanes /\ "loop" \notin Workers /\ Base /\ LaneInv("loop")
    BY LoopAssumption DEF IndInv, Base, Lanes, Holders
  <1>2. CASE TakeManual
    <2>1. Ordinary("loop")
      BY <1>1, <1>2, TakeManualLane DEF Ordinary, TakeManual, At, target
    <2> QED BY <1>1, <2>1, OrdinaryKeeps
  <1>3. CASE ScanFind
    <2>1. /\ Others("loop") /\ lane["loop"].pc = "idle"
          /\ UNCHANGED <<inflight, group, reserved, next, enabled>>
          /\ \/ /\ Pending = {} /\ lane'["loop"].pc = "advance"
                /\ lane'["loop"].basis = {<<next, r>> : r \in enabled}
             \/ lane'["loop"].pc = "submit"
      BY <1>1, <1>3, ScanFindLane DEF ScanFind, At, target
    <2>2. OneQueryPerRule'  BY <1>1, <2>1, QueryKept DEF IndInv
    <2>3. InstanceIsSerial'  BY <1>1, <2>1, SerialKept DEF IndInv
    <2>4. lane'["loop"].pc = "advance" => \A p \in lane'["loop"].basis : Excused(p[1], p[2])
      BY <1>1, <2>1, NothingPending DEF IndInv, BasisInv
    <2>5. BasisInv'  BY <1>1, <2>1, <2>4, BasisKept DEF IndInv, BasisInv
    <2> QED BY <2>2, <2>3, <2>5 DEF Tail3
  <1>4. CASE ScanSubmit
    <2>1. /\ Others("loop") /\ lane["loop"].pc = "submit" /\ lane'["loop"].pc = "idle"
          /\ UNCHANGED <<inflight, next, enabled>>
      BY <1>1, <1>4, IdleEffect DEF ScanSubmit, At, target
    <2>2. OneQueryPerRule'  BY <1>1, <2>1, QueryKept DEF IndInv
    <2>3. BasisInv'  BY <1>1, <2>1, BasisKept DEF IndInv, BasisInv
    <2>4. InstanceIsSerial'
      <3>1. CASE UNCHANGED <<reserved, group>>
        BY <1>1, <2>1, <3>1, SerialKept DEF IndInv
      <3>2. CASE ~reserved /\ reserved' = TRUE /\ group' = lane["loop"].todo
        <4>1. group' # {}  BY <1>1, <2>1, <3>2 DEF LaneInv
        <4>2. \A w \in Workers : lane'[w].pc = "idle"
          <5>1. \A w \in Workers : lane[w].pc = "idle"
            BY <3>2 DEF IndInv, InstanceIsSerial, At
          <5> QED BY <1>1, <2>1, <5>1 DEF Others, Lanes
        <4>3. reserved' <=> group' # {} \/ \E w \in Workers : lane'[w].pc # "idle"
          BY <3>2, <4>1, Zenon
        <4> QED BY <4>1, <4>2, <4>3 DEF InstanceIsSerial, At
      <3> QED BY <1>4, <3>1, <3>2 DEF ScanSubmit
    <2> QED BY <2>2, <2>3, <2>4 DEF Tail3
  <1>5. CASE Unadmitted
    <2>1. CASE Goto("loop", "abandonBatch")
      <3>1. Ordinary("loop")
        BY <1>1, <1>5, <2>1, GotoOrdinary DEF Unadmitted, At, target, LanePcs
      <3> QED BY <1>1, <3>1, OrdinaryKeeps
    <2>2. CASE lane' = [lane EXCEPT !["loop"] = IdleLane]
      <3>1. Ordinary("loop")
        BY <1>1, <1>5, <2>2, EndOrdinary DEF Unadmitted, At, target
      <3> QED BY <1>1, <3>1, OrdinaryKeeps
    <2> QED BY <1>5, <2>1, <2>2 DEF Unadmitted
  <1> QED BY <1>1, <1>2, <1>3, <1>4, <1>5, BatchStepTail DEF LoopStep

LEMMA WorkerStepTail ==
    ASSUME IndInv, Good, NEW w \in Workers, WorkerStep(w)
    PROVE  Tail3'
  <1>1. TypeOK /\ w \in Lanes /\ Base /\ LaneInv(w)
    BY DEF IndInv, Base, Lanes, Holders
  <1>2. {"admit", "plan", "start", "empty"} \subseteq LanePcs  BY DEF LanePcs
  <1>3. CASE TakeGroup(w)
    <2>1. /\ Others(w) /\ lane[w].pc = "idle" /\ lane'[w].pc = "recheck"
          /\ group # {} /\ group' = {} /\ UNCHANGED <<inflight, reserved, next, enabled>>
      BY <1>1, <1>3, TakeGroupLane DEF TakeGroup, At, target
    <2>2. OneQueryPerRule'  BY <1>1, <2>1, QueryKept DEF IndInv
    <2>3. BasisInv'  BY <1>1, <2>1, BasisKept DEF IndInv, BasisInv
    <2>4. InstanceIsSerial'
      <3>1. reserved /\ \A v \in Workers : lane[v].pc = "idle"
        BY <2>1 DEF IndInv, InstanceIsSerial, At
      <3>2. \A v \in Workers \ {w} : lane'[v].pc = "idle"
        BY <2>1, <3>1 DEF Others, Lanes
      <3>3. reserved' <=> group' # {} \/ \E v \in Workers : lane'[v].pc # "idle"
        <4>1. reserved'  BY <2>1, <3>1, Zenon
        <4>2. \E v \in Workers : lane'[v].pc # "idle"  BY <2>1
        <4> QED BY <4>1, <4>2, Zenon
      <3> QED BY <2>1, <3>2, <3>3 DEF InstanceIsSerial, At
    <2> QED BY <2>2, <2>3, <2>4 DEF Tail3
  <1>4. CASE Recheck(w)
    <2>1. CASE Goto(w, "admit") /\ UNCHANGED reserved
      <3>1. Ordinary(w)  BY <1>1, <1>2, <1>4, <2>1, GotoOrdinary DEF Recheck, At, target
      <3> QED BY <1>1, <3>1, OrdinaryKeeps
    <2>2. CASE EndGroup(w)
      <3>1. Ordinary(w)  BY <1>1, <1>4, <2>2, EndOrdinary DEF Recheck, At, target, EndGroup
      <3> QED BY <1>1, <3>1, OrdinaryKeeps
    <2> QED BY <1>4, <2>1, <2>2 DEF Recheck
  <1>5. CASE CreateScheduled(w)
    <2>1. ASSUME NEW b \in Fresh(Scheduled), lane' = [lane EXCEPT ![w].pc = "plan", ![w].b = b],
                 UNCHANGED reserved
          PROVE  Tail3'
      <3>1. b \in Batches  BY DEF Fresh, Batches
      <3>2. Others(w) /\ lane'[w].pc = "plan"  BY <1>1, <2>1, <3>1, CreateLane
      <3>3. Ordinary(w)
        BY <1>5, <2>1, <3>2 DEF Ordinary, WorkerGoesOn, CreateScheduled, At, target
      <3> QED BY <1>1, <3>3, OrdinaryKeeps
    <2>2. CASE EndGroup(w)
      <3>1. Ordinary(w)  BY <1>1, <1>5, <2>2, EndOrdinary DEF CreateScheduled, At, target, EndGroup
      <3> QED BY <1>1, <3>1, OrdinaryKeeps
    <2> QED BY <1>5, <2>1, <2>2 DEF CreateScheduled
  <1>6. CASE PlanScheduled(w)
    <2>1. Ordinary(w)  BY <1>1, <1>2, <1>6, GotoOrdinary DEF PlanScheduled, At, target
    <2> QED BY <1>1, <2>1, OrdinaryKeeps
  <1>7. CASE AbandonEmpty(w)
    <2>1. Ordinary(w)  BY <1>1, <1>7, EndOrdinary DEF AbandonEmpty, At, target, EndGroup
    <2> QED BY <1>1, <2>1, OrdinaryKeeps
  <1>8. CASE CountPending(w)
    <2>1. CASE /\ Pending = {} /\ UNCHANGED reserved
               /\ lane' = [lane EXCEPT ![w].pc = "advance", ![w].basis = {<<next, r>> : r \in enabled}]
      <3>1. /\ Others(w) /\ lane'[w].pc = "advance" /\ lane[w].pc = "count"
            /\ lane'[w].basis = {<<next, r>> : r \in enabled}
            /\ UNCHANGED <<inflight, group, reserved, next, enabled>>
        BY <1>1, <1>8, <2>1, CountLane DEF CountPending, At, target
      <3>2. OneQueryPerRule'  BY <1>1, <3>1, QueryKept DEF IndInv
      <3>3. InstanceIsSerial'  BY <1>1, <3>1, SerialKept DEF IndInv, WorkerGoesOn
      <3>4. \A p \in lane'[w].basis : Excused(p[1], p[2])
        BY <1>1, <2>1, <3>1, NothingPending DEF IndInv, BasisInv
      <3>5. BasisInv'  BY <1>1, <3>1, <3>4, BasisKept DEF IndInv, BasisInv
      <3> QED BY <3>2, <3>3, <3>5 DEF Tail3
    <2>2. CASE EndGroup(w)
      <3>1. Ordinary(w)  BY <1>1, <1>8, <2>2, EndOrdinary DEF CountPending, At, target, EndGroup
      <3> QED BY <1>1, <3>1, OrdinaryKeeps
    <2> QED BY <1>8, <2>1, <2>2 DEF CountPending
  <1> QED BY <1>1, <1>3, <1>4, <1>5, <1>6, <1>7, <1>8, BatchStepTail DEF WorkerStep

LEMMA EnvironmentTail ==
    ASSUME IndInv, Good, Environment
    PROVE  Tail3'
  <1>1. TypeOK /\ Base  BY DEF IndInv, Base
  <1>2. CASE ComesDue
    BY <1>2, StillTail DEF ComesDue, process, IndInv, BasisInv
  <1>3. CASE EditSchedule
    <2>1. next' = 0 => enabled' = {}
      BY <1>1, <1>3, LaterIsTyped DEF EditSchedule
    <2> QED BY <1>3, <2>1, StillTail DEF EditSchedule, process
  <1>4. ASSUME NEW r \in Rules, Toggle(r) PROVE Tail3'
    <2>1. next' = 0 => enabled' = {}
      BY <1>1, <1>4, LaterIsTyped DEF Toggle
    <2> QED BY <1>4, <2>1, StillTail DEF Toggle, process
  <1>5. ASSUME NEW w \in Workers, Panic(w) PROVE Tail3'
    <2>1. w \in Lanes  BY DEF Lanes
    <2>2. Ordinary(w)  BY <1>1, <1>5, <2>1, EndOrdinary DEF Panic, EndGroup, target
    <2> QED BY <2>1, <2>2, OrdinaryKeeps
  <1>6. ASSUME NEW c \in Callers, ApiCancelled(c) PROVE Tail3'
    BY <1>6, StillTail DEF ApiCancelled, target, IndInv, BasisInv
  <1>7. ASSUME NEW c \in Callers, NEW chosen \in SUBSET Rules, ApiCreate(c, chosen) PROVE Tail3'
    BY <1>7, StillTail DEF ApiCreate, target, IndInv, BasisInv
  <1>8. ASSUME NEW l \in Lanes, Timeout(l) PROVE Tail3'
    <2>1. /\ Others(l) /\ lane'[l].pc = lane[l].pc /\ lane'[l].rule = lane[l].rule
          /\ lane[l].pc \in {"task", "acquire", "query", "verdict"}
          /\ UNCHANGED <<inflight, group, reserved, next, enabled>>
      BY <1>1, <1>8, LateLane DEF Timeout, target
    <2>2. OneQueryPerRule'
      <3>1. \A m \in Lanes : lane'[m].pc = lane[m].pc /\ lane'[m].rule = lane[m].rule
        BY <2>1 DEF Others
      <3> QED BY <2>1, <3>1, QueryParts, QueryPartsNext DEF IndInv, At
    <2>3. InstanceIsSerial'  BY <2>1, SerialKept DEF IndInv, WorkerGoesOn
    <2>4. BasisInv'  BY <1>1, <2>1, BasisKept DEF IndInv, BasisInv
    <2> QED BY <2>2, <2>3, <2>4 DEF Tail3
  <1>9. ASSUME NEW executions \in SUBSET OpenRows, NEW batches \in SUBSET OpenBatches,
               Restart(executions, batches)
        PROVE  Tail3'
    <2>1. \A l \in Lanes : lane'[l].pc = "idle"
      BY <1>9, IdleIsTyped DEF Restart
    <2>2. inflight' = {} /\ group' = {} /\ reserved' = FALSE /\ UNCHANGED <<next, enabled>>
      BY <1>9 DEF Restart, target
    <2>3. OneQueryPerRule'  BY <2>1, <2>2, QueryPartsNext
    <2>4. InstanceIsSerial'
      <3>1. \A w \in Workers : lane'[w].pc = "idle"  BY <2>1 DEF Lanes
      <3>2. reserved' <=> group' # {} \/ \E w \in Workers : lane'[w].pc # "idle"
        BY <2>2, <3>1, Zenon
      <3> QED BY <2>2, <3>1, <3>2 DEF InstanceIsSerial, At
    <2>5. BasisInv'  BY <2>1, <2>2 DEF IndInv, BasisInv, At
    <2> QED BY <2>3, <2>4, <2>5 DEF Tail3
  <1> QED BY <1>2, <1>3, <1>4, <1>5, <1>6, <1>7, <1>8, <1>9 DEF Environment

LEMMA StepTail ==
    ASSUME IndInv, Good, [Next]_vars
    PROVE  Tail3'
  <1>1. ASSUME NEW c \in Callers, ApiStep(c) PROVE Tail3'
    <2>1. UNCHANGED <<lane, inflight, group, reserved, target>>
      BY <1>1 DEF ApiStep, ApiPlan, ApiEnqueue, ApiAbandonRows, ApiAbandonBatch
    <2> QED BY <2>1, StillTail DEF target, IndInv, BasisInv
  <1>2. CASE UNCHANGED vars
    BY <1>2, StillTail DEF vars, target, process, IndInv, BasisInv
  <1> QED BY <1>1, <1>2, LoopStepTail, WorkerStepTail, EnvironmentTail DEF Next

-----------------------------------------------------------------------------
\* The theorems.

LEMMA InitInv ==
    ASSUME Init
    PROVE  IndInv
  <1>1. \A l \in Lanes : lane[l].pc = "idle" /\ lane[l].b = 0 /\ lane[l].rule = {} /\ lane[l].basis = {}
    BY IdleIsTyped DEF Init
  <1>2. \A c \in Callers : api[c] \in CallerStates /\ api[c].pc = "idle" /\ api[c].b = 0
    <2>1. IdleCaller \in CallerStates /\ IdleCaller.pc = "idle" /\ IdleCaller.b = 0
      BY DEF IdleCaller, CallerStates, CallerPcs
    <2> QED BY <2>1 DEF Init
  <1>3. TypeOK
    <2>1. lane \in [Lanes -> LaneStates]  BY IdleIsTyped DEF Init
    <2>2. api \in [Callers -> CallerStates]  BY <1>2 DEF Init
    <2>3. slot \in [Batches -> [Rules -> 0..cycle]]  BY DEF Init
    <2>4. queue \in Seq(Manual) /\ Len(queue) <= QueueCap  BY CapAssumption DEF Init
    <2>5. cycle \in 0..MaxCycles /\ faults \in 0..MaxFaults /\ edits \in 0..MaxEdits
      BY BoundAssumption DEF Init
    <2>6. next \in 1..MaxCycles + 1 /\ past \subseteq Rules
      BY BoundAssumption DEF Init, Later
    <2>7. next \in 0..MaxCycles + 1  BY <2>6, BoundAssumption
    <2>8. /\ status \in [Batches -> {"none"} \cup Open \cup Closed]
          /\ row \in [Batches -> [Rules -> {"none"} \cup Open \cup Closed]]
          /\ scheduledAt \in [Batches -> Nat] /\ groupDue \in Nat
      BY DEF Init
    <2>9. /\ enabled \subseteq Rules /\ group \subseteq Rules /\ reserved \in BOOLEAN
          /\ inflight \subseteq Rules /\ excused \subseteq Batches
      BY DEF Init
    <2> QED BY <2>1, <2>2, <2>3, <2>4, <2>5, <2>6, <2>7, <2>8, <2>9 DEF TypeOK
  <1>4. Holders
    <2>1. \A l \in Lanes : LaneInv(l)  BY <1>1 DEF LaneInv, Detached, Querying
    <2>2. \A c \in Callers : CallerInv(c)  BY <1>2 DEF CallerInv
    <2>3. QueueInv  BY DEF QueueInv, Init
    <2>4. OwnInv  BY <1>1, <1>2 DEF OwnInv, Init
    <2> QED BY <2>1, <2>2, <2>3, <2>4 DEF Holders
  <1>5. BookInv /\ BornInv
    BY DEF Init, BookInv, BornInv, Done, RowsShut, Open
  <1>6. OneQueryPerRule
    BY <1>1, QueryParts DEF Init, At
  <1>7. InstanceIsSerial
    <2>1. \A w \in Workers : lane[w].pc = "idle"  BY <1>1 DEF Lanes
    <2>2. reserved <=> group # {} \/ \E w \in Workers : lane[w].pc # "idle"
      BY <2>1, Zenon DEF Init
    <2> QED BY <2>1, <2>2 DEF Init, InstanceIsSerial, At
  <1>8. BasisInv
    <2>1. next # 0  BY BoundAssumption DEF Init, Later
    <2> QED BY <1>1, <2>1 DEF BasisInv, At
  <1> QED BY <1>3, <1>4, <1>5, <1>6, <1>7, <1>8 DEF IndInv, Base

LEMMA NextInv ==
    ASSUME IndInv, [Next]_vars
    PROVE  IndInv' /\ Good
  <1>1. Good /\ Base'  BY StepGood DEF IndInv
  <1> QED BY <1>1, StepTail DEF IndInv, Tail3

\* The inductive invariant holds throughout.
THEOREM Invariance == Spec => []IndInv
  BY InitInv, NextInv, PTL DEF Spec

\* The types hold throughout, the queue keeps within its capacity
\* (manualQueueCapacity) and nothing is stamped in the future.
THEOREM TypeCorrectness == Spec => []TypeOK
  <1>1. IndInv => TypeOK  BY DEF IndInv, Base
  <1> QED BY Invariance, <1>1, PTL

\* A check is queried by one lane at a time, whichever of the two lanes planned
\* it, and the in-flight map leaks no entry (acquireInflight, releaseInflight).
THEOREM OneQuery == Spec => []OneQueryPerRule
  <1>1. IndInv => OneQueryPerRule  BY DEF IndInv
  <1> QED BY Invariance, <1>1, PTL

\* The reservation of the instance is held exactly from the moment its group is
\* queued until the one worker that runs it ends, by whatever way it ends
\* (submitScheduledGroup, guardScheduledGroup).
THEOREM OneGroup == Spec => []InstanceIsSerial
  <1>1. IndInv => InstanceIsSerial  BY DEF IndInv
  <1> QED BY Invariance, <1>1, PTL

\* Whatever is left open has somebody to close it, except what a failed cleanup,
\* a panic, a cancelled request or a restart cut off.
THEOREM NothingLeftBehind == Spec => []NothingStranded
  <1>1. IndInv => NothingStranded
    BY DEF IndInv, Base, BookInv, NothingStranded, Done, RowsShut
  <1> QED BY Invariance, <1>1, PTL

\* The schedule never moves on over a check whose run cadence asks for a run in the
\* cycle the runner looked at and that had neither a verdict nor its attempts since
\* that cycle came due (advanceTargetIfCycleComplete, advanceSettledTarget,
\* qualityFrequencyGateSQL).
THEOREM CyclesAreSettled == Spec => NoCycleSkipped
  <1>1. ASSUME IndInv
        PROVE  \A l \in Lanes :
                 At(l, "advance") /\ lane'[l] # lane[l] /\ Due /\ next' # next
                   => \A p \in lane[l].basis : SettledIn(p[1], p[2]) \/ NotYetAgain(p[1], p[2])
    BY <1>1 DEF IndInv, BasisInv, Excused
  <1> QED BY Invariance, <1>1, PTL DEF NoCycleSkipped

\* The tables quality_run and quality_execution behave as QualityBatch promises:
\* the runner's first state is one of its first states, and every step of the
\* lanes, the requests, the users and the restarts is one of its steps or leaves
\* the tables alone.
THEOREM TablesKeepThePromise == Spec => RefinesQualityBatch
  <1>1. Init => Promise!Init  BY DEF Init, Promise!Init
  <1>2. ASSUME IndInv, [Next]_vars PROVE [Promise!Next]_Promise!vars
    BY <1>2, NextInv DEF Good, Allowed, Promise!vars
  <1> QED BY Invariance, <1>1, <1>2, PTL DEF Spec, RefinesQualityBatch, Promise!Spec
=============================================================================
