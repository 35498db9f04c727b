-------------------------- MODULE IssueLedgerProofs --------------------------
(***************************************************************************)
(* Machine-checked proofs about IssueLedger, for every set of lanes and    *)
(* verdicts and every bound.                                               *)
(***************************************************************************)
EXTENDS IssueLedger, FiniteSetTheorems, TLAPS

\* What a lane carries: it is stamped once it runs, and has a verdict once it has
\* queried.
LaneInv(l) ==
    /\ lane[l].pc \in {"acquire", "query", "write", "settle", "apply"} => lane[l].stamp # 0
    /\ lane[l].pc \in {"write", "settle", "apply"} => lane[l].verdict # "none"

\* The partial unique index: no two unresolved issues.
UniqueIndex == \A i, j \in Unresolved : i = j

\* An execution that is alone shares the check with nobody; nor does any, as long
\* as the last verdict is clean.
AloneInv ==
    \A l, m \in Lanes :
      l # m /\ ~At(l, "idle") /\ (lane[l].alone \/ last.clean) => At(m, "idle")

\* While the last verdict is clean, a lane that has not written yet runs a newer
\* execution, and one that settles carries the last verdict.
CleanInv ==
    last.clean =>
      \A l \in Lanes :
        /\ lane[l].pc \in {"acquire", "query", "write"} => lane[l].stamp > last.stamp
        /\ lane[l].pc \in {"settle", "apply"} => /\ lane[l].stamp = last.stamp
                                                 /\ lane[l].verdict = last.status

\* A clean failure has its issue, or the lane that will open it.
FailInv ==
    last.clean /\ last.status = "FAIL" =>
      \/ Unresolved # {}
      \/ \E l \in Lanes : At(l, "settle") \/ (At(l, "apply") /\ lane[l].found = 0)

IndInv ==
    /\ TypeOK /\ (\A l \in Lanes : LaneInv(l)) /\ UniqueIndex
    /\ AloneInv /\ CleanInv /\ FailInv

-----------------------------------------------------------------------------
\* What a step of lane l does to the lanes: it writes the record of l only.
Writes(l) == lane' \in [Lanes -> LaneStates] /\ \A m \in Lanes \ {l} : lane'[m] = lane[m]
Ends(l) == Writes(l) /\ lane'[l] = IdleLane
Moves(l, pc, stamp, verdict, found) ==
    /\ Writes(l) /\ lane'[l].pc = pc /\ lane'[l].alone = lane[l].alone
    /\ lane'[l].stamp = stamp /\ lane'[l].verdict = verdict /\ lane'[l].found = found

\* What the types say of every field.
LEMMA Fields ==
    ASSUME TypeOK
    PROVE  /\ clock \in Nat /\ last.stamp \in Nat /\ last.clean \in BOOLEAN
           /\ last.status \in Statuses \cup {"none"} /\ Len(issue) \in Nat
           /\ \A l \in Lanes : /\ lane[l] \in LaneStates /\ lane[l].stamp \in Nat
                               /\ lane[l].found \in Nat /\ lane[l].alone \in BOOLEAN
                               /\ lane[l].verdict \in Statuses \cup {"none"}
                               /\ lane[l].previous \in Statuses \cup {"none"}
<1>1. clock \in Nat /\ Len(issue) \in Nat
  BY BoundsAssumption DEF TypeOK
<1>2. last.stamp \in Nat /\ last.clean \in BOOLEAN /\ last.status \in Statuses \cup {"none"}
  BY Zenon DEF TypeOK, LastStates
<1>3. ASSUME NEW l \in Lanes
      PROVE  /\ lane[l] \in LaneStates /\ lane[l].stamp \in Nat
             /\ lane[l].found \in Nat /\ lane[l].alone \in BOOLEAN
             /\ lane[l].verdict \in Statuses \cup {"none"}
             /\ lane[l].previous \in Statuses \cup {"none"}
  BY Zenon DEF TypeOK, LaneStates
<1> QED BY <1>1, <1>2, <1>3

LEMMA IdleLaneFields ==
    /\ IdleLane \in LaneStates /\ IdleLane.pc = "idle" /\ IdleLane.stamp = 0
    /\ IdleLane.found = 0 /\ IdleLane.verdict = "none"
<1>1. 0 \in Nat
  OBVIOUS
<1> QED BY <1>1, Zenon DEF IdleLane, LaneStates, LanePcs

LEMMA EndsEffect ==
    ASSUME TypeOK, NEW l \in Lanes, lane' = [lane EXCEPT ![l] = IdleLane]
    PROVE  Ends(l)
BY IdleLaneFields DEF Ends, Writes, TypeOK

\* The forms of a move: every action that advances a lane writes one of them.
LEMMA MovesEffect ==
    ASSUME TypeOK, NEW l \in Lanes, NEW pc \in LanePcs,
           NEW n \in Nat, NEW v \in Statuses \cup {"none"}
    PROVE  /\ lane' = [lane EXCEPT ![l].pc = pc]
                 => Moves(l, pc, lane[l].stamp, lane[l].verdict, lane[l].found)
           /\ lane' = [lane EXCEPT ![l].pc = pc, ![l].stamp = n]
                 => Moves(l, pc, n, lane[l].verdict, lane[l].found)
           /\ lane' = [lane EXCEPT ![l].pc = pc, ![l].verdict = v]
                 => Moves(l, pc, lane[l].stamp, v, lane[l].found)
           /\ lane' = [lane EXCEPT ![l].pc = pc, ![l].found = n]
                 => Moves(l, pc, lane[l].stamp, lane[l].verdict, n)
<1>1. ASSUME NEW r \in LaneStates, lane' = [lane EXCEPT ![l] = r]
      PROVE  Writes(l) /\ lane'[l] = r
  BY <1>1 DEF Writes, TypeOK
<1>2. lane[l] \in LaneStates
  BY Fields
<1>3. ASSUME lane' = [lane EXCEPT ![l].pc = pc]
      PROVE  Moves(l, pc, lane[l].stamp, lane[l].verdict, lane[l].found)
  <2>1. PICK r : r = [lane[l] EXCEPT !.pc = pc]
    OBVIOUS
  <2>2. /\ r \in LaneStates /\ r.pc = pc /\ r.alone = lane[l].alone
        /\ r.stamp = lane[l].stamp /\ r.verdict = lane[l].verdict /\ r.found = lane[l].found
    BY <1>2, <2>1, Zenon DEF LaneStates
  <2>3. lane' = [lane EXCEPT ![l] = r]
    BY <1>3, <2>1 DEF TypeOK
  <2> QED BY <1>1, <2>2, <2>3 DEF Moves
<1>4. ASSUME lane' = [lane EXCEPT ![l].pc = pc, ![l].stamp = n]
      PROVE  Moves(l, pc, n, lane[l].verdict, lane[l].found)
  <2>1. PICK r : r = [lane[l] EXCEPT !.pc = pc, !.stamp = n]
    OBVIOUS
  <2>2. /\ r \in LaneStates /\ r.pc = pc /\ r.alone = lane[l].alone
        /\ r.stamp = n /\ r.verdict = lane[l].verdict /\ r.found = lane[l].found
    BY <1>2, <2>1, Zenon DEF LaneStates
  <2>3. lane' = [lane EXCEPT ![l] = r]
    BY <1>4, <2>1 DEF TypeOK
  <2> QED BY <1>1, <2>2, <2>3 DEF Moves
<1>5. ASSUME lane' = [lane EXCEPT ![l].pc = pc, ![l].verdict = v]
      PROVE  Moves(l, pc, lane[l].stamp, v, lane[l].found)
  <2>1. PICK r : r = [lane[l] EXCEPT !.pc = pc, !.verdict = v]
    OBVIOUS
  <2>2. /\ r \in LaneStates /\ r.pc = pc /\ r.alone = lane[l].alone
        /\ r.stamp = lane[l].stamp /\ r.verdict = v /\ r.found = lane[l].found
    BY <1>2, <2>1, Zenon DEF LaneStates
  <2>3. lane' = [lane EXCEPT ![l] = r]
    BY <1>5, <2>1 DEF TypeOK
  <2> QED BY <1>1, <2>2, <2>3 DEF Moves
<1>6. ASSUME lane' = [lane EXCEPT ![l].pc = pc, ![l].found = n]
      PROVE  Moves(l, pc, lane[l].stamp, lane[l].verdict, n)
  <2>1. PICK r : r = [lane[l] EXCEPT !.pc = pc, !.found = n]
    OBVIOUS
  <2>2. /\ r \in LaneStates /\ r.pc = pc /\ r.alone = lane[l].alone
        /\ r.stamp = lane[l].stamp /\ r.verdict = lane[l].verdict /\ r.found = n
    BY <1>2, <2>1, Zenon DEF LaneStates
  <2>3. lane' = [lane EXCEPT ![l] = r]
    BY <1>6, <2>1 DEF TypeOK
  <2> QED BY <1>1, <2>2, <2>3 DEF Moves
<1> QED BY <1>3, <1>4, <1>5, <1>6

\* Each action of a lane that is not the start of an execution, by its effect.
LEMMA LaneEffect ==
    ASSUME TypeOK, NEW l \in Lanes
    PROVE  /\ MarkRunning(l) => \/ Ends(l) /\ UNCHANGED clock
                               \/ /\ clock < MaxExecutions /\ clock' = clock + 1
                                  /\ Moves(l, "acquire", clock + 1, lane[l].verdict, lane[l].found)
           /\ Acquire(l) => \/ Moves(l, "query", lane[l].stamp, lane[l].verdict, lane[l].found)
                           \/ Moves(l, "write", lane[l].stamp, "SKIPPED", lane[l].found)
           /\ Query(l) => \E v \in Statuses : Moves(l, "write", lane[l].stamp, v, lane[l].found)
           /\ WriteVerdict(l) =>
                \/ Ends(l) /\ UNCHANGED last
                \/ /\ Moves(l, "settle", lane[l].stamp, lane[l].verdict, lane[l].found)
                   /\ last' = IF lane[l].stamp > last.stamp
                              THEN [stamp |-> lane[l].stamp, status |-> lane[l].verdict,
                                    clean |-> lane[l].alone]
                              ELSE last
           /\ ReadIssue(l) =>
                \/ Ends(l) /\ Disturbed(l)
                \/ /\ UNCHANGED last
                   /\ \E i \in Unresolved \cup {0} :
                        /\ (i = 0) = (Unresolved = {})
                        /\ Moves(l, "apply", lane[l].stamp, lane[l].verdict, i)
           /\ Apply(l) => Ends(l)
<1>1. clock + 1 \in Nat /\ {"SKIPPED", "none"} \subseteq Statuses \cup {"none"} /\ Verdicts \subseteq Statuses
  BY Fields, VerdictsAssumption DEF Statuses
<1>2. {"acquire", "query", "write", "settle", "apply"} \subseteq LanePcs
  BY DEF LanePcs
<1>3. \A i \in Unresolved \cup {0} : i \in Nat
  BY Fields DEF Unresolved
<1>4. MarkRunning(l) => \/ Ends(l) /\ UNCHANGED clock
                        \/ /\ clock < MaxExecutions /\ clock' = clock + 1
                           /\ Moves(l, "acquire", clock + 1, lane[l].verdict, lane[l].found)
  BY <1>1, <1>2, EndsEffect, MovesEffect DEF MarkRunning
<1>5. Acquire(l) => \/ Moves(l, "query", lane[l].stamp, lane[l].verdict, lane[l].found)
                    \/ Moves(l, "write", lane[l].stamp, "SKIPPED", lane[l].found)
  BY <1>1, <1>2, MovesEffect DEF Acquire
<1>6. Query(l) => \E v \in Statuses : Moves(l, "write", lane[l].stamp, v, lane[l].found)
  BY <1>1, <1>2, MovesEffect DEF Query
<1>7. WriteVerdict(l) =>
        \/ Ends(l) /\ UNCHANGED last
        \/ /\ Moves(l, "settle", lane[l].stamp, lane[l].verdict, lane[l].found)
           /\ last' = IF lane[l].stamp > last.stamp
                      THEN [stamp |-> lane[l].stamp, status |-> lane[l].verdict,
                            clean |-> lane[l].alone]
                      ELSE last
  BY <1>2, EndsEffect, MovesEffect DEF WriteVerdict
<1>8. ReadIssue(l) =>
        \/ Ends(l) /\ Disturbed(l)
        \/ /\ UNCHANGED last
           /\ \E i \in Unresolved \cup {0} :
                /\ (i = 0) = (Unresolved = {})
                /\ Moves(l, "apply", lane[l].stamp, lane[l].verdict, i)
  BY <1>2, <1>3, EndsEffect, MovesEffect DEF ReadIssue
<1>9. Apply(l) => Ends(l)
  BY EndsEffect DEF Apply
<1> QED BY <1>4, <1>5, <1>6, <1>7, <1>8, <1>9

\* The start of an execution, and what a user or a restart does to the lanes: the
\* others stay where they are, at most no longer alone.
StartsLane(l) ==
    /\ lane' \in [Lanes -> LaneStates]
    /\ lane'[l].pc = "mark" /\ lane'[l].stamp = 0 /\ lane'[l].found = 0
    /\ lane'[l].verdict = "none" /\ (lane'[l].alone => Quiet)
    /\ \A m \in Lanes \ {l} :
         /\ lane'[m].pc = lane[m].pc /\ lane'[m].stamp = lane[m].stamp
         /\ lane'[m].found = lane[m].found /\ lane'[m].verdict = lane[m].verdict
         /\ ~lane'[m].alone

LEMMA StartEffect ==
    ASSUME TypeOK, NEW l \in Lanes, ReadPrevious(l)
    PROVE  StartsLane(l)
<1>1. PICK known \in BOOLEAN :
         lane' = [m \in Lanes |->
              IF m = l THEN [IdleLane EXCEPT !.pc = "mark",
                                !.previous = IF known THEN last.status ELSE "none",
                                !.alone = known /\ Quiet]
              ELSE [lane[m] EXCEPT !.alone = FALSE]]
  BY DEF ReadPrevious
<1>2. PICK p, q : /\ p = IF known THEN last.status ELSE "none"
                  /\ q = (known /\ Quiet)
  OBVIOUS
<1>3. p \in Statuses \cup {"none"} /\ q \in BOOLEAN /\ (q => Quiet) /\ 0 \in Nat /\ "mark" \in LanePcs
  BY <1>2, Fields DEF LanePcs
<1>4. lane'[l] = [IdleLane EXCEPT !.pc = "mark", !.previous = p, !.alone = q]
  BY <1>1, <1>2
<1>5. /\ lane'[l] \in LaneStates /\ lane'[l].pc = "mark" /\ lane'[l].stamp = 0
      /\ lane'[l].found = 0 /\ lane'[l].verdict = "none" /\ lane'[l].alone = q
  BY <1>3, <1>4, Zenon DEF IdleLane, LaneStates
<1>6. ASSUME NEW m \in Lanes \ {l}
      PROVE  /\ lane'[m] \in LaneStates
             /\ lane'[m].pc = lane[m].pc /\ lane'[m].stamp = lane[m].stamp
             /\ lane'[m].found = lane[m].found /\ lane'[m].verdict = lane[m].verdict
             /\ ~lane'[m].alone
  <2>1. lane'[m] = [lane[m] EXCEPT !.alone = FALSE]
    BY <1>1
  <2>2. lane[m] \in LaneStates
    BY Fields
  <2> QED BY <2>1, <2>2, Zenon DEF LaneStates
<1>7. lane' \in [Lanes -> LaneStates]
  BY <1>1, <1>5, <1>6
<1> QED BY <1>3, <1>5, <1>6, <1>7 DEF StartsLane

LEMMA ResolveByUserEffect ==
    ASSUME TypeOK, NEW i, ResolveByUser(i)
    PROVE  /\ lane' \in [Lanes -> LaneStates]
           /\ \A m \in Lanes : /\ lane'[m].pc = lane[m].pc /\ lane'[m].stamp = lane[m].stamp
                               /\ lane'[m].found = lane[m].found /\ lane'[m].verdict = lane[m].verdict
                               /\ ~lane'[m].alone
<1>1. ASSUME NEW m \in Lanes
      PROVE  /\ lane'[m] \in LaneStates
             /\ lane'[m].pc = lane[m].pc /\ lane'[m].stamp = lane[m].stamp
             /\ lane'[m].found = lane[m].found /\ lane'[m].verdict = lane[m].verdict
             /\ ~lane'[m].alone
  <2>1. lane'[m] = [lane[m] EXCEPT !.alone = FALSE]
    BY DEF ResolveByUser
  <2>2. lane[m] \in LaneStates
    BY Fields
  <2> QED BY <2>1, <2>2, Zenon DEF LaneStates
<1>2. lane' \in [Lanes -> LaneStates]
  BY <1>1 DEF ResolveByUser
<1> QED BY <1>1, <1>2

-----------------------------------------------------------------------------
\* What a step does to the ledger: nothing, a new issue where there was no
\* unresolved one, another date on an unresolved issue, or another status.
Opens(seen) ==
    Unresolved = {} /\ issue' = Append(issue, [status |-> "OPEN", seen |-> seen])
Touches(i, seen) == i \in Unresolved /\ issue' = [issue EXCEPT ![i].seen = seen]
Sets(i, st) == i \in 1..Len(issue) /\ issue' = [issue EXCEPT ![i].status = st]

IssueStatuses == {"OPEN", "ACKNOWLEDGED", "RESOLVED", "deleted"}

LEMMA OpensEffect ==
    ASSUME TypeOK, NEW seen \in Nat, Opens(seen)
    PROVE  /\ issue' \in Seq(Issues) /\ Len(issue') = Len(issue) + 1
           /\ \A j \in 1..Len(issue) : issue'[j] = issue[j]
           /\ issue'[Len(issue) + 1].status = "OPEN" /\ issue'[Len(issue) + 1].seen = seen
           /\ Unresolved' = {Len(issue) + 1}
<1>1. [status |-> "OPEN", seen |-> seen] \in Issues
  BY DEF Issues
<1>2. /\ issue' \in Seq(Issues) /\ Len(issue') = Len(issue) + 1
      /\ \A j \in 1..Len(issue) : issue'[j] = issue[j]
      /\ issue'[Len(issue) + 1] = [status |-> "OPEN", seen |-> seen]
  BY <1>1 DEF Opens, TypeOK
<1>3. \A j \in 1..Len(issue) : j \notin Unresolved'
  BY <1>2 DEF Opens, Unresolved
<1>4. Unresolved' = {Len(issue) + 1}
  BY <1>2, <1>3, Fields DEF Unresolved
<1> QED BY <1>2, <1>4

LEMMA TouchesEffect ==
    ASSUME TypeOK, NEW i, NEW seen \in Nat, Touches(i, seen)
    PROVE  /\ issue' \in Seq(Issues) /\ Len(issue') = Len(issue)
           /\ \A j \in 1..Len(issue) : j # i => issue'[j] = issue[j]
           /\ issue'[i].seen = seen /\ Unresolved' = Unresolved
<1>0. i \in 1..Len(issue) /\ issue \in Seq(Issues)
  BY DEF Touches, Unresolved, TypeOK
<1>1. PICK r : r = [issue[i] EXCEPT !.seen = seen]
  OBVIOUS
<1>2. issue[i] \in Issues
  BY <1>0
<1>3. r \in Issues /\ r.seen = seen /\ r.status = issue[i].status
  BY <1>1, <1>2, Zenon DEF Issues
<1>4. issue' = [issue EXCEPT ![i] = r]
  BY <1>0, <1>1 DEF Touches
<1>5. /\ issue' \in Seq(Issues) /\ Len(issue') = Len(issue)
      /\ \A j \in 1..Len(issue) : j # i => issue'[j] = issue[j]
      /\ issue'[i] = r
  BY <1>0, <1>3, <1>4
<1>6. \A j \in 1..Len(issue) : issue'[j].status = issue[j].status
  BY <1>3, <1>5
<1> QED BY <1>3, <1>5, <1>6 DEF Unresolved

LEMMA SetsEffect ==
    ASSUME TypeOK, NEW i, NEW st \in IssueStatuses, Sets(i, st)
    PROVE  /\ issue' \in Seq(Issues) /\ Len(issue') = Len(issue)
           /\ \A j \in 1..Len(issue) : j # i => issue'[j] = issue[j]
           /\ issue'[i] = [issue[i] EXCEPT !.status = st]
           /\ issue'[i].status = st /\ issue'[i].seen = issue[i].seen
           /\ \A j \in 1..Len(issue) : j # i => (j \in Unresolved' <=> j \in Unresolved)
           /\ i \in Unresolved' <=> st \in {"OPEN", "ACKNOWLEDGED"}
<1>0. i \in 1..Len(issue) /\ issue \in Seq(Issues)
  BY DEF Sets, TypeOK
<1>1. PICK r : r = [issue[i] EXCEPT !.status = st]
  OBVIOUS
<1>2. issue[i] \in Issues
  BY <1>0
<1>3. r \in Issues /\ r.seen = issue[i].seen /\ r.status = st
  BY <1>1, <1>2, Zenon DEF Issues, IssueStatuses
<1>4. issue' = [issue EXCEPT ![i] = r]
  BY <1>0, <1>1 DEF Sets
<1>5. /\ issue' \in Seq(Issues) /\ Len(issue') = Len(issue)
      /\ \A j \in 1..Len(issue) : j # i => issue'[j] = issue[j]
      /\ issue'[i] = r
  BY <1>0, <1>3, <1>4
<1> QED BY <1>0, <1>1, <1>3, <1>5 DEF Unresolved

\* A resolution takes an issue out of the unresolved ones; an acknowledgement and
\* the retention leave them as they are.
LEMMA ResolvesEffect ==
    ASSUME TypeOK, NEW i, Sets(i, "RESOLVED")
    PROVE  Unresolved' \subseteq Unresolved
<1>1. "RESOLVED" \in IssueStatuses /\ "RESOLVED" \notin {"OPEN", "ACKNOWLEDGED"}
  BY DEF IssueStatuses
<1>2. Len(issue') = Len(issue) /\ i \notin Unresolved'
      /\ \A j \in 1..Len(issue) : j # i => (j \in Unresolved' <=> j \in Unresolved)
  BY <1>1, SetsEffect
<1>3. Unresolved' \subseteq 1..Len(issue)
  BY <1>2 DEF Unresolved
<1> QED BY <1>2, <1>3

LEMMA UserEffect ==
    ASSUME TypeOK, NEW i \in 1..Len(issue), Acknowledge(i) \/ ResolveByUser(i) \/ Prune(i)
    PROVE  /\ Unresolved' \subseteq Unresolved
           /\ ~ResolveByUser(i) => Unresolved' = Unresolved
<1>1. CASE ResolveByUser(i)
  BY <1>1, ResolvesEffect DEF ResolveByUser, ResolveIssue, Sets
<1>2. CASE Acknowledge(i)
  <2>1. Sets(i, "ACKNOWLEDGED") /\ "ACKNOWLEDGED" \in IssueStatuses /\ i \in Unresolved
    BY <1>2 DEF Acknowledge, Sets, IssueStatuses, Unresolved
  <2>2. Len(issue') = Len(issue) /\ i \in Unresolved'
        /\ \A j \in 1..Len(issue) : j # i => (j \in Unresolved' <=> j \in Unresolved)
    BY <2>1, SetsEffect
  <2>3. Unresolved' \subseteq 1..Len(issue) /\ Unresolved \subseteq 1..Len(issue)
    BY <2>2 DEF Unresolved
  <2>4. \A j : j \in Unresolved' <=> j \in Unresolved
    BY <2>1, <2>2, <2>3
  <2> QED BY <2>4, Zenon
<1>3. CASE Prune(i)
  <2>1. Sets(i, "deleted") /\ "deleted" \in IssueStatuses /\ i \notin Unresolved
    BY <1>3 DEF Prune, Sets, IssueStatuses, Unresolved
  <2>2. Len(issue') = Len(issue) /\ i \notin Unresolved'
        /\ \A j \in 1..Len(issue) : j # i => (j \in Unresolved' <=> j \in Unresolved)
    BY <2>1, SetsEffect
  <2>3. Unresolved' \subseteq 1..Len(issue) /\ Unresolved \subseteq 1..Len(issue)
    BY <2>2 DEF Unresolved
  <2>4. \A j : j \in Unresolved' <=> j \in Unresolved
    BY <2>1, <2>2, <2>3
  <2> QED BY <2>4, Zenon
<1> QED BY <1>1, <1>2, <1>3

\* The settlement of a verdict, by its effect on the ledger.  Only PlanIssueTransition
\* decides which, from the status before, the verdict, and the issue that was read.
LEMMA ApplyEffect ==
    ASSUME IndInv, NEW l \in Lanes, Apply(l)
    PROVE  \/ /\ UNCHANGED <<issue, last>>
              /\ lane[l].verdict = "FAIL" /\ lane[l].found = 0 => Unresolved # {}
           \/ UNCHANGED issue /\ Disturbed(l)
           \/ UNCHANGED last /\ Opens(lane[l].stamp)
           \/ UNCHANGED last /\ Touches(lane[l].found, lane[l].stamp)
           \/ /\ UNCHANGED last /\ lane[l].found \in Unresolved
              /\ Sets(lane[l].found, "RESOLVED") /\ lane[l].verdict = "PASS"
<1>1. CASE UNCHANGED issue /\ Disturbed(l)
  BY <1>1
<1>2. CASE UNCHANGED last /\ Action(l) = "open" /\ OpenIssue(l)
  BY <1>2 DEF OpenIssue, Opens
<1>3. CASE UNCHANGED last /\ Action(l) = "touch" /\ TouchIssue(l)
  <2>1. lane[l].verdict = "FAIL" => lane[l].found # 0
    BY <1>3 DEF Action, PlanIssueTransition
  <2> QED BY <1>3, <2>1 DEF TouchIssue, Touches
<1>4. CASE UNCHANGED last /\ Action(l) = "resolve" /\ ResolveIssue(lane[l].found)
  <2>1. lane[l].verdict = "PASS"
    BY <1>4 DEF Action, PlanIssueTransition
  <2> QED BY <1>4, <2>1 DEF ResolveIssue, Sets, Unresolved
<1>5. CASE UNCHANGED <<last, issue>> /\ Action(l) \notin {"open", "touch", "resolve"}
  <2>1. lane[l].verdict # "FAIL"
    BY <1>5 DEF Action, PlanIssueTransition
  <2> QED BY <1>5, <2>1
<1> QED
  BY <1>1, <1>2, <1>3, <1>4, <1>5 DEF Apply

-----------------------------------------------------------------------------
\* The types, in the parts that the actions disturb.
LastOK ==
    last \in LastStates /\ last.stamp <= clock /\ (last.stamp = 0) = (last.status = "none")
LanesOK ==
    /\ lane \in [Lanes -> LaneStates]
    /\ \A l \in Lanes : lane[l].stamp <= clock /\ lane[l].found <= Len(issue)
IssuesOK ==
    issue \in Seq(Issues) /\ \A i \in 1..Len(issue) : issue[i].seen \in 1..clock
CountersOK ==
    /\ clock \in 0..MaxExecutions /\ inflight \in BOOLEAN
    /\ faults \in 0..MaxFaults /\ users \in 0..MaxUser

LEMMA TypeParts == TypeOK <=> LastOK /\ LanesOK /\ IssuesOK /\ CountersOK
BY DEF TypeOK, LastOK, LanesOK, IssuesOK, CountersOK

LEMMA TypePartsNext == LastOK' /\ LanesOK' /\ IssuesOK' /\ CountersOK' => TypeOK'
BY DEF TypeOK, LastOK, LanesOK, IssuesOK, CountersOK

\* The last verdict stays, or is no longer clean.
Soils == last' = last \/ last' = [last EXCEPT !.clean = FALSE]

LEMMA SoilsEffect ==
    ASSUME TypeOK, Soils
    PROVE  /\ last' \in LastStates /\ last'.stamp = last.stamp /\ last'.status = last.status
           /\ last'.clean => last' = last
<1>1. last \in LastStates
  BY DEF TypeOK
<1> QED BY <1>1, Zenon DEF Soils, LastStates

LEMMA LastKept ==
    ASSUME TypeOK, Soils, clock' \in Nat, clock <= clock'
    PROVE  LastOK'
BY SoilsEffect, Fields DEF LastOK, TypeOK

\* Lanes that end, or move without a new stamp or issue.
LEMMA LanesKept ==
    ASSUME TypeOK, clock' = clock, Len(issue') \in Nat, Len(issue) <= Len(issue'),
           lane' \in [Lanes -> LaneStates],
           \A l \in Lanes : /\ lane'[l].stamp = 0 \/ lane'[l].stamp = lane[l].stamp
                            /\ lane'[l].found = 0 \/ lane'[l].found = lane[l].found
    PROVE  LanesOK'
<1>1. ASSUME NEW l \in Lanes PROVE lane'[l].stamp <= clock' /\ lane'[l].found <= Len(issue')
  <2>1. /\ lane[l].stamp <= clock /\ lane[l].found <= Len(issue) /\ lane[l].stamp \in Nat
        /\ lane[l].found \in Nat /\ clock \in Nat /\ Len(issue) \in Nat
    BY Fields DEF TypeOK
  <2> QED BY <2>1
<1> QED BY <1>1 DEF LanesOK

LEMMA EndsLanesOK ==
    ASSUME TypeOK, NEW l \in Lanes, Ends(l), clock' = clock,
           Len(issue') \in Nat, Len(issue) <= Len(issue')
    PROVE  LanesOK'
<1>1. \A m \in Lanes : lane'[m] = lane[m] \/ lane'[m] = IdleLane
  BY DEF Ends, Writes
<1>2. lane' \in [Lanes -> LaneStates]
  BY DEF Ends, Writes
<1> QED BY <1>1, <1>2, LanesKept, IdleLaneFields

LEMMA MovesLanesOK ==
    ASSUME TypeOK, NEW l \in Lanes, NEW pc, NEW stamp \in Nat, NEW v, NEW found \in Nat,
           Moves(l, pc, stamp, v, found), clock' \in Nat, clock <= clock', UNCHANGED issue,
           stamp <= clock', found <= Len(issue)
    PROVE  LanesOK'
<1>1. lane' \in [Lanes -> LaneStates] /\ \A m \in Lanes \ {l} : lane'[m] = lane[m]
  BY DEF Moves, Writes
<1>2. lane'[l].stamp = stamp /\ lane'[l].found = found
  BY DEF Moves
<1>3. \A m \in Lanes : lane'[m].stamp <= clock' /\ lane'[m].found <= Len(issue')
  <2> SUFFICES ASSUME NEW m \in Lanes
               PROVE  lane'[m].stamp <= clock' /\ lane'[m].found <= Len(issue')
    OBVIOUS
  <2>1. /\ lane[m].stamp <= clock /\ lane[m].found <= Len(issue)
        /\ lane[m].stamp \in Nat /\ lane[m].found \in Nat /\ clock \in Nat
    BY Fields DEF TypeOK
  <2>2. CASE m = l
    BY <1>2, <2>2
  <2>3. CASE m # l
    BY <1>1, <2>1, <2>3
  <2> QED BY <2>2, <2>3
<1> QED BY <1>1, <1>3 DEF LanesOK

\* Every step keeps the types.
LEMMA TypeStep == IndInv /\ [Next]_vars => TypeOK'
<1> SUFFICES ASSUME IndInv, TypeOK, [Next]_vars PROVE TypeOK'
  BY DEF IndInv
<1>0. LastOK /\ LanesOK /\ IssuesOK /\ CountersOK
  BY TypeParts
<1> USE BoundsAssumption
<1>1. ASSUME NEW l \in Lanes, ReadPrevious(l) PROVE TypeOK'
  <2>1. Soils /\ UNCHANGED <<clock, inflight, issue, users>> /\ clock \in Nat
    BY <1>1, Fields DEF ReadPrevious, Soils
  <2>2. LanesOK'
    <3>1. StartsLane(l)
      BY <1>1, StartEffect
    <3> QED BY <2>1, <3>1, LanesKept, Fields DEF StartsLane
  <2>3. CountersOK' /\ IssuesOK'
    BY <1>0, <1>1, <2>1 DEF ReadPrevious, Fault, NoFault, CountersOK, IssuesOK
  <2> QED BY <2>1, <2>2, <2>3, LastKept, TypePartsNext
<1>2. ASSUME NEW l \in Lanes, MarkRunning(l) PROVE TypeOK'
  <2>1. UNCHANGED <<last, inflight, issue, users>> /\ CountersOK'
    BY <1>0, <1>2 DEF MarkRunning, Fault, NoFault, CountersOK
  <2>2. clock' \in Nat /\ clock <= clock'
    BY <1>0, <1>2 DEF MarkRunning, CountersOK
  <2>3. LanesOK'
    BY <1>2, <2>1, <2>2, LaneEffect, EndsLanesOK, MovesLanesOK, Fields DEF TypeOK
  <2>4. IssuesOK'
    BY <1>0, <2>1, <2>2, Fields DEF IssuesOK
  <2> QED BY <2>1, <2>2, <2>3, <2>4, LastKept, TypePartsNext DEF Soils
<1>3. ASSUME NEW l \in Lanes, Acquire(l) \/ Query(l) PROVE TypeOK'
  <2>1. UNCHANGED <<last, clock, issue, faults, users>> /\ inflight' \in BOOLEAN
    BY <1>0, <1>3 DEF Acquire, Query, CountersOK
  <2>2. PICK pc, v : Moves(l, pc, lane[l].stamp, v, lane[l].found)
    BY <1>3, LaneEffect
  <2>3. LanesOK'
    BY <2>1, <2>2, MovesLanesOK, Fields DEF TypeOK
  <2> QED BY <1>0, <2>1, <2>3, TypePartsNext DEF LastOK, IssuesOK, CountersOK
<1>4. ASSUME NEW l \in Lanes, WriteVerdict(l) PROVE TypeOK'
  <2>1. UNCHANGED <<clock, inflight, issue, users>> /\ CountersOK' /\ IssuesOK'
    BY <1>0, <1>4 DEF WriteVerdict, Fault, NoFault, CountersOK, IssuesOK
  <2>2. LanesOK'
    BY <1>4, <2>1, LaneEffect, EndsLanesOK, MovesLanesOK, Fields DEF TypeOK
  <2>3. LastOK'
    <3>1. CASE UNCHANGED last
      BY <1>0, <2>1, <3>1 DEF LastOK
    <3>2. CASE last' = [stamp |-> lane[l].stamp, status |-> lane[l].verdict, clean |-> lane[l].alone]
      <4>1. lane[l].stamp # 0 /\ lane[l].verdict # "none"
        BY <1>4 DEF WriteVerdict, At, IndInv, LaneInv
      <4>2. last' \in LastStates
        BY <3>2, Fields, Zenon DEF LastStates
      <4>3. last'.stamp = lane[l].stamp /\ last'.status = lane[l].verdict
        BY <3>2
      <4> QED BY <2>1, <4>1, <4>2, <4>3 DEF LastOK, TypeOK
    <3> QED BY <1>4, <3>1, <3>2 DEF WriteVerdict
  <2> QED BY <2>1, <2>2, <2>3, TypePartsNext
<1>5. ASSUME NEW l \in Lanes, ReadIssue(l) PROVE TypeOK'
  <2>1. UNCHANGED <<clock, inflight, issue, users>> /\ CountersOK' /\ IssuesOK' /\ Soils
    BY <1>0, <1>5 DEF ReadIssue, Fault, NoFault, CountersOK, IssuesOK, Disturbed, Soils
  <2>2. LanesOK'
    <3>1. \A i \in Unresolved \cup {0} : i \in Nat /\ i <= Len(issue)
      BY Fields DEF Unresolved
    <3> QED BY <1>5, <2>1, <3>1, LaneEffect, EndsLanesOK, MovesLanesOK, Fields DEF TypeOK
  <2> QED BY <2>1, <2>2, LastKept, Fields, TypePartsNext
<1>6. ASSUME NEW l \in Lanes, Apply(l) PROVE TypeOK'
  <2>1. UNCHANGED <<clock, inflight, users>> /\ CountersOK' /\ Soils
    BY <1>0, <1>6 DEF Apply, Fault, NoFault, CountersOK, Disturbed, Soils
  <2>2. lane[l].stamp \in Nat /\ lane[l].stamp \in 1..clock
    BY <1>6, Fields DEF Apply, At, IndInv, LaneInv, TypeOK
  <2>3. Ends(l)
    BY <1>6, LaneEffect
  <2>4. Len(issue') \in Nat /\ Len(issue) <= Len(issue') /\ IssuesOK'
    <3>1. CASE UNCHANGED issue
      BY <1>0, <2>1, <3>1, Fields DEF IssuesOK
    <3>2. CASE Opens(lane[l].stamp)
      BY <1>0, <2>1, <2>2, <3>2, OpensEffect, Fields, SMTT(30) DEF IssuesOK
    <3>3. CASE Touches(lane[l].found, lane[l].stamp)
      BY <1>0, <2>1, <2>2, <3>3, TouchesEffect, Fields DEF IssuesOK
    <3>4. CASE Sets(lane[l].found, "RESOLVED")
      <4>1. "RESOLVED" \in IssueStatuses
        BY DEF IssueStatuses
      <4>2. /\ issue' \in Seq(Issues) /\ Len(issue') = Len(issue)
            /\ \A j \in 1..Len(issue) : j # lane[l].found => issue'[j] = issue[j]
            /\ issue'[lane[l].found].seen = issue[lane[l].found].seen
        BY <3>4, <4>1, SetsEffect
      <4>3. \A j \in 1..Len(issue) : issue'[j].seen = issue[j].seen
        BY <4>2
      <4> QED BY <1>0, <2>1, <4>2, <4>3, Fields DEF IssuesOK
    <3> QED BY <1>6, <3>1, <3>2, <3>3, <3>4, ApplyEffect
  <2>5. LanesOK'
    BY <2>1, <2>3, <2>4, EndsLanesOK
  <2> QED BY <2>1, <2>4, <2>5, LastKept, Fields, TypePartsNext
<1>7. ASSUME NEW i \in 1..Len(issue), Acknowledge(i) \/ ResolveByUser(i) \/ Prune(i) PROVE TypeOK'
  <2>1. PICK st \in IssueStatuses : Sets(i, st)
    BY <1>7 DEF Acknowledge, ResolveByUser, ResolveIssue, Prune, Sets, IssueStatuses
  <2>2. UNCHANGED <<clock, inflight, faults>> /\ CountersOK' /\ Soils
    BY <1>0, <1>7 DEF Acknowledge, ResolveByUser, Prune, User, CountersOK, Soils
  <2>3. Len(issue') = Len(issue) /\ IssuesOK'
    BY <1>0, <2>1, <2>2, SetsEffect, Fields DEF IssuesOK
  <2>4. LanesOK'
    <3>1. CASE UNCHANGED lane
      BY <1>0, <2>2, <2>3, <3>1 DEF LanesOK
    <3>2. CASE ResolveByUser(i)
      BY <2>2, <2>3, <3>2, ResolveByUserEffect, LanesKept, Fields
    <3> QED BY <1>7, <3>1, <3>2 DEF Acknowledge, Prune
  <2> QED BY <2>2, <2>3, <2>4, LastKept, Fields, TypePartsNext
<1>8. CASE Restart
  <2>1. UNCHANGED <<clock, issue, users>> /\ CountersOK' /\ IssuesOK' /\ Soils
    <3>1. inflight' \in BOOLEAN /\ Soils /\ UNCHANGED <<clock, issue, users>>
      BY <1>8, Zenon DEF Restart, Soils
    <3> QED BY <1>0, <1>8, <3>1 DEF Restart, Fault, CountersOK, IssuesOK
  <2>2. lane' \in [Lanes -> LaneStates] /\ \A l \in Lanes : lane'[l] = IdleLane
    BY <1>8, IdleLaneFields DEF Restart
  <2>3. LanesOK'
    BY <2>1, <2>2, IdleLaneFields, LanesKept, Fields
  <2> QED BY <2>1, <2>3, LastKept, Fields, TypePartsNext
<1>9. CASE UNCHANGED vars
  BY <1>9 DEF vars, TypeOK
<1> QED
  BY <1>1, <1>2, <1>3, <1>4, <1>5, <1>6, <1>7, <1>8, <1>9 DEF Next

-----------------------------------------------------------------------------
\* Every step keeps what the lanes carry.
LEMMA LaneStep ==
    ASSUME IndInv, [Next]_vars, NEW m \in Lanes PROVE LaneInv(m)'
<1>0. TypeOK /\ LaneInv(m) /\ lane[m].stamp \in Nat /\ clock \in Nat
  BY Fields DEF IndInv
<1>1. CASE lane'[m] = lane[m] \/ lane'[m] = IdleLane
  BY <1>0, <1>1, IdleLaneFields DEF LaneInv
<1>2. ASSUME NEW l \in Lanes, ReadPrevious(l) PROVE LaneInv(m)'
  BY <1>0, <1>2, StartEffect DEF StartsLane, LaneInv
<1>3. ASSUME NEW l \in Lanes, NEW pc, NEW stamp, NEW v, NEW found,
             Moves(l, pc, stamp, v, found), l # m
      PROVE  LaneInv(m)'
  BY <1>1, <1>3 DEF Moves, Writes
<1>4. ASSUME NEW l \in Lanes, Ends(l) PROVE LaneInv(m)'
  BY <1>1, <1>4 DEF Ends, Writes
<1>5. CASE MarkRunning(m)
  BY <1>0, <1>4, <1>5, LaneEffect DEF Moves, LaneInv
<1>6. CASE Acquire(m)
  BY <1>0, <1>6, LaneEffect DEF Moves, LaneInv, Acquire, At
<1>7. CASE Query(m)
  <2>1. PICK v \in Statuses : Moves(m, "write", lane[m].stamp, v, lane[m].found)
    BY <1>0, <1>7, LaneEffect
  <2>2. v # "none"
    BY DEF Statuses
  <2> QED BY <1>0, <1>7, <2>1, <2>2 DEF Moves, LaneInv, Query, At
<1>8. CASE WriteVerdict(m)
  BY <1>0, <1>4, <1>8, LaneEffect DEF Moves, LaneInv, WriteVerdict, At
<1>9. CASE ReadIssue(m)
  BY <1>0, <1>4, <1>9, LaneEffect DEF Moves, LaneInv, ReadIssue, At
<1>10. ASSUME NEW l \in Lanes, l # m,
              MarkRunning(l) \/ Acquire(l) \/ Query(l) \/ WriteVerdict(l) \/ ReadIssue(l)
       PROVE LaneInv(m)'
  BY <1>0, <1>3, <1>4, <1>10, LaneEffect
<1>11. ASSUME NEW l \in Lanes, Apply(l) PROVE LaneInv(m)'
  BY <1>0, <1>4, <1>11, LaneEffect
<1>12. ASSUME NEW i, ResolveByUser(i) PROVE LaneInv(m)'
  BY <1>0, <1>12, ResolveByUserEffect DEF LaneInv
<1>13. CASE Restart
  BY <1>1, <1>13 DEF Restart
<1> QED
  BY <1>1, <1>2, <1>5, <1>6, <1>7, <1>8, <1>9, <1>10, <1>11, <1>12, <1>13
     DEF Next, Acknowledge, Prune, vars

\* Every step keeps the index: an issue is only opened where there is none.
LEMMA UniqueStep == IndInv /\ [Next]_vars => UniqueIndex'
<1> SUFFICES ASSUME IndInv, TypeOK, UniqueIndex, [Next]_vars PROVE UniqueIndex'
  BY DEF IndInv
<1>0. \A l \in Lanes : lane[l].stamp \in Nat
  BY Fields
<1>1. CASE UNCHANGED issue
  BY <1>1 DEF UniqueIndex, Unresolved
<1>2. ASSUME NEW l \in Lanes, Apply(l) PROVE UniqueIndex'
  <2>1. CASE Opens(lane[l].stamp)
    BY <1>0, <2>1, OpensEffect DEF UniqueIndex
  <2>2. CASE Touches(lane[l].found, lane[l].stamp)
    BY <1>0, <2>2, TouchesEffect DEF UniqueIndex
  <2>3. CASE Sets(lane[l].found, "RESOLVED")
    <3>1. Unresolved' \subseteq Unresolved
      BY <2>3, ResolvesEffect
    <3> QED BY <3>1 DEF UniqueIndex
  <2> QED BY <1>1, <1>2, <2>1, <2>2, <2>3, ApplyEffect
<1>3. ASSUME NEW i \in 1..Len(issue), Acknowledge(i) \/ ResolveByUser(i) \/ Prune(i)
      PROVE  UniqueIndex'
  <2>1. Unresolved' \subseteq Unresolved
    BY <1>3, UserEffect
  <2> QED BY <2>1 DEF UniqueIndex
<1> QED
  BY <1>1, <1>2, <1>3 DEF Next, ReadPrevious, MarkRunning, Acquire, Query, WriteVerdict, ReadIssue,
                          Restart, vars

\* Every step keeps an execution that is alone apart from the others.
LEMMA AloneStep == IndInv /\ [Next]_vars => AloneInv'
<1> SUFFICES ASSUME IndInv, TypeOK, AloneInv, [Next]_vars,
                    NEW l \in Lanes, NEW m \in Lanes, l # m, ~At(l, "idle")',
                    (lane[l].alone \/ last.clean)'
             PROVE  At(m, "idle")'
  BY DEF IndInv, AloneInv
<1>0. (lane[l].alone \/ last.clean) /\ ~At(l, "idle") => At(m, "idle")
  BY DEF AloneInv
<1>1. CASE UNCHANGED lane /\ Soils
  BY <1>0, <1>1, SoilsEffect DEF At
<1>2. ASSUME NEW k \in Lanes, ReadPrevious(k) PROVE At(m, "idle")'
  <2>1. StartsLane(k) /\ (last'.clean => Quiet)
    <3>1. ~Quiet => last' = [last EXCEPT !.clean = FALSE]
      BY <1>2 DEF ReadPrevious
    <3>2. ~Quiet => ~last'.clean
      BY <3>1, Zenon DEF TypeOK, LastStates
    <3> QED BY <1>2, <3>2, StartEffect
  <2>2. Quiet
    <3>1. CASE l = k
      BY <2>1, <3>1 DEF StartsLane
    <3>2. CASE l # k
      BY <2>1, <3>2 DEF StartsLane
    <3> QED BY <3>1, <3>2
  <2>3. l = k
    BY <2>1, <2>2 DEF StartsLane, Quiet, At
  <2> QED BY <2>1, <2>2, <2>3 DEF StartsLane, Quiet, At
<1>3. ASSUME NEW k \in Lanes, Ends(k), Soils PROVE At(m, "idle")'
  <2>1. last'.clean => last.clean
    BY <1>3, SoilsEffect
  <2>2. l # k /\ lane'[l] = lane[l]
    BY <1>3, IdleLaneFields DEF Ends, Writes, At
  <2>3. At(m, "idle")
    BY <1>0, <2>1, <2>2 DEF At
  <2> QED BY <1>3, <2>3, IdleLaneFields DEF Ends, Writes, At
<1>4. ASSUME NEW k \in Lanes, NEW pc, NEW stamp, NEW v, NEW found, Moves(k, pc, stamp, v, found),
             ~At(k, "idle"), Soils
      PROVE  At(m, "idle")'
  <2>1. last'.clean => last.clean
    BY <1>4, SoilsEffect
  <2>2. lane'[l].alone = lane[l].alone /\ ~At(l, "idle")
    BY <1>4 DEF Moves, Writes, At
  <2>3. At(m, "idle")
    BY <1>0, <2>1, <2>2
  <2> QED BY <1>4, <2>3 DEF Moves, Writes, At
<1>5. ASSUME NEW k \in Lanes, WriteVerdict(k),
             Moves(k, "settle", lane[k].stamp, lane[k].verdict, lane[k].found),
             last' = [stamp |-> lane[k].stamp, status |-> lane[k].verdict, clean |-> lane[k].alone]
      PROVE  At(m, "idle")'
  <2>1. last'.clean = lane[k].alone /\ ~At(k, "idle")
    BY <1>5 DEF WriteVerdict, At
  <2>2. lane'[l].alone = lane[l].alone /\ ~At(l, "idle")
    BY <1>5, <2>1 DEF Moves, Writes, At
  <2>3. At(m, "idle")
    BY <2>1, <2>2 DEF AloneInv
  <2>4. m # k
    BY <2>1, <2>3
  <2> QED BY <1>5, <2>3, <2>4 DEF Moves, Writes, At
<1>6. ASSUME NEW k \in Lanes, MarkRunning(k) \/ Acquire(k) \/ Query(k) \/ ReadIssue(k) \/ Apply(k)
      PROVE  At(m, "idle")'
  <2>1. ~At(k, "idle") /\ Soils
    BY <1>6 DEF MarkRunning, Acquire, Query, ReadIssue, Apply, At, Soils, Disturbed
  <2> QED BY <1>3, <1>4, <1>6, <2>1, LaneEffect
<1>7. ASSUME NEW k \in Lanes, WriteVerdict(k) PROVE At(m, "idle")'
  <2>1. ~At(k, "idle")
    BY <1>7 DEF WriteVerdict, At
  <2> QED BY <1>3, <1>4, <1>5, <1>7, <2>1, LaneEffect DEF Soils
<1>8. ASSUME NEW i, ResolveByUser(i) PROVE FALSE
  <2>1. ~last'.clean
    BY <1>8, Zenon DEF ResolveByUser, TypeOK, LastStates
  <2> QED BY <1>8, <2>1, ResolveByUserEffect
<1>9. CASE Restart
  BY <1>9, IdleLaneFields DEF Restart, At
<1> QED
  BY <1>1, <1>2, <1>6, <1>7, <1>8, <1>9 DEF Next, Acknowledge, Prune, vars, Soils

\* Every step keeps the order of the executions as long as the last verdict is
\* clean: a verdict older than the last one is never written by a lane alone.
LEMMA CleanStep == IndInv /\ [Next]_vars => CleanInv'
<1> SUFFICES ASSUME IndInv, TypeOK, AloneInv, CleanInv, [Next]_vars, last'.clean, NEW m \in Lanes
             PROVE  /\ lane'[m].pc \in {"acquire", "query", "write"} => lane'[m].stamp > last'.stamp
                    /\ lane'[m].pc \in {"settle", "apply"} => /\ lane'[m].stamp = last'.stamp
                                                              /\ lane'[m].verdict = last'.status
  BY DEF IndInv, CleanInv
<1> DEFINE Goal == /\ lane'[m].pc \in {"acquire", "query", "write"} => lane'[m].stamp > last'.stamp
                   /\ lane'[m].pc \in {"settle", "apply"} => /\ lane'[m].stamp = last'.stamp
                                                             /\ lane'[m].verdict = last'.status
<1>0. /\ last.clean => /\ lane[m].pc \in {"acquire", "query", "write"} => lane[m].stamp > last.stamp
                       /\ lane[m].pc \in {"settle", "apply"} => /\ lane[m].stamp = last.stamp
                                                                /\ lane[m].verdict = last.status
      /\ last.stamp \in Nat /\ clock \in Nat /\ last.stamp <= clock
  BY Fields DEF CleanInv, TypeOK
<1>1. CASE Soils /\ (lane'[m] = lane[m] \/ lane'[m] = IdleLane)
  <2>1. last' = last
    BY <1>1, SoilsEffect
  <2> QED BY <1>0, <1>1, <2>1, IdleLaneFields
<1>2. ASSUME NEW k \in Lanes, ReadPrevious(k) PROVE Goal
  <2>1. Soils /\ StartsLane(k)
    BY <1>2, StartEffect DEF ReadPrevious, Soils
  <2>2. last' = last
    BY <2>1, SoilsEffect
  <2> QED BY <1>0, <2>1, <2>2 DEF StartsLane
<1>3. CASE MarkRunning(m)
  <2>1. last' = last
    BY <1>3 DEF MarkRunning
  <2>2. CASE Ends(m)
    BY <1>1, <2>1, <2>2 DEF Ends, Soils
  <2>3. CASE Moves(m, "acquire", clock + 1, lane[m].verdict, lane[m].found)
    BY <1>0, <2>1, <2>3 DEF Moves
  <2> QED BY <1>3, <2>2, <2>3, LaneEffect
<1>4. CASE Acquire(m) \/ Query(m)
  <2>1. last' = last /\ lane[m].pc \in {"acquire", "query"}
    BY <1>4 DEF Acquire, Query, At
  <2>2. lane'[m].pc \in {"query", "write"} /\ lane'[m].stamp = lane[m].stamp
    BY <1>4, LaneEffect DEF Moves
  <2> QED BY <1>0, <2>1, <2>2
<1>5. ASSUME NEW k \in Lanes, WriteVerdict(k) PROVE Goal
  <2>0. At(k, "write") /\ lane[k].stamp \in Nat
    BY <1>5, Fields DEF WriteVerdict
  <2>1. CASE Ends(k) /\ UNCHANGED last
    BY <1>1, <2>1 DEF Ends, Writes, Soils
  <2>2. CASE /\ Moves(k, "settle", lane[k].stamp, lane[k].verdict, lane[k].found)
             /\ last' = last /\ ~(lane[k].stamp > last.stamp)
    <3>1. lane[k].stamp > last.stamp
      BY <2>0, <2>2 DEF CleanInv, At
    <3> QED BY <2>2, <3>1
  <2>3. CASE /\ Moves(k, "settle", lane[k].stamp, lane[k].verdict, lane[k].found)
             /\ last' = [stamp |-> lane[k].stamp, status |-> lane[k].verdict, clean |-> lane[k].alone]
    <3>1. /\ last'.stamp = lane[k].stamp /\ last'.status = lane[k].verdict /\ lane[k].alone
      BY <2>3
    <3>2. CASE m = k
      BY <2>3, <3>1, <3>2 DEF Moves
    <3>3. CASE m # k
      <4>1. At(m, "idle") /\ lane'[m] = lane[m]
        BY <2>0, <2>3, <3>1, <3>3 DEF AloneInv, At, Moves, Writes
      <4> QED BY <4>1 DEF At
    <3> QED BY <3>2, <3>3
  <2> QED BY <1>5, <2>1, <2>2, <2>3, LaneEffect
<1>6. CASE ReadIssue(m)
  <2>1. CASE Ends(m) /\ Disturbed(m)
    BY <1>1, <2>1 DEF Ends, Disturbed, Soils
  <2>2. ASSUME NEW i, UNCHANGED last, Moves(m, "apply", lane[m].stamp, lane[m].verdict, i) PROVE Goal
    BY <1>0, <1>6, <2>2 DEF Moves, ReadIssue, At
  <2> QED BY <1>6, <2>1, <2>2, LaneEffect
<1>7. ASSUME NEW k \in Lanes, k # m,
             MarkRunning(k) \/ Acquire(k) \/ Query(k) \/ ReadIssue(k)
      PROVE  Goal
  <2>1. Soils
    BY <1>7 DEF MarkRunning, Acquire, Query, ReadIssue, Soils, Disturbed
  <2>2. lane'[m] = lane[m]
    BY <1>7, LaneEffect DEF Moves, Ends, Writes
  <2> QED BY <1>1, <2>1, <2>2
<1>8. ASSUME NEW k \in Lanes, Apply(k) PROVE Goal
  <2>1. Soils
    BY <1>8 DEF Apply, Soils, Disturbed
  <2>2. lane'[m] = lane[m] \/ lane'[m] = IdleLane
    BY <1>8, LaneEffect DEF Ends, Writes
  <2> QED BY <1>1, <2>1, <2>2
<1>9. ASSUME NEW i, ResolveByUser(i) PROVE FALSE
  BY <1>9, Zenon DEF ResolveByUser, TypeOK, LastStates
<1>10. CASE Restart
  BY <1>1, <1>10 DEF Restart, Soils
<1> QED
  BY <1>1, <1>2, <1>3, <1>4, <1>5, <1>6, <1>7, <1>8, <1>9, <1>10
     DEF Next, Acknowledge, Prune, vars, Soils

\* Every step keeps a clean failure with its issue, or with the lane that opens it.
LEMMA FailStep == IndInv /\ [Next]_vars => FailInv'
<1> DEFINE Settling(l) == At(l, "settle") \/ (At(l, "apply") /\ lane[l].found = 0)
<1> SUFFICES ASSUME IndInv, TypeOK, AloneInv, CleanInv, [Next]_vars,
                    last'.clean, last'.status = "FAIL"
             PROVE  Unresolved' # {} \/ \E l \in Lanes : Settling(l)'
  BY DEF IndInv, FailInv
<1> DEFINE Goal == Unresolved' # {} \/ \E l \in Lanes : Settling(l)'
<1>0. last.clean /\ last.status = "FAIL" => Unresolved # {} \/ \E l \in Lanes : Settling(l)
  BY DEF IndInv, FailInv
<1> HIDE DEF Settling
<1>1. ASSUME Soils, Unresolved' = Unresolved, \A l \in Lanes : Settling(l) => Settling(l)'
      PROVE  Goal
  BY <1>0, <1>1, SoilsEffect
<1>2. UNCHANGED issue => Unresolved' = Unresolved
  BY DEF Unresolved
<1>3. ASSUME NEW k \in Lanes, ReadPrevious(k) PROVE Goal
  <2>1. Soils /\ StartsLane(k) /\ UNCHANGED issue /\ ~Settling(k)
    BY <1>3, StartEffect DEF ReadPrevious, Soils, Settling, At
  <2>2. \A l \in Lanes : Settling(l) => Settling(l)'
    BY <2>1 DEF StartsLane, Settling, At
  <2> QED BY <1>1, <1>2, <2>1, <2>2
<1>4. ASSUME NEW k \in Lanes, MarkRunning(k) \/ Acquire(k) \/ Query(k) PROVE Goal
  <2>1. Soils /\ UNCHANGED issue /\ ~Settling(k)
    BY <1>4 DEF MarkRunning, Acquire, Query, Soils, Settling, At
  <2>2. \A l \in Lanes \ {k} : lane'[l] = lane[l]
    BY <1>4, LaneEffect DEF Moves, Ends, Writes
  <2>3. \A l \in Lanes : Settling(l) => Settling(l)'
    BY <2>1, <2>2 DEF Settling, At
  <2> QED BY <1>1, <1>2, <2>1, <2>3
<1>5. ASSUME NEW k \in Lanes, WriteVerdict(k) PROVE Goal
  <2>1. UNCHANGED issue /\ ~Settling(k)
    BY <1>5 DEF WriteVerdict, Settling, At
  <2>2. CASE Ends(k) /\ UNCHANGED last
    <3>1. \A l \in Lanes : Settling(l) => Settling(l)'
      BY <2>1, <2>2 DEF Settling, At, Ends, Writes
    <3> QED BY <1>1, <1>2, <2>1, <2>2, <3>1 DEF Soils
  <2>3. CASE Moves(k, "settle", lane[k].stamp, lane[k].verdict, lane[k].found)
    BY <2>3 DEF Moves, Settling, At
  <2> QED BY <1>5, <2>2, <2>3, LaneEffect
<1>6. ASSUME NEW k \in Lanes, ReadIssue(k) PROVE Goal
  <2>1. UNCHANGED issue /\ At(k, "settle")
    BY <1>6 DEF ReadIssue
  <2>2. CASE Ends(k) /\ Disturbed(k)
    <3>1. Soils
      BY <2>2 DEF Disturbed, Soils
    <3>2. last.clean /\ last' = last
      BY <3>1, SoilsEffect
    <3>3. lane[k].stamp = last.stamp
      BY <2>1, <3>2 DEF CleanInv, At
    <3>4. last' = [last EXCEPT !.clean = FALSE]
      BY <2>2, <3>3 DEF Disturbed
    <3>5. ~last'.clean
      BY <3>4, Zenon DEF TypeOK, LastStates
    <3> QED BY <3>5
  <2>3. ASSUME NEW i \in Unresolved \cup {0}, (i = 0) = (Unresolved = {}),
               Moves(k, "apply", lane[k].stamp, lane[k].verdict, i)
        PROVE  Goal
    <3>1. CASE i = 0
      BY <2>3, <3>1 DEF Moves, Settling, At
    <3>2. CASE i # 0
      BY <1>2, <2>1, <2>3, <3>2
    <3> QED BY <3>1, <3>2
  <2> QED BY <1>6, <2>2, <2>3, LaneEffect
<1>7. ASSUME NEW k \in Lanes, Apply(k) PROVE Goal
  <2>0. /\ At(k, "apply") /\ lane[k].stamp \in Nat /\ Soils
    BY <1>7, Fields DEF Apply, Soils, Disturbed
  <2>1. last.clean /\ last' = last
    BY <2>0, SoilsEffect
  <2>2. lane[k].verdict = "FAIL" /\ lane[k].stamp = last.stamp
    BY <2>0, <2>1 DEF CleanInv, At
  <2>3. CASE UNCHANGED issue /\ (lane[k].verdict = "FAIL" /\ lane[k].found = 0 => Unresolved # {})
    <3>1. CASE lane[k].found = 0
      BY <1>2, <2>2, <2>3, <3>1
    <3>2. CASE lane[k].found # 0
      <4>1. \A l \in Lanes : ~Settling(l)
        BY <2>0, <2>1, <3>2 DEF AloneInv, Settling, At
      <4> QED BY <1>0, <1>2, <2>1, <2>3, <4>1
    <3> QED BY <3>1, <3>2
  <2>4. CASE Disturbed(k)
    <3>1. last' = [last EXCEPT !.clean = FALSE]
      BY <2>2, <2>4 DEF Disturbed
    <3>2. ~last'.clean
      BY <3>1, Zenon DEF TypeOK, LastStates
    <3> QED BY <3>2
  <2>5. CASE Opens(lane[k].stamp)
    BY <2>0, <2>5, OpensEffect
  <2>6. CASE Touches(lane[k].found, lane[k].stamp)
    BY <2>0, <2>6, TouchesEffect DEF Touches
  <2>7. CASE lane[k].verdict = "PASS"
    BY <2>2, <2>7
  <2> QED BY <1>7, <2>3, <2>4, <2>5, <2>6, <2>7, ApplyEffect
<1>8. ASSUME NEW i \in 1..Len(issue), Acknowledge(i) \/ Prune(i) PROVE Goal
  <2>1. UNCHANGED <<last, lane>> /\ ~ResolveByUser(i)
    <3>1. UNCHANGED <<last, lane>>
      BY <1>8 DEF Acknowledge, Prune
    <3>2. ~ResolveByUser(i)
      <4>1. ASSUME ResolveByUser(i) PROVE FALSE
        <5>1. ~last'.clean
          BY <4>1, Zenon DEF ResolveByUser, TypeOK, LastStates
        <5> QED BY <5>1
      <4> QED BY <4>1
    <3> QED BY <3>1, <3>2
  <2>2. Unresolved' = Unresolved
    BY <1>8, <2>1, UserEffect
  <2> QED BY <1>1, <2>1, <2>2 DEF Settling, At, Soils
<1>9. ASSUME NEW i, ResolveByUser(i) \/ Restart PROVE FALSE
  <2>1. last' = [last EXCEPT !.clean = FALSE]
    BY <1>9 DEF ResolveByUser, Restart
  <2>2. ~last'.clean
    BY <2>1, Zenon DEF TypeOK, LastStates
  <2> QED BY <2>2
<1>10. CASE UNCHANGED vars
  BY <1>1, <1>2, <1>10 DEF vars, Soils, Settling, At
<1> QED
  BY <1>3, <1>4, <1>5, <1>6, <1>7, <1>8, <1>9, <1>10 DEF Next

-----------------------------------------------------------------------------
\* The inductive invariant holds in every state the two lanes, the users, the
\* retention and the restarts can reach.
THEOREM Invariance == Spec => []IndInv
<1>1. Init => IndInv
  <2> SUFFICES ASSUME Init PROVE IndInv
    OBVIOUS
  <2>1. lane \in [Lanes -> LaneStates] /\ \A l \in Lanes : lane[l] = IdleLane
    BY IdleLaneFields DEF Init
  <2>2. /\ last \in LastStates /\ last.stamp = 0 /\ last.status = "none" /\ last.clean = FALSE
    <3>1. 0 \in Nat
      OBVIOUS
    <3> QED BY <3>1, Zenon DEF Init, LastStates
  <2>3. issue = <<>> /\ issue \in Seq(Issues) /\ Len(issue) = 0 /\ Unresolved = {}
    BY DEF Init, Unresolved
  <2>4. LastOK /\ LanesOK /\ IssuesOK /\ CountersOK
    <3>1. (last.stamp = 0) = (last.status = "none") /\ clock = 0 /\ inflight \in BOOLEAN
      BY <2>2, Zenon DEF Init
    <3>2. LastOK
      BY <2>2, <3>1 DEF LastOK
    <3>3. LanesOK /\ IssuesOK
      BY <2>1, <2>3, <3>1, IdleLaneFields DEF LanesOK, IssuesOK
    <3>4. CountersOK
      BY <3>1, BoundsAssumption DEF Init, CountersOK
    <3> QED BY <3>2, <3>3, <3>4
  <2>5. \A l \in Lanes : LaneInv(l) /\ At(l, "idle")
    BY <2>1, IdleLaneFields DEF LaneInv, At
  <2> QED
    BY <2>2, <2>3, <2>4, <2>5, TypeParts DEF IndInv, UniqueIndex, AloneInv, CleanInv, FailInv
<1>2. IndInv /\ [Next]_vars => IndInv'
  <2> SUFFICES ASSUME IndInv, [Next]_vars PROVE IndInv'
    OBVIOUS
  <2>1. TypeOK' /\ UniqueIndex' /\ AloneInv' /\ CleanInv' /\ FailInv'
    BY TypeStep, UniqueStep, AloneStep, CleanStep, FailStep
  <2>2. \A l \in Lanes : LaneInv(l)'
    BY LaneStep
  <2> QED BY <2>1, <2>2 DEF IndInv
<1> QED BY <1>1, <1>2, PTL DEF Spec

\* In every reachable state the history, the lanes and the ledger are well-formed,
\* and nothing is stamped by an execution to come.
THEOREM TypeCorrectness == Spec => []TypeOK
<1>1. IndInv => TypeOK
  BY DEF IndInv
<1> QED BY <1>1, Invariance, PTL

\* A check never has two unresolved issues, although both lanes may read that it
\* has none before either opens one: OpenQualityIssue runs into the index.
THEOREM AtMostOneUnresolved == Spec => []OneUnresolved
<1>1. ASSUME UniqueIndex PROVE OneUnresolved
  <2>1. CASE Unresolved = {}
    BY <2>1, FS_EmptySet DEF OneUnresolved
  <2>2. CASE Unresolved # {}
    <3>1. PICK i : i \in Unresolved
      BY <2>2
    <3>2. Unresolved = {i}
      BY <1>1, <3>1 DEF UniqueIndex
    <3>3. Cardinality({i}) = 1
      BY FS_Singleton
    <3> QED BY <3>2, <3>3 DEF OneUnresolved
  <2> QED BY <2>1, <2>2
<1>2. IndInv => OneUnresolved
  BY <1>1 DEF IndInv
<1> QED BY <1>2, Invariance, PTL

\* Once an execution that overlapped no other has failed and is settled, the check
\* has an unresolved issue, whatever PlanIssueTransition was told of the past.
THEOREM FailuresAreOpen == Spec => []FailingIsOpen
<1>1. IndInv => FailingIsOpen
  <2> SUFFICES ASSUME FailInv, Quiet, last.status = "FAIL", last.clean PROVE Unresolved # {}
    BY DEF IndInv, FailingIsOpen
  <2>1. \A l \in Lanes : ~At(l, "settle") /\ ~At(l, "apply")
    BY DEF Quiet, At
  <2> QED BY <2>1 DEF FailInv
<1> QED BY <1>1, Invariance, PTL

\* A resolved issue is never touched, acknowledged or opened again: every statement
\* on quality_issue asks for an unresolved one, and only the retention deletes it.
THEOREM ResolutionIsFinal == Spec => ResolvedIsFinal
<1>1. IndInv /\ [Next]_vars =>
        [\A i \in 1..Len(issue) :
           issue[i].status = "RESOLVED"
             => issue'[i] \in {issue[i], [issue[i] EXCEPT !.status = "deleted"]}]_vars
  <2> SUFFICES ASSUME IndInv, TypeOK, Next, NEW i \in 1..Len(issue), issue[i].status = "RESOLVED"
               PROVE  issue'[i] \in {issue[i], [issue[i] EXCEPT !.status = "deleted"]}
    BY DEF IndInv
  <2>1. i \notin Unresolved
    BY DEF Unresolved
  <2>2. ASSUME NEW l \in Lanes, Apply(l) PROVE issue'[i] = issue[i]
    <3>1. lane[l].stamp \in Nat
      BY Fields
    <3>2. CASE Opens(lane[l].stamp)
      BY <3>1, <3>2, OpensEffect
    <3>3. CASE Touches(lane[l].found, lane[l].stamp)
      BY <2>1, <3>1, <3>3, TouchesEffect DEF Touches
    <3>4. CASE lane[l].found \in Unresolved /\ Sets(lane[l].found, "RESOLVED")
      <4>1. "RESOLVED" \in IssueStatuses
        BY DEF IssueStatuses
      <4> QED BY <2>1, <3>4, <4>1, SetsEffect
    <3> QED BY <2>2, <3>2, <3>3, <3>4, ApplyEffect
  <2>3. ASSUME NEW j \in 1..Len(issue), Acknowledge(j) \/ ResolveByUser(j) PROVE issue'[i] = issue[i]
    <3>1. j # i
      BY <2>1, <2>3 DEF Acknowledge, ResolveByUser, Unresolved
    <3>2. PICK st \in IssueStatuses : Sets(j, st)
      BY <2>3 DEF Acknowledge, ResolveByUser, ResolveIssue, Sets, IssueStatuses
    <3>3. \A h \in 1..Len(issue) : h # j => issue'[h] = issue[h]
      BY <3>2, SetsEffect, ZenonT(60)
    <3> QED BY <3>1, <3>3
  <2>4. ASSUME NEW j \in 1..Len(issue), Prune(j)
        PROVE  issue'[i] \in {issue[i], [issue[i] EXCEPT !.status = "deleted"]}
    <3>1. Sets(j, "deleted") /\ "deleted" \in IssueStatuses
      BY <2>4 DEF Prune, Sets, IssueStatuses
    <3> QED BY <3>1, SetsEffect
  <2> QED
    BY <2>2, <2>3, <2>4 DEF Next, ReadPrevious, MarkRunning, Acquire, Query, WriteVerdict,
                            ReadIssue, Restart
<1> QED BY <1>1, Invariance, PTL DEF Spec, ResolvedIsFinal
=============================================================================
