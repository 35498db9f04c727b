------------------------ MODULE NotificationDelivery ------------------------
(***************************************************************************)
(* The outbound notification outbox: the notification_delivery table       *)
(* (backend/store/notification_delivery.go) and the dispatcher that leases *)
(* and posts its rows (backend/runner/notificationdispatcher).              *)
(*                                                                         *)
(* One SQL statement is one action, because each runs in its own           *)
(* transaction; what the dispatcher does between two statements is a step of *)
(* its own.  Time is abstracted to one bit per row, "next_attempt_at <=    *)
(* NOW()", which the passage of time may set at any moment.  The           *)
(* dispatcher may stop at any point and leave its leases behind; the       *)
(* deployment runs one of them (docs/notifications.md:230).                *)
(***************************************************************************)
EXTENDS Naturals, FiniteSets

CONSTANTS
    Deliveries,    \* rows that may be queued, one per (event, channel)
    Bypass,        \* deliveries whose channel ignores quiet hours
    MaxAttempts,   \* maxAttempts, the automatic attempt budget
    ClaimLimit,    \* claimLimit, rows leased by one tick
    MaxFaults,     \* bound: crashes, failed statements, ambiguous answers
    MaxRequeues,   \* bound: administrator retries
    MaxWindows     \* bound: quiet windows that begin

ASSUME DeliveriesAssumption == IsFiniteSet(Deliveries)
ASSUME BypassAssumption == Bypass \in SUBSET Deliveries
ASSUME BudgetAssumption == MaxAttempts \in Nat \ {0} /\ ClaimLimit \in Nat \ {0}
ASSUME BoundsAssumption == {MaxFaults, MaxRequeues, MaxWindows} \in SUBSET Nat

VARIABLES
    \* the table, one entry per row
    state,      \* "NONE" before the insert, "GONE" after a delete
    attempts,
    due,        \* next_attempt_at <= NOW()
    quiet,      \* quiet_deferred
    \* the dispatcher
    phase,      \* "idle", "claimed" (rows leased, channels unread), "working"
    job,        \* what the goroutine of a leased delivery does next
    \* the workspace quiet-hours schedule and the handler that saves it
    schedule,   \* "open" or, inside a window, "quiet"; "off" once turned off
    saving,     \* UpdateQuietHoursSetting saved and has not released yet
    \* history and bounds
    posts,      \* posts the receiver accepted
    lost,       \* accepted posts whose success never reached the row
    tries,      \* attempts made since the row was queued or requeued
    faults, requeues, windows

table == <<state, attempts, due, quiet>>
history == <<posts, lost, tries>>
bounds == <<faults, requeues, windows>>
vars == <<table, phase, job, schedule, saving, history, bounds>>

States == {"NONE", "PENDING", "SENDING", "SENT", "DEAD", "GONE"}

\* "SENT", "DEAD" and "PENDING" are a finish that still has to be written.
Outcomes == {"SENT", "DEAD", "PENDING"}
JobSteps == {"none", "claimed", "attempt", "defer", "release"} \cup Outcomes
NoJob == [step |-> "none", attempts |-> 0]

Queued(d) == state[d] \in {"PENDING", "SENDING"}
Busy(d) == job[d].step # "none"

Init ==
    /\ state = [d \in Deliveries |-> "NONE"]
    /\ attempts = [d \in Deliveries |-> 0]
    /\ due = [d \in Deliveries |-> FALSE]
    /\ quiet = [d \in Deliveries |-> FALSE]
    /\ phase = "idle"
    /\ job = [d \in Deliveries |-> NoJob]
    /\ schedule = "open"
    /\ saving = FALSE
    /\ posts = [d \in Deliveries |-> 0]
    /\ lost = [d \in Deliveries |-> 0]
    /\ tries = [d \in Deliveries |-> 0]
    /\ faults = 0
    /\ requeues = 0
    /\ windows = 0

Fault == faults < MaxFaults /\ faults' = faults + 1

SetJob(d, step) == job' = [job EXCEPT ![d].step = step]
DropJob(d) == job' = [job EXCEPT ![d] = NoJob]

-----------------------------------------------------------------------------
\* CreateNotificationDeliveries for one channel of one event; the event id is
\* fresh, and a row deleted since is never inserted again.
Create(d) ==
    /\ state[d] = "NONE"
    /\ state' = [state EXCEPT ![d] = "PENDING"]
    /\ due' = [due EXCEPT ![d] = TRUE]
    /\ UNCHANGED <<attempts, quiet, phase, job, schedule, saving, history, bounds>>

\* Mutant: an expired lease is never reclaimed.
DueMutantNoReclaim == {d \in Deliveries : state[d] = "PENDING" /\ due[d]}

\* Mutant: the claim looks at next_attempt_at only.
DueMutantAnyState == {d \in Deliveries : state[d] \notin {"NONE", "GONE"} /\ due[d]}

\* Rows the claim statement may lease: PENDING rows that are due and SENDING
\* rows whose lease has expired.
Due == {d \in Deliveries : Queued(d) /\ due[d]}

\* The claim takes the oldest due rows up to its limit.
Batches == {S \in SUBSET Due : /\ S # {}
                               /\ Cardinality(S) <= ClaimLimit
                               /\ S = Due \/ Cardinality(S) = ClaimLimit}

\* The claim statement: lease the rows S and start counting an attempt.
Lease(S) ==
    /\ state' = [d \in Deliveries |-> IF d \in S THEN "SENDING" ELSE state[d]]
    /\ attempts' = [d \in Deliveries |->
                       IF d \in S THEN attempts[d] + 1 ELSE attempts[d]]
    /\ due' = [d \in Deliveries |-> d \notin S /\ due[d]]
    /\ UNCHANGED quiet

\* dispatch: ClaimNotificationDeliveries returns a batch.
Claim(S) ==
    /\ phase = "idle"
    /\ Lease(S)
    /\ phase' = "claimed"
    /\ job' = [d \in Deliveries |->
                  IF d \in S THEN [step |-> "claimed", attempts |-> attempts[d] + 1]
                             ELSE NoJob]
    /\ UNCHANGED <<schedule, saving, history, bounds>>

\* The claim committed but reading its rows failed: nobody works on the lease.
ClaimUnread(S) ==
    /\ phase = "idle"
    /\ Fault
    /\ Lease(S)
    /\ UNCHANGED <<phase, job, schedule, saving, history, requeues, windows>>

\* dispatch: the channels could be read; quiet hours are evaluated once for the
\* batch (an unreadable schedule fails open).  A delivery whose channel is gone
\* is neither held nor posted: attempt records it as DEAD.
Resolve(isQuiet) ==
    /\ phase = "claimed"
    /\ isQuiet => schedule = "quiet"
    /\ phase' = "working"
    /\ job' = [d \in Deliveries |->
                  IF ~Busy(d) THEN NoJob
                  ELSE [job[d] EXCEPT !.step =
                          CASE state[d] = "GONE" -> "DEAD"
                            [] state[d] # "GONE" /\ isQuiet /\ d \notin Bypass -> "defer"
                            [] OTHER -> "attempt"]]
    /\ UNCHANGED <<table, schedule, saving, history, bounds>>

\* dispatch: the channels could not be read; every claimed row is released.
Unresolved ==
    /\ phase = "claimed"
    /\ Fault
    /\ phase' = "working"
    /\ job' = [d \in Deliveries |->
                  IF ~Busy(d) THEN NoJob
                  ELSE [job[d] EXCEPT !.step = "release"]]
    /\ UNCHANGED <<table, schedule, saving, history, requeues, windows>>

-----------------------------------------------------------------------------
\* Mutant: the budget is off by one.
AfterFailureLate(d) ==
    IF job[d].attempts > MaxAttempts THEN "DEAD" ELSE "PENDING"

\* finishFailure: what a failed attempt is recorded as.
AfterFailure(d) ==
    IF job[d].attempts >= MaxAttempts THEN "DEAD" ELSE "PENDING"

\* attempt: the channel has no recipient or a configuration no retry can fix.
AttemptRefused(d) ==
    /\ job[d].step = "attempt"
    /\ SetJob(d, "DEAD")
    /\ tries' = [tries EXCEPT ![d] = @ + 1]
    /\ UNCHANGED <<table, phase, schedule, saving, posts, lost, bounds>>

\* attempt: a setting could not be read, or the post failed.
AttemptFailed(d) ==
    /\ job[d].step = "attempt"
    /\ SetJob(d, AfterFailure(d))
    /\ tries' = [tries EXCEPT ![d] = @ + 1]
    /\ UNCHANGED <<table, phase, schedule, saving, posts, lost, bounds>>

\* attempt: the post failed from here, but the receiver had accepted it.
AttemptAmbiguous(d) ==
    /\ job[d].step = "attempt"
    /\ Fault
    /\ SetJob(d, AfterFailure(d))
    /\ tries' = [tries EXCEPT ![d] = @ + 1]
    /\ posts' = [posts EXCEPT ![d] = @ + 1]
    /\ lost' = [lost EXCEPT ![d] = @ + 1]
    /\ UNCHANGED <<table, phase, schedule, saving, requeues, windows>>

\* attempt: the receiver accepted the post.
AttemptPosted(d) ==
    /\ job[d].step = "attempt"
    /\ SetJob(d, "SENT")
    /\ tries' = [tries EXCEPT ![d] = @ + 1]
    /\ posts' = [posts EXCEPT ![d] = @ + 1]
    /\ UNCHANGED <<table, phase, schedule, saving, lost, bounds>>

\* Mutant: a successful post is written back as PENDING.
FinishMutantPending(d) ==
    /\ job[d].step \in Outcomes
    /\ state' = [state EXCEPT ![d] = "PENDING"]
    /\ due' = [due EXCEPT ![d] = FALSE]
    /\ quiet' = [quiet EXCEPT ![d] = FALSE]
    /\ DropJob(d)
    /\ UNCHANGED <<attempts, phase, schedule, saving, history, bounds>>

\* FinishNotificationDelivery: UPDATE ... WHERE id, whatever the row's state.
Finish(d) ==
    /\ job[d].step \in Outcomes
    /\ IF state[d] = "GONE" THEN UNCHANGED <<state, due, quiet>>
       ELSE /\ state' = [state EXCEPT ![d] = job[d].step]
            /\ due' = [due EXCEPT ![d] = job[d].step # "PENDING"]
            /\ quiet' = [quiet EXCEPT ![d] = FALSE]
    /\ DropJob(d)
    /\ UNCHANGED <<attempts, phase, schedule, saving, history, bounds>>

\* A successful post whose record is lost is one more post to come.
CountLost(D) == lost' = [d \in Deliveries |-> IF d \in D THEN lost[d] + 1 ELSE lost[d]]

\* finish logs the write error; the lease recovers the row.
FinishFails(d) ==
    /\ job[d].step \in Outcomes
    /\ Fault
    /\ DropJob(d)
    /\ CountLost({e \in {d} : job[e].step = "SENT"})
    /\ UNCHANGED <<table, phase, schedule, saving, posts, tries, requeues, windows>>

\* GREATEST(attempts - 1, 0)
GiveBack(d) == IF attempts[d] = 0 THEN 0 ELSE attempts[d] - 1

\* Mutant: a deferral keeps the attempt the claim counted.
DeferMutant(d) ==
    /\ job[d].step = "defer"
    /\ IF state[d] # "SENDING" THEN UNCHANGED table
       ELSE /\ state' = [state EXCEPT ![d] = "PENDING"]
            /\ due' = [due EXCEPT ![d] = FALSE]
            /\ quiet' = [quiet EXCEPT ![d] = TRUE]
            /\ UNCHANGED attempts
    /\ DropJob(d)
    /\ UNCHANGED <<phase, schedule, saving, history, bounds>>

\* deferDelivery: back to PENDING until the window ends, attempt not charged.
Defer(d) ==
    /\ job[d].step = "defer"
    /\ IF state[d] # "SENDING" THEN UNCHANGED table
       ELSE /\ state' = [state EXCEPT ![d] = "PENDING"]
            /\ attempts' = [attempts EXCEPT ![d] = GiveBack(d)]
            /\ due' = [due EXCEPT ![d] = FALSE]
            /\ quiet' = [quiet EXCEPT ![d] = TRUE]
    /\ DropJob(d)
    /\ UNCHANGED <<phase, schedule, saving, history, bounds>>

\* deferDelivery: the statement failed, fall back to the release path.
DeferFails(d) ==
    /\ job[d].step = "defer"
    /\ Fault
    /\ SetJob(d, "release")
    /\ UNCHANGED <<table, phase, schedule, saving, history, requeues, windows>>

\* ReleaseNotificationDelivery: back to PENDING now, attempt not charged.
Release(d) ==
    /\ job[d].step = "release"
    /\ IF state[d] # "SENDING" THEN UNCHANGED table
       ELSE /\ state' = [state EXCEPT ![d] = "PENDING"]
            /\ attempts' = [attempts EXCEPT ![d] = GiveBack(d)]
            /\ due' = [due EXCEPT ![d] = TRUE]
            /\ quiet' = [quiet EXCEPT ![d] = FALSE]
    /\ DropJob(d)
    /\ UNCHANGED <<phase, schedule, saving, history, bounds>>

\* The release failed as well and is only logged; a release is attempted only
\* after another statement failed, so this is the same fault, not one more.
ReleaseFails(d) ==
    /\ job[d].step = "release"
    /\ DropJob(d)
    /\ UNCHANGED <<table, phase, schedule, saving, history, bounds>>

\* dispatch: wg.Wait returned, the next tick may claim.
BatchDone ==
    /\ phase = "working"
    /\ \A d \in Deliveries : ~Busy(d)
    /\ phase' = "idle"
    /\ UNCHANGED <<table, job, schedule, saving, history, bounds>>

\* The process stops (crash, or shutdown whose writes all fail) and a new one
\* takes over; the leases stay in the table.
Crash ==
    /\ phase # "idle"
    /\ Fault
    /\ phase' = "idle"
    /\ job' = [d \in Deliveries |-> NoJob]
    /\ CountLost({d \in Deliveries : job[d].step = "SENT"})
    /\ UNCHANGED <<table, schedule, saving, posts, tries, requeues, windows>>

-----------------------------------------------------------------------------
\* Time passes a backoff, a lease, or the end of the window that held the row.
Elapse(d) ==
    /\ Queued(d)
    /\ ~due[d]
    /\ state[d] = "PENDING" /\ quiet[d] => schedule # "quiet"
    /\ due' = [due EXCEPT ![d] = TRUE]
    /\ UNCHANGED <<state, attempts, quiet, phase, job, schedule, saving, history, bounds>>

\* Mutant: a retry is granted to a row that is still in flight.
RequeueMutant(d) ==
    /\ state[d] \in {"DEAD", "SENDING"}
    /\ requeues < MaxRequeues
    /\ requeues' = requeues + 1
    /\ state' = [state EXCEPT ![d] = "PENDING"]
    /\ attempts' = [attempts EXCEPT ![d] = 0]
    /\ due' = [due EXCEPT ![d] = TRUE]
    /\ quiet' = [quiet EXCEPT ![d] = FALSE]
    /\ tries' = [tries EXCEPT ![d] = 0]
    /\ UNCHANGED <<phase, job, schedule, saving, posts, lost, faults, windows>>

\* RequeueNotificationDelivery: an administrator retries a DEAD row.
Requeue(d) ==
    /\ state[d] = "DEAD"
    /\ requeues < MaxRequeues
    /\ requeues' = requeues + 1
    /\ state' = [state EXCEPT ![d] = "PENDING"]
    /\ attempts' = [attempts EXCEPT ![d] = 0]
    /\ due' = [due EXCEPT ![d] = TRUE]
    /\ quiet' = [quiet EXCEPT ![d] = FALSE]
    /\ tries' = [tries EXCEPT ![d] = 0]
    /\ UNCHANGED <<phase, job, schedule, saving, posts, lost, faults, windows>>

\* PruneNotificationDeliveries removes old terminal rows.
Prune(d) ==
    /\ state[d] \in {"SENT", "DEAD"}
    /\ state' = [state EXCEPT ![d] = "GONE"]
    /\ UNCHANGED <<attempts, due, quiet, phase, job, schedule, saving, history, bounds>>

\* Deleting the channel cascades to its deliveries.
DeleteChannel(d) ==
    /\ state[d] \notin {"NONE", "GONE"}
    /\ state' = [state EXCEPT ![d] = "GONE"]
    /\ UNCHANGED <<attempts, due, quiet, phase, job, schedule, saving, history, bounds>>

\* A quiet window begins by the clock.
WindowBegins ==
    /\ schedule = "open"
    /\ windows < MaxWindows
    /\ windows' = windows + 1
    /\ schedule' = "quiet"
    /\ UNCHANGED <<table, phase, job, saving, history, faults, requeues>>

\* The window ends by the clock.
WindowEnds ==
    /\ schedule = "quiet"
    /\ schedule' = "open"
    /\ UNCHANGED <<table, phase, job, saving, history, bounds>>

\* UpdateQuietHoursSetting, first statement: quiet hours are turned off.
SaveSchedule ==
    /\ schedule # "off"
    /\ schedule' = "off"
    /\ saving' = TRUE
    /\ UNCHANGED <<table, phase, job, history, bounds>>

\* UpdateQuietHoursSetting, second statement: ReleaseQuietDeferredDeliveries.
ReleaseQuietDeferred ==
    /\ saving
    /\ saving' = FALSE
    /\ due' = [d \in Deliveries |-> due[d] \/ (state[d] = "PENDING" /\ quiet[d])]
    /\ quiet' = [d \in Deliveries |-> quiet[d] /\ state[d] # "PENDING"]
    /\ UNCHANGED <<state, attempts, phase, job, schedule, history, bounds>>

-----------------------------------------------------------------------------
Work(d) ==
    \/ AttemptRefused(d) \/ AttemptFailed(d)
    \/ AttemptAmbiguous(d) \/ AttemptPosted(d)
    \/ Finish(d) \/ FinishFails(d)
    \/ Defer(d) \/ DeferFails(d)
    \/ Release(d) \/ ReleaseFails(d)

Dispatch ==
    \/ \E S \in Batches : Claim(S) \/ ClaimUnread(S)
    \/ \E isQuiet \in BOOLEAN : Resolve(isQuiet)
    \/ Unresolved
    \/ \E d \in Deliveries : Work(d)
    \/ BatchDone
    \/ Crash

Environment ==
    \/ \E d \in Deliveries : \/ Create(d) \/ Elapse(d) \/ Requeue(d)
                             \/ Prune(d) \/ DeleteChannel(d)
    \/ WindowBegins \/ WindowEnds \/ SaveSchedule \/ ReleaseQuietDeferred

Next == Environment \/ Dispatch

\* The ticker keeps firing, every goroutine of a batch runs to its end (each
\* post has a timeout), and time passes.
Fairness ==
    /\ WF_vars(\E S \in Batches : Claim(S))
    /\ WF_vars(\E isQuiet \in BOOLEAN : Resolve(isQuiet))
    /\ WF_vars(BatchDone)
    /\ \A d \in Deliveries : WF_vars(Work(d))
    /\ \A d \in Deliveries : WF_vars(Elapse(d))
    /\ WF_vars(WindowEnds)

Spec == Init /\ [][Next]_vars

FairSpec == Spec /\ Fairness

-----------------------------------------------------------------------------
\* Every variable has the shape the table and the dispatcher give it.
TypeOK ==
    /\ state \in [Deliveries -> States]
    /\ attempts \in [Deliveries -> Nat]
    /\ due \in [Deliveries -> BOOLEAN]
    /\ quiet \in [Deliveries -> BOOLEAN]
    /\ phase \in {"idle", "claimed", "working"}
    /\ job \in [Deliveries -> [step : JobSteps, attempts : Nat]]
    /\ schedule \in {"open", "quiet", "off"}
    /\ saving \in BOOLEAN
    /\ posts \in [Deliveries -> Nat]
    /\ lost \in [Deliveries -> Nat]
    /\ tries \in [Deliveries -> Nat]
    /\ faults \in Nat /\ requeues \in Nat /\ windows \in Nat

\* A goroutine of the dispatcher that still has to write an outcome owns the
\* lease it is about to finish: the row is SENDING and carries the attempt the
\* goroutine was started for (or its channel was deleted).  This is what makes
\* an UPDATE by id alone, with no check of state or lease, safe.
OwnsLease ==
    \A d \in Deliveries :
        Busy(d) => \/ state[d] = "GONE"
                      \/ /\ state[d] = "SENDING"
                         /\ attempts[d] = job[d].attempts

\* SENT is terminal: a posted row only leaves the state by being deleted.
SentIsTerminal ==
    [][\A d \in Deliveries : state[d] = "SENT" => state'[d] \in {"SENT", "GONE"}]_vars

\* A channel receives an event once, plus once for every accepted post whose
\* success could not be recorded (crash, failed write, ambiguous answer):
\* retries, deferrals, requeues and restarts add no duplicate of their own.
DuplicatesExplained ==
    \A d \in Deliveries :
        /\ posts[d] <= lost[d] + 1
        /\ state[d] = "SENT" => posts[d] = lost[d] + 1

\* Every accepted post is a lost one, the success in the hands of a goroutine or
\* the success in the row; a deleted row may have held one more.
PostsAccounted ==
    \A d \in Deliveries :
        IF job[d].step = "SENT" \/ state[d] = "SENT" THEN posts[d] = lost[d] + 1
        ELSE \/ posts[d] = lost[d]
             \/ posts[d] = lost[d] + 1 /\ state[d] = "GONE" /\ ~Busy(d)

\* No goroutine holds a row between two batches, and none has started before the
\* channels of the batch are read.
PhaseInv ==
    \A d \in Deliveries :
        /\ phase = "idle" => ~Busy(d)
        /\ phase = "claimed" => job[d].step \in {"none", "claimed"}

\* The invariant behind the three above: the phases of the dispatcher separate
\* the batches, the goroutines of a batch own their leases, the posts add up.
IndInv ==
    /\ TypeOK
    /\ PhaseInv
    /\ OwnsLease
    /\ PostsAccounted

\* Waiting is not charged: without faults, the counter of a waiting row is the
\* number of attempts really made, however often quiet hours put it back.
WaitingIsFree ==
    faults = 0 =>
        \A d \in Deliveries : state[d] = "PENDING" => attempts[d] = tries[d]

\* The budget ends: a row is attempted MaxAttempts times, and beyond that at most
\* once for each crash or failed statement that kept an outcome from being written.
BudgetEnds == \A d \in Deliveries : tries[d] <= MaxAttempts + faults

\* Every queued delivery is eventually posted, given up or deleted, through
\* crashes, lost leases, failed statements and quiet windows.
Settles ==
    \A d \in Deliveries : Queued(d) ~> state[d] \in {"SENT", "DEAD", "GONE"}
=============================================================================
