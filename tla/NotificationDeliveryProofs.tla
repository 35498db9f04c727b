--------------------- MODULE NotificationDeliveryProofs ---------------------
(***************************************************************************)
(* Machine-checked proofs about NotificationDelivery, for every set of     *)
(* deliveries, attempt budget, claim limit and bound.                      *)
(***************************************************************************)
EXTENDS NotificationDelivery, TLAPS

\* The part of the invariant that is about one row: whoever works on it owns its
\* lease, and its posts add up.
RowInv(e) ==
    /\ Busy(e) => state[e] = "GONE" \/ (state[e] = "SENDING" /\ attempts[e] = job[e].attempts)
    /\ IF job[e].step = "SENT" \/ state[e] = "SENT" THEN posts[e] = lost[e] + 1
       ELSE \/ posts[e] = lost[e]
            \/ posts[e] = lost[e] + 1 /\ state[e] = "GONE" /\ ~Busy(e)

-----------------------------------------------------------------------------
\* Every step of the table, the dispatcher and its environment keeps the types.
LEMMA TypeStep == TypeOK /\ [Next]_vars => TypeOK'
<1> SUFFICES ASSUME TypeOK, [Next]_vars PROVE TypeOK'
  OBVIOUS
<1> USE DEF TypeOK, table, history, bounds
<1>1. ASSUME NEW d \in Deliveries, Create(d) PROVE TypeOK'
  BY <1>1 DEF Create, States
<1>2. ASSUME NEW d \in Deliveries, Elapse(d) PROVE TypeOK'
  BY <1>2 DEF Elapse
<1>3. ASSUME NEW d \in Deliveries, Requeue(d) PROVE TypeOK'
  BY <1>3 DEF Requeue, States
<1>4. ASSUME NEW d \in Deliveries, Prune(d) \/ DeleteChannel(d) PROVE TypeOK'
  BY <1>4 DEF Prune, DeleteChannel, States
<1>5. ASSUME WindowBegins \/ WindowEnds \/ SaveSchedule PROVE TypeOK'
  <2>1. CASE WindowBegins
    BY <2>1 DEF WindowBegins
  <2>2. CASE WindowEnds
    BY <2>2 DEF WindowEnds
  <2>3. CASE SaveSchedule
    BY <2>3 DEF SaveSchedule
  <2> QED BY <1>5, <2>1, <2>2, <2>3
<1>6. ASSUME ReleaseQuietDeferred PROVE TypeOK'
  BY <1>6 DEF ReleaseQuietDeferred
<1>7. ASSUME NEW S \in Batches, Claim(S) PROVE TypeOK'
  BY <1>7 DEF Claim, Lease, States, JobSteps, NoJob
<1>8. ASSUME NEW S \in Batches, ClaimUnread(S) PROVE TypeOK'
  BY <1>8 DEF ClaimUnread, Lease, Fault, States
<1>9. ASSUME NEW isQuiet \in BOOLEAN, Resolve(isQuiet) PROVE TypeOK'
  BY <1>9 DEF Resolve, JobSteps, NoJob, Outcomes
<1>10. ASSUME Unresolved PROVE TypeOK'
  BY <1>10 DEF Unresolved, Fault, JobSteps, NoJob
<1>11. ASSUME NEW d \in Deliveries,
              \/ AttemptRefused(d) \/ AttemptFailed(d)
              \/ AttemptAmbiguous(d) \/ AttemptPosted(d)
       PROVE TypeOK'
  <2>1. PICK step \in Outcomes : job' = [job EXCEPT ![d].step = step]
    <3>1. AfterFailure(d) \in Outcomes
      BY DEF AfterFailure, Outcomes
    <3> QED BY <1>11, <3>1 DEF AttemptRefused, AttemptFailed, AttemptAmbiguous,
                               AttemptPosted, SetJob, Outcomes
  <2>2. job' \in [Deliveries -> [step : JobSteps, attempts : Nat]]
    BY <2>1 DEF JobSteps
  <2>3. CASE AttemptRefused(d)
    BY <2>2, <2>3 DEF AttemptRefused
  <2>4. CASE AttemptFailed(d)
    BY <2>2, <2>4 DEF AttemptFailed
  <2>5. CASE AttemptAmbiguous(d)
    BY <2>2, <2>5 DEF AttemptAmbiguous, Fault
  <2>6. CASE AttemptPosted(d)
    BY <2>2, <2>6 DEF AttemptPosted
  <2> QED BY <1>11, <2>3, <2>4, <2>5, <2>6
<1>13. ASSUME NEW d \in Deliveries, Finish(d) PROVE TypeOK'
  BY <1>13 DEF Finish, DropJob, NoJob, JobSteps, Outcomes, States
<1>14. ASSUME NEW d \in Deliveries, FinishFails(d) PROVE TypeOK'
  BY <1>14 DEF FinishFails, Fault, DropJob, CountLost, NoJob, JobSteps
<1>12. ASSUME NEW d \in Deliveries, Defer(d) \/ Release(d) PROVE TypeOK'
  <2>1. GiveBack(d) \in Nat
    BY DEF GiveBack
  <2>2. job' \in [Deliveries -> [step : JobSteps, attempts : Nat]]
    BY <1>12 DEF Defer, Release, DropJob, NoJob, JobSteps
  <2>3. CASE state[d] # "SENDING"
    BY <1>12, <2>2, <2>3 DEF Defer, Release
  <2>4. CASE state[d] = "SENDING" /\ Defer(d)
    <3>1. /\ state' = [state EXCEPT ![d] = "PENDING"]
          /\ attempts' = [attempts EXCEPT ![d] = GiveBack(d)]
          /\ due' = [due EXCEPT ![d] = FALSE]
          /\ quiet' = [quiet EXCEPT ![d] = TRUE]
          /\ UNCHANGED <<phase, schedule, saving, posts, lost, tries, faults, requeues, windows>>
      BY <2>4 DEF Defer
    <3> QED BY <2>1, <2>2, <3>1 DEF States
  <2>5. CASE state[d] = "SENDING" /\ Release(d)
    <3>1. /\ state' = [state EXCEPT ![d] = "PENDING"]
          /\ attempts' = [attempts EXCEPT ![d] = GiveBack(d)]
          /\ due' = [due EXCEPT ![d] = TRUE]
          /\ quiet' = [quiet EXCEPT ![d] = FALSE]
          /\ UNCHANGED <<phase, schedule, saving, posts, lost, tries, faults, requeues, windows>>
      BY <2>5 DEF Release
    <3> QED BY <2>1, <2>2, <3>1 DEF States
  <2> QED BY <1>12, <2>3, <2>4, <2>5
<1>16. ASSUME NEW d \in Deliveries, DeferFails(d) \/ ReleaseFails(d) PROVE TypeOK'
  BY <1>16 DEF DeferFails, ReleaseFails, Fault, SetJob, DropJob, NoJob, JobSteps
<1>17. ASSUME BatchDone PROVE TypeOK'
  BY <1>17 DEF BatchDone
<1>18. ASSUME Crash PROVE TypeOK'
  BY <1>18 DEF Crash, Fault, CountLost, NoJob, JobSteps
<1>19. ASSUME UNCHANGED vars PROVE TypeOK'
  BY <1>19 DEF vars
<1> QED
  BY <1>1, <1>2, <1>3, <1>4, <1>5, <1>6, <1>7, <1>8, <1>9, <1>10, <1>11, <1>12,
     <1>13, <1>14, <1>16, <1>17, <1>18, <1>19
     DEF Next, Environment, Dispatch, Work

\* The inductive invariant is its types, the phases and every row.
LEMMA IndInvByRows ==
    IndInv <=> TypeOK /\ PhaseInv /\ \A e \in Deliveries : RowInv(e)
BY DEF IndInv, RowInv, OwnsLease, PostsAccounted

\* A row nobody touches keeps its part of the invariant.
LEMMA RowUntouched ==
    ASSUME NEW e \in Deliveries, RowInv(e),
           state'[e] = state[e], attempts'[e] = attempts[e], job'[e] = job[e],
           posts'[e] = posts[e], lost'[e] = lost[e]
    PROVE  RowInv(e)'
BY DEF RowInv, Busy

\* A goroutine that ends without touching the lost posts leaves a sound row,
\* whatever it wrote, unless it was about to record a success.
LEMMA RowGivenBack ==
    ASSUME NEW e \in Deliveries, RowInv(e), Busy(e), job[e].step # "SENT",
           job'[e] = NoJob, posts'[e] = posts[e], lost'[e] = lost[e],
           state'[e] # "SENT", state[e] # "SENT"
    PROVE  RowInv(e)'
BY DEF RowInv, Busy, NoJob

\* Every step keeps every row sound.  The claim is the delicate one: it leases
\* rows that nobody works on, because it runs between two batches only.
LEMMA RowStep ==
    ASSUME IndInv, [Next]_vars, NEW e \in Deliveries
    PROVE  RowInv(e)'
<1>0. TypeOK /\ PhaseInv /\ RowInv(e)
  BY IndInvByRows
<1> USE DEF table, history, bounds
<1>1. ASSUME NEW d \in Deliveries, Create(d) PROVE RowInv(e)'
  BY <1>0, <1>1 DEF Create, RowInv, Busy, TypeOK
<1>2. ASSUME NEW d \in Deliveries, Elapse(d) PROVE RowInv(e)'
  BY <1>0, <1>2, RowUntouched DEF Elapse
<1>3. ASSUME NEW d \in Deliveries, Requeue(d) PROVE RowInv(e)'
  BY <1>0, <1>3 DEF Requeue, RowInv, Busy, TypeOK
<1>4. ASSUME NEW d \in Deliveries, Prune(d) \/ DeleteChannel(d) PROVE RowInv(e)'
  BY <1>0, <1>4 DEF Prune, DeleteChannel, RowInv, Busy, TypeOK
<1>5. ASSUME WindowBegins \/ WindowEnds \/ SaveSchedule \/ ReleaseQuietDeferred
      PROVE RowInv(e)'
  BY <1>0, <1>5, RowUntouched
     DEF WindowBegins, WindowEnds, SaveSchedule, ReleaseQuietDeferred
<1>6. ASSUME NEW S \in Batches, Claim(S) PROVE RowInv(e)'
  <2>1. ~Busy(e) /\ (e \in S => state[e] \in {"PENDING", "SENDING"})
    BY <1>0, <1>6 DEF Claim, PhaseInv, Batches, Due, Queued
  <2>2. CASE e \in S
    <3>1. /\ state'[e] = "SENDING" /\ attempts'[e] = attempts[e] + 1
          /\ job'[e] = [step |-> "claimed", attempts |-> attempts[e] + 1]
          /\ posts' = posts /\ lost' = lost
      BY <1>6, <2>2 DEF Claim, Lease
    <3> QED BY <1>0, <2>1, <2>2, <3>1 DEF RowInv, Busy
  <2>3. CASE e \notin S
    BY <1>0, <1>6, <2>1, <2>3 DEF Claim, Lease, RowInv, Busy, NoJob, TypeOK
  <2> QED BY <2>2, <2>3
<1>7. ASSUME NEW S \in Batches, ClaimUnread(S) PROVE RowInv(e)'
  <2>1. ~Busy(e) /\ (e \in S => state[e] \in {"PENDING", "SENDING"})
    BY <1>0, <1>7 DEF ClaimUnread, PhaseInv, Batches, Due, Queued
  <2> QED BY <1>0, <1>7, <2>1 DEF ClaimUnread, Lease, RowInv, Busy, TypeOK
<1>8. ASSUME NEW isQuiet \in BOOLEAN, Resolve(isQuiet) PROVE RowInv(e)'
  <2>1. CASE ~Busy(e)
    BY <1>0, <1>8, <2>1 DEF Resolve, RowInv, Busy, NoJob, TypeOK
  <2>2. CASE Busy(e)
    <3>1. PICK step \in {"DEAD", "defer", "attempt"} :
            job'[e] = [job[e] EXCEPT !.step = step]
      BY <1>8, <2>2 DEF Resolve
    <3>2. job'[e].step = step /\ job'[e].attempts = job[e].attempts
      BY <1>0, <3>1 DEF TypeOK
    <3>3. job[e].step = "claimed"
      BY <1>0, <1>8, <2>2 DEF Resolve, PhaseInv, Busy
    <3> QED BY <1>0, <1>8, <2>2, <3>2, <3>3 DEF Resolve, RowInv, Busy
  <2> QED BY <2>1, <2>2
<1>9. ASSUME Unresolved PROVE RowInv(e)'
  <2>1. CASE ~Busy(e)
    BY <1>0, <1>9, <2>1 DEF Unresolved, RowInv, Busy, NoJob, TypeOK
  <2>2. CASE Busy(e)
    <3>1. job'[e] = [job[e] EXCEPT !.step = "release"]
      BY <1>9, <2>2 DEF Unresolved
    <3>2. job'[e].step = "release" /\ job'[e].attempts = job[e].attempts
      BY <1>0, <3>1 DEF TypeOK
    <3>3. job[e].step = "claimed"
      BY <1>0, <1>9, <2>2 DEF Unresolved, PhaseInv, Busy
    <3> QED BY <1>0, <1>9, <2>2, <3>2, <3>3 DEF Unresolved, RowInv, Busy
  <2> QED BY <2>1, <2>2
<1>10. ASSUME NEW d \in Deliveries, AttemptRefused(d) \/ AttemptFailed(d)
       PROVE RowInv(e)'
  <2>1. PICK step \in {"DEAD", "PENDING"} : job' = [job EXCEPT ![d].step = step]
    BY <1>10 DEF AttemptRefused, AttemptFailed, SetJob, AfterFailure
  <2>2. CASE e # d
    BY <1>0, <1>10, <2>1, <2>2, RowUntouched DEF AttemptRefused, AttemptFailed, TypeOK
  <2>3. CASE e = d
    <3>1. job'[e].step = step /\ job'[e].attempts = job[e].attempts
      BY <1>0, <2>1, <2>3 DEF TypeOK
    <3>2. /\ job[e].step = "attempt"
          /\ state' = state /\ attempts' = attempts /\ posts' = posts /\ lost' = lost
      BY <1>10, <2>3 DEF AttemptRefused, AttemptFailed
    <3> QED BY <1>0, <3>1, <3>2 DEF RowInv, Busy
  <2> QED BY <2>2, <2>3
<1>11. ASSUME NEW d \in Deliveries, AttemptAmbiguous(d) PROVE RowInv(e)'
  <2>1. PICK step \in {"DEAD", "PENDING"} : job' = [job EXCEPT ![d].step = step]
    BY <1>11 DEF AttemptAmbiguous, SetJob, AfterFailure
  <2>2. CASE e # d
    BY <1>0, <1>11, <2>1, <2>2, RowUntouched DEF AttemptAmbiguous, TypeOK
  <2>3. CASE e = d
    <3>1. job'[e].step = step /\ job'[e].attempts = job[e].attempts
      BY <1>0, <2>1, <2>3 DEF TypeOK
    <3>2. /\ job[e].step = "attempt"
          /\ state' = state /\ attempts' = attempts
          /\ posts'[e] = posts[e] + 1 /\ lost'[e] = lost[e] + 1
          /\ posts[e] \in Nat /\ lost[e] \in Nat
      BY <1>0, <1>11, <2>3 DEF AttemptAmbiguous, TypeOK
    <3> QED BY <1>0, <3>1, <3>2 DEF RowInv, Busy
  <2> QED BY <2>2, <2>3
<1>12. ASSUME NEW d \in Deliveries, AttemptPosted(d) PROVE RowInv(e)'
  <2>1. job' = [job EXCEPT ![d].step = "SENT"]
    BY <1>12 DEF AttemptPosted, SetJob
  <2>2. CASE e # d
    BY <1>0, <1>12, <2>1, <2>2, RowUntouched DEF AttemptPosted, TypeOK
  <2>3. CASE e = d
    <3>1. job'[e].step = "SENT" /\ job'[e].attempts = job[e].attempts
      BY <1>0, <2>1, <2>3 DEF TypeOK
    <3>2. /\ job[e].step = "attempt"
          /\ state' = state /\ attempts' = attempts
          /\ posts'[e] = posts[e] + 1 /\ lost'[e] = lost[e]
          /\ posts[e] \in Nat /\ lost[e] \in Nat
      BY <1>0, <1>12, <2>3 DEF AttemptPosted, TypeOK
    <3> QED BY <1>0, <3>1, <3>2 DEF RowInv, Busy
  <2> QED BY <2>2, <2>3
<1>13. ASSUME NEW d \in Deliveries, Finish(d) PROVE RowInv(e)'
  <2>1. CASE e # d
    BY <1>0, <1>13, <2>1, RowUntouched DEF Finish, DropJob, TypeOK
  <2>2. CASE e = d
    <3>1. /\ Busy(e) /\ job'[e] = NoJob /\ posts' = posts /\ lost' = lost
          /\ state'[e] = IF state[e] = "GONE" THEN "GONE" ELSE job[e].step
      BY <1>0, <1>13, <2>2 DEF Finish, DropJob, Outcomes, Busy, TypeOK
    <3> QED BY <1>0, <3>1 DEF RowInv, Busy, NoJob
  <2> QED BY <2>1, <2>2
<1>14. ASSUME NEW d \in Deliveries, FinishFails(d) PROVE RowInv(e)'
  <2>1. CASE e # d
    BY <1>0, <1>14, <2>1, RowUntouched DEF FinishFails, DropJob, CountLost, TypeOK
  <2>2. CASE e = d
    <3>1. /\ Busy(e) /\ job'[e] = NoJob /\ posts' = posts /\ state' = state
          /\ lost'[e] = IF job[e].step = "SENT" THEN lost[e] + 1 ELSE lost[e]
          /\ lost[e] \in Nat /\ posts[e] \in Nat
      BY <1>0, <1>14, <2>2 DEF FinishFails, DropJob, CountLost, Outcomes, Busy, TypeOK
    <3> QED BY <1>0, <3>1 DEF RowInv, Busy, NoJob
  <2> QED BY <2>1, <2>2
<1>15. ASSUME NEW d \in Deliveries, Defer(d) \/ Release(d) PROVE RowInv(e)'
  <2>1. CASE e # d
    BY <1>0, <1>15, <2>1, RowUntouched DEF Defer, Release, DropJob, TypeOK
  <2>2. CASE e = d
    BY <1>0, <1>15, <2>2, RowGivenBack DEF Defer, Release, DropJob, RowInv, Busy, TypeOK
  <2> QED BY <2>1, <2>2
<1>16. ASSUME NEW d \in Deliveries, DeferFails(d) PROVE RowInv(e)'
  BY <1>0, <1>16 DEF DeferFails, SetJob, RowInv, Busy, TypeOK
<1>17. ASSUME NEW d \in Deliveries, ReleaseFails(d) PROVE RowInv(e)'
  BY <1>0, <1>17 DEF ReleaseFails, DropJob, NoJob, RowInv, Busy, TypeOK
<1>18. ASSUME BatchDone PROVE RowInv(e)'
  BY <1>0, <1>18, RowUntouched DEF BatchDone
<1>19. ASSUME Crash PROVE RowInv(e)'
  <2>1. /\ job'[e] = NoJob /\ posts' = posts /\ state' = state
        /\ lost'[e] = IF job[e].step = "SENT" THEN lost[e] + 1 ELSE lost[e]
        /\ lost[e] \in Nat /\ posts[e] \in Nat
    BY <1>0, <1>19 DEF Crash, CountLost, TypeOK
  <2> QED BY <1>0, <2>1 DEF RowInv, Busy, NoJob
<1>20. ASSUME UNCHANGED vars PROVE RowInv(e)'
  BY <1>0, <1>20, RowUntouched DEF vars
<1> QED
  BY <1>1, <1>2, <1>3, <1>4, <1>5, <1>6, <1>7, <1>8, <1>9, <1>10, <1>11, <1>12,
     <1>13, <1>14, <1>15, <1>16, <1>17, <1>18, <1>19, <1>20
     DEF Next, Environment, Dispatch, Work

\* Every step keeps the phases of the dispatcher apart: only a claim starts a
\* batch, and only its end or a crash returns to the idle phase.
LEMMA PhaseStep == IndInv /\ [Next]_vars => PhaseInv'
<1> SUFFICES ASSUME IndInv, [Next]_vars, NEW e \in Deliveries
             PROVE  /\ phase' = "idle" => ~Busy(e)'
                    /\ phase' = "claimed" => job'[e].step \in {"none", "claimed"}
  BY DEF PhaseInv
<1> DEFINE Goal == /\ phase' = "idle" => ~Busy(e)'
                   /\ phase' = "claimed" => job'[e].step \in {"none", "claimed"}
<1>0. /\ TypeOK
      /\ phase = "idle" => job[e].step = "none"
      /\ phase = "claimed" => job[e].step \in {"none", "claimed"}
  BY DEF IndInv, PhaseInv, Busy
<1> USE DEF table, history, bounds
<1>1. ASSUME NEW d \in Deliveries,
             Create(d) \/ Elapse(d) \/ Requeue(d) \/ Prune(d) \/ DeleteChannel(d)
      PROVE Goal
  BY <1>0, <1>1 DEF Create, Elapse, Requeue, Prune, DeleteChannel, Busy
<1>2. ASSUME WindowBegins \/ WindowEnds \/ SaveSchedule \/ ReleaseQuietDeferred
      PROVE Goal
  BY <1>0, <1>2 DEF WindowBegins, WindowEnds, SaveSchedule, ReleaseQuietDeferred, Busy
<1>3. ASSUME NEW S \in Batches, Claim(S) PROVE Goal
  BY <1>0, <1>3 DEF Claim, NoJob
<1>4. ASSUME NEW S \in Batches, ClaimUnread(S) PROVE Goal
  BY <1>0, <1>4 DEF ClaimUnread, Busy
<1>5. ASSUME (\E isQuiet \in BOOLEAN : Resolve(isQuiet)) \/ Unresolved PROVE Goal
  BY <1>5 DEF Resolve, Unresolved
<1>6. ASSUME NEW d \in Deliveries, Work(d) PROVE Goal
  <2>1. phase' = phase /\ job[d].step \notin {"none", "claimed"}
    BY <1>6 DEF Work, AttemptRefused, AttemptFailed, AttemptAmbiguous, AttemptPosted,
                Finish, FinishFails, Defer, DeferFails, Release, ReleaseFails, Outcomes
  <2>2. phase = "working"
    BY <2>1 DEF IndInv, PhaseInv, TypeOK, Busy
  <2> QED BY <2>1, <2>2
<1>7. ASSUME BatchDone PROVE Goal
  BY <1>7 DEF BatchDone, Busy
<1>8. ASSUME Crash PROVE Goal
  BY <1>8 DEF Crash, NoJob, Busy
<1>9. ASSUME UNCHANGED vars PROVE Goal
  BY <1>0, <1>9 DEF vars, Busy
<1> QED
  BY <1>1, <1>2, <1>3, <1>4, <1>5, <1>6, <1>7, <1>8, <1>9
     DEF Next, Environment, Dispatch

-----------------------------------------------------------------------------
\* The accounts of one row's attempts.  A goroutine that has not attempted yet is
\* ahead of the attempts made by the one it was charged; nobody is charged for
\* more without a fault, and the budget leaves room for the attempt to come.
Untried(e) == job[e].step \in {"claimed", "attempt", "defer", "release"}
Waiting(e) == state[e] \in {"NONE", "PENDING", "SENDING"}
Charged(e) == IF Untried(e) THEN tries[e] + 1 ELSE tries[e]

TryInv(e) ==
    /\ state[e] # "GONE" => Charged(e) <= attempts[e]
    /\ faults = 0 /\ Waiting(e) => attempts[e] = Charged(e)
    /\ faults = 0 /\ state[e] = "SENDING" => Busy(e)
    /\ job[e].step = "release" => faults # 0
    /\ tries[e] <= MaxAttempts + faults
    /\ Untried(e) \/ (Waiting(e) /\ ~Busy(e)) => tries[e] < MaxAttempts + faults
    /\ job[e].step = "PENDING" /\ state[e] # "GONE" => tries[e] < MaxAttempts

\* A row nobody touches keeps its accounts, also when a fault strikes elsewhere.
LEMMA TryUntouched ==
    ASSUME IndInv, NEW e \in Deliveries, TryInv(e),
           state'[e] = state[e], attempts'[e] = attempts[e], job'[e] = job[e],
           tries'[e] = tries[e], faults' \in Nat, faults <= faults'
    PROVE  TryInv(e)'
<1>1. tries[e] \in Nat /\ faults \in Nat
  BY BoundsAssumption DEF IndInv, TypeOK
<1> QED BY <1>1, BudgetAssumption DEF TryInv, Untried, Waiting, Charged, Busy

\* Every step keeps the accounts of every row.
LEMMA TryStep ==
    ASSUME IndInv, [Next]_vars, NEW e \in Deliveries, TryInv(e)
    PROVE  TryInv(e)'
<1>0. TypeOK /\ PhaseInv /\ RowInv(e)
  BY IndInvByRows
<1>n. tries[e] \in Nat /\ attempts[e] \in Nat /\ faults \in Nat /\ job[e].attempts \in Nat
  BY <1>0, BoundsAssumption DEF TypeOK
<1>f. faults' \in Nat /\ faults <= faults'
  <2>1. faults' = faults \/ faults' = faults + 1
    BY DEF Next, Environment, Dispatch, Work, Create, Elapse, Requeue, Prune, DeleteChannel,
           WindowBegins, WindowEnds, SaveSchedule, ReleaseQuietDeferred, Claim, ClaimUnread,
           Resolve, Unresolved, AttemptRefused, AttemptFailed, AttemptAmbiguous, AttemptPosted,
           Finish, FinishFails, Defer, DeferFails, Release, ReleaseFails, BatchDone, Crash,
           Fault, vars, bounds
  <2> QED BY <1>n, <2>1
<1> USE DEF table, history, bounds
<1>1. ASSUME NEW d \in Deliveries, Create(d) PROVE TryInv(e)'
  <2>1. CASE e # d
    BY <1>0, <1>f, <1>1, <2>1, TryUntouched DEF Create, TypeOK
  <2>2. CASE e = d
    <3>1. /\ state[e] = "NONE" /\ state'[e] = "PENDING" /\ attempts' = attempts /\ job' = job
          /\ tries' = tries /\ faults' = faults /\ ~Busy(e)
      BY <1>0, <1>1, <2>2 DEF Create, TypeOK, RowInv
    <3> QED BY <1>n, <3>1 DEF TryInv, Untried, Waiting, Charged, Busy
  <2> QED BY <2>1, <2>2
<1>2. ASSUME NEW d \in Deliveries, Requeue(d) PROVE TryInv(e)'
  <2>1. CASE e # d
    BY <1>0, <1>f, <1>2, <2>1, TryUntouched DEF Requeue, TypeOK
  <2>2. CASE e = d
    <3>1. /\ state'[e] = "PENDING" /\ attempts'[e] = 0 /\ job' = job
          /\ tries'[e] = 0 /\ faults' = faults /\ job[e].step = "none"
      BY <1>0, <1>2, <2>2 DEF Requeue, TypeOK, RowInv, Busy
    <3> QED BY <1>n, <3>1, BudgetAssumption DEF TryInv, Untried, Waiting, Charged, Busy
  <2> QED BY <2>1, <2>2
<1>3. ASSUME NEW d \in Deliveries, Prune(d) \/ DeleteChannel(d) PROVE TryInv(e)'
  <2>1. CASE e # d
    BY <1>0, <1>f, <1>3, <2>1, TryUntouched DEF Prune, DeleteChannel, TypeOK
  <2>2. CASE e = d
    <3>1. /\ state'[e] = "GONE" /\ attempts' = attempts /\ job' = job
          /\ tries' = tries /\ faults' = faults
      BY <1>0, <1>3, <2>2 DEF Prune, DeleteChannel, TypeOK
    <3> QED BY <1>n, <3>1 DEF TryInv, Untried, Waiting, Charged, Busy
  <2> QED BY <2>1, <2>2
<1>4. ASSUME \/ \E d \in Deliveries : Elapse(d)
             \/ WindowBegins \/ WindowEnds \/ SaveSchedule \/ ReleaseQuietDeferred \/ BatchDone
             \/ UNCHANGED vars
      PROVE TryInv(e)'
  BY <1>f, <1>4, TryUntouched
     DEF Elapse, WindowBegins, WindowEnds, SaveSchedule, ReleaseQuietDeferred, BatchDone, vars
<1>5. ASSUME NEW S \in Batches, Claim(S) PROVE TryInv(e)'
  <2>1. ~Busy(e) /\ (e \in S => state[e] \in {"PENDING", "SENDING"}) /\ faults' = faults /\ tries' = tries
    BY <1>0, <1>5 DEF Claim, PhaseInv, Batches, Due, Queued
  <2>2. CASE e \in S
    <3>1. /\ state'[e] = "SENDING" /\ attempts'[e] = attempts[e] + 1 /\ job'[e].step = "claimed"
      BY <1>5, <2>2 DEF Claim, Lease
    <3> QED BY <1>n, <2>1, <2>2, <3>1 DEF TryInv, Untried, Waiting, Charged, Busy
  <2>3. CASE e \notin S
    <3>1. state'[e] = state[e] /\ attempts'[e] = attempts[e] /\ job'[e].step = "none"
      BY <1>5, <2>3 DEF Claim, Lease, NoJob
    <3> QED BY <1>n, <2>1, <3>1 DEF TryInv, Untried, Waiting, Charged, Busy
  <2> QED BY <2>2, <2>3
<1>6. ASSUME NEW S \in Batches, ClaimUnread(S) PROVE TryInv(e)'
  <2>1. ~Busy(e) /\ (e \in S => state[e] \in {"PENDING", "SENDING"}) /\ faults' = faults + 1
        /\ tries' = tries /\ job' = job
    BY <1>0, <1>6 DEF ClaimUnread, PhaseInv, Batches, Due, Queued, Fault
  <2>2. \/ state'[e] = state[e] /\ attempts'[e] = attempts[e]
        \/ e \in S /\ state'[e] = "SENDING" /\ attempts'[e] = attempts[e] + 1
    BY <1>6 DEF ClaimUnread, Lease
  <2> QED BY <1>n, <2>1, <2>2, BudgetAssumption DEF TryInv, Untried, Waiting, Charged, Busy
<1>7. ASSUME NEW isQuiet \in BOOLEAN, Resolve(isQuiet) PROVE TryInv(e)'
  <2>0. state' = state /\ attempts' = attempts /\ tries' = tries /\ faults' = faults
    BY <1>7 DEF Resolve
  <2>1. CASE ~Busy(e)
    <3>1. job'[e].step = "none"
      BY <1>7, <2>1 DEF Resolve, NoJob
    <3> QED BY <1>n, <2>0, <2>1, <3>1 DEF TryInv, Untried, Waiting, Charged, Busy
  <2>2. CASE Busy(e)
    <3>1. PICK step \in {"DEAD", "defer", "attempt"} :
            job'[e] = [job[e] EXCEPT !.step = step] /\ (step = "DEAD" => state[e] = "GONE")
      BY <1>7, <2>2 DEF Resolve
    <3>2. job'[e].step = step
      BY <1>0, <3>1 DEF TypeOK
    <3>3. job[e].step = "claimed"
      BY <1>0, <1>7, <2>2 DEF Resolve, PhaseInv, Busy
    <3> QED BY <1>n, <2>0, <3>1, <3>2, <3>3 DEF TryInv, Untried, Waiting, Charged, Busy
  <2> QED BY <2>1, <2>2
<1>8. ASSUME Unresolved PROVE TryInv(e)'
  <2>0. state' = state /\ attempts' = attempts /\ tries' = tries /\ faults' = faults + 1
    BY <1>8 DEF Unresolved, Fault
  <2>1. CASE ~Busy(e)
    <3>1. job'[e].step = "none"
      BY <1>8, <2>1 DEF Unresolved, NoJob
    <3> QED BY <1>n, <2>0, <2>1, <3>1, BudgetAssumption DEF TryInv, Untried, Waiting, Charged, Busy
  <2>2. CASE Busy(e)
    <3>1. job'[e].step = "release"
      BY <1>0, <1>8, <2>2 DEF Unresolved, TypeOK
    <3>2. job[e].step = "claimed"
      BY <1>0, <1>8, <2>2 DEF Unresolved, PhaseInv, Busy
    <3> QED BY <1>n, <2>0, <3>1, <3>2, BudgetAssumption DEF TryInv, Untried, Waiting, Charged, Busy
  <2> QED BY <2>1, <2>2
<1>9. ASSUME NEW d \in Deliveries,
             \/ AttemptRefused(d) \/ AttemptFailed(d) \/ AttemptAmbiguous(d) \/ AttemptPosted(d)
      PROVE TryInv(e)'
  <2>1. PICK step \in Outcomes : /\ job' = [job EXCEPT ![d].step = step]
                                 /\ step = "PENDING" => job[d].attempts < MaxAttempts
    BY <1>0, <1>9, BudgetAssumption
       DEF AttemptRefused, AttemptFailed, AttemptAmbiguous, AttemptPosted, SetJob, AfterFailure,
           Outcomes, TypeOK
  <2>2. /\ job[d].step = "attempt" /\ tries' = [tries EXCEPT ![d] = @ + 1]
        /\ state' = state /\ attempts' = attempts
    BY <1>9 DEF AttemptRefused, AttemptFailed, AttemptAmbiguous, AttemptPosted
  <2>3. CASE e # d
    BY <1>0, <1>f, <2>1, <2>2, <2>3, TryUntouched DEF TypeOK
  <2>4. CASE e = d
    <3>1. job'[e].step = step /\ tries'[e] = tries[e] + 1
      BY <1>0, <2>1, <2>2, <2>4 DEF TypeOK
    <3>2. state[e] # "GONE" => attempts[e] = job[e].attempts
      BY <1>0, <2>2, <2>4 DEF RowInv, Busy
    <3> QED
      BY <1>n, <1>f, <2>1, <2>2, <2>4, <3>1, <3>2, BudgetAssumption
         DEF TryInv, Untried, Waiting, Charged, Busy, Outcomes
  <2> QED BY <2>3, <2>4
<1>10. ASSUME NEW d \in Deliveries, Finish(d) PROVE TryInv(e)'
  <2>1. CASE e # d
    BY <1>0, <1>f, <1>10, <2>1, TryUntouched DEF Finish, DropJob, TypeOK
  <2>2. CASE e = d
    <3>1. /\ job[e].step \in Outcomes /\ job'[e].step = "none" /\ tries' = tries
          /\ attempts' = attempts /\ faults' = faults
          /\ state'[e] = IF state[e] = "GONE" THEN "GONE" ELSE job[e].step
      BY <1>0, <1>10, <2>2 DEF Finish, DropJob, NoJob, TypeOK
    <3>2. state[e] \in {"GONE", "SENDING"}
      BY <1>0, <3>1 DEF RowInv, Busy, Outcomes
    <3> QED BY <1>n, <3>1, <3>2, BudgetAssumption DEF TryInv, Untried, Waiting, Charged, Busy, Outcomes
  <2> QED BY <2>1, <2>2
<1>11. ASSUME NEW d \in Deliveries, FinishFails(d) PROVE TryInv(e)'
  <2>1. CASE e # d
    BY <1>0, <1>f, <1>11, <2>1, TryUntouched DEF FinishFails, DropJob, TypeOK
  <2>2. CASE e = d
    <3>1. /\ job[e].step \in Outcomes /\ job'[e].step = "none" /\ tries' = tries
          /\ attempts' = attempts /\ faults' = faults + 1 /\ state' = state
      BY <1>0, <1>11, <2>2 DEF FinishFails, DropJob, NoJob, TypeOK, Fault
    <3> QED BY <1>n, <3>1, BudgetAssumption DEF TryInv, Untried, Waiting, Charged, Busy, Outcomes
  <2> QED BY <2>1, <2>2
<1>12. ASSUME NEW d \in Deliveries, Defer(d) \/ Release(d) PROVE TryInv(e)'
  <2>1. CASE e # d
    BY <1>0, <1>f, <1>12, <2>1, TryUntouched DEF Defer, Release, DropJob, TypeOK
  <2>2. CASE e = d
    <3>1. /\ Untried(e) /\ job'[e].step = "none" /\ tries' = tries /\ faults' = faults
          /\ \/ state[e] # "SENDING" /\ state' = state /\ attempts' = attempts
             \/ state[e] = "SENDING" /\ state'[e] = "PENDING" /\ attempts'[e] = GiveBack(e)
      BY <1>0, <1>12, <2>2 DEF Defer, Release, DropJob, NoJob, TypeOK, Untried
    <3>2. state[e] \in {"GONE", "SENDING"}
      BY <1>0, <3>1 DEF RowInv, Busy, Untried
    <3> QED BY <1>n, <3>1, <3>2 DEF TryInv, Untried, Waiting, Charged, Busy, GiveBack
  <2> QED BY <2>1, <2>2
<1>13. ASSUME NEW d \in Deliveries, DeferFails(d) PROVE TryInv(e)'
  <2>1. CASE e # d
    BY <1>0, <1>f, <1>13, <2>1, TryUntouched DEF DeferFails, SetJob, TypeOK
  <2>2. CASE e = d
    <3>1. /\ job[e].step = "defer" /\ job'[e].step = "release" /\ tries' = tries
          /\ attempts' = attempts /\ faults' = faults + 1 /\ state' = state
      BY <1>0, <1>13, <2>2 DEF DeferFails, SetJob, TypeOK, Fault
    <3> QED BY <1>n, <3>1, BudgetAssumption DEF TryInv, Untried, Waiting, Charged, Busy
  <2> QED BY <2>1, <2>2
<1>14. ASSUME NEW d \in Deliveries, ReleaseFails(d) PROVE TryInv(e)'
  <2>1. CASE e # d
    BY <1>0, <1>f, <1>14, <2>1, TryUntouched DEF ReleaseFails, DropJob, TypeOK
  <2>2. CASE e = d
    <3>1. /\ job[e].step = "release" /\ job'[e].step = "none" /\ tries' = tries
          /\ attempts' = attempts /\ faults' = faults /\ state' = state
      BY <1>0, <1>14, <2>2 DEF ReleaseFails, DropJob, NoJob, TypeOK
    <3> QED BY <1>n, <3>1 DEF TryInv, Untried, Waiting, Charged, Busy
  <2> QED BY <2>1, <2>2
<1>15. ASSUME Crash PROVE TryInv(e)'
  <2>1. /\ job'[e].step = "none" /\ tries' = tries /\ attempts' = attempts
        /\ faults' = faults + 1 /\ state' = state
    BY <1>0, <1>15 DEF Crash, NoJob, Fault
  <2> QED BY <1>n, <2>1, BudgetAssumption DEF TryInv, Untried, Waiting, Charged, Busy
<1> QED
  BY <1>1, <1>2, <1>3, <1>4, <1>5, <1>6, <1>7, <1>8, <1>9, <1>10, <1>11, <1>12,
     <1>13, <1>14, <1>15 DEF Next, Environment, Dispatch, Work

-----------------------------------------------------------------------------
\* The inductive invariant of the outbox holds for every set of deliveries,
\* whatever the budget, the claim limit and the bounds.
THEOREM Invariance == Spec => []IndInv
<1>1. Init => IndInv
  <2> SUFFICES ASSUME Init PROVE IndInv
    OBVIOUS
  <2>1. TypeOK
    BY DEF Init, TypeOK, States, JobSteps, NoJob
  <2>2. PhaseInv /\ \A e \in Deliveries : RowInv(e)
    BY DEF Init, PhaseInv, RowInv, Busy, NoJob
  <2> QED BY <2>1, <2>2, IndInvByRows
<1>2. IndInv /\ [Next]_vars => IndInv'
  <2> SUFFICES ASSUME IndInv, [Next]_vars PROVE IndInv'
    OBVIOUS
  <2>1. TypeOK'
    BY TypeStep DEF IndInv
  <2>2. PhaseInv'
    BY PhaseStep
  <2>3. \A e \in Deliveries : RowInv(e)'
    BY RowStep
  <2> QED BY <2>1, <2>2, <2>3 DEF IndInv, OwnsLease, PostsAccounted, RowInv
<1> QED BY <1>1, <1>2, PTL DEF Spec

\* Every reachable state of the table and of the dispatcher is well typed.
THEOREM TypeCorrect == Spec => []TypeOK
<1>1. IndInv => TypeOK
  BY DEF IndInv
<1> QED BY <1>1, Invariance, PTL

\* A goroutine of the dispatcher that still has to write an outcome owns the
\* lease it finishes: FinishNotificationDelivery may update by id alone.
THEOREM LeasesOwned == Spec => []OwnsLease
<1>1. IndInv => OwnsLease
  BY DEF IndInv
<1> QED BY <1>1, Invariance, PTL

\* A channel receives an event once, plus once for every accepted post whose
\* success was never recorded.
THEOREM NoUnexplainedDuplicate == Spec => []DuplicatesExplained
<1>1. IndInv => DuplicatesExplained
  <2> SUFFICES ASSUME IndInv, NEW d \in Deliveries
               PROVE  /\ posts[d] <= lost[d] + 1
                      /\ state[d] = "SENT" => posts[d] = lost[d] + 1
    BY DEF DuplicatesExplained
  <2>1. posts[d] \in Nat /\ lost[d] \in Nat
    BY DEF IndInv, TypeOK
  <2> QED BY <2>1 DEF IndInv, PostsAccounted
<1> QED BY <1>1, Invariance, PTL

\* A posted row leaves the state SENT only by being deleted: no claim, retry,
\* late outcome or release brings it back.
THEOREM SentStays == Spec => SentIsTerminal
<1>1. IndInv /\ [Next]_vars
        => [\A d \in Deliveries : state[d] = "SENT" => state'[d] \in {"SENT", "GONE"}]_vars
  <2> SUFFICES ASSUME IndInv, [Next]_vars, NEW d \in Deliveries, state[d] = "SENT"
               PROVE  state'[d] \in {"SENT", "GONE"}
    OBVIOUS
  <2> USE DEF table, history, bounds
  <2>0. TypeOK /\ job[d].step = "none"
    BY DEF IndInv, OwnsLease, Busy
  <2>1. ASSUME Environment PROVE state'[d] \in {"SENT", "GONE"}
    BY <2>0, <2>1 DEF Environment, Create, Elapse, Requeue, Prune, DeleteChannel,
         WindowBegins, WindowEnds, SaveSchedule, ReleaseQuietDeferred, TypeOK
  <2>2. ASSUME NEW S \in Batches, Claim(S) \/ ClaimUnread(S)
        PROVE  state'[d] \in {"SENT", "GONE"}
    <3>1. d \notin S
      BY DEF Batches, Due, Queued
    <3> QED BY <2>2, <3>1 DEF Claim, ClaimUnread, Lease
  <2>3. ASSUME NEW c \in Deliveries, Work(c) PROVE state'[d] \in {"SENT", "GONE"}
    <3>1. c # d
      BY <2>0, <2>3 DEF Work, AttemptRefused, AttemptFailed, AttemptAmbiguous,
           AttemptPosted, Finish, FinishFails, Defer, DeferFails, Release,
           ReleaseFails, Outcomes
    <3> QED BY <2>0, <2>3, <3>1 DEF Work, AttemptRefused, AttemptFailed,
           AttemptAmbiguous, AttemptPosted, Finish, FinishFails, Defer, DeferFails,
           Release, ReleaseFails, TypeOK
  <2>4. ASSUME \/ \E isQuiet \in BOOLEAN : Resolve(isQuiet)
               \/ Unresolved \/ BatchDone \/ Crash \/ UNCHANGED vars
        PROVE  state'[d] \in {"SENT", "GONE"}
    BY <2>4 DEF Resolve, Unresolved, BatchDone, Crash, vars
  <2> QED BY <2>1, <2>2, <2>3, <2>4 DEF Next, Dispatch
<1> QED BY <1>1, Invariance, PTL DEF Spec, SentIsTerminal

\* The accounts of every row hold in every reachable state.
THEOREM AttemptsAccounted == Spec => [](\A d \in Deliveries : TryInv(d))
<1> DEFINE Inv == \A d \in Deliveries : TryInv(d)
<1>1. Init => Inv
  BY BudgetAssumption DEF Init, TryInv, Untried, Waiting, Charged, Busy, NoJob
<1>2. IndInv /\ Inv /\ [Next]_vars => Inv'
  BY TryStep
<1> QED BY <1>1, <1>2, Invariance, PTL DEF Spec

\* Waiting costs no attempt: while no statement failed, a pending row was charged
\* for exactly the attempts made on it, however often a quiet window deferred it.
THEOREM WaitingCostsNothing == Spec => []WaitingIsFree
<1>1. (\A d \in Deliveries : TryInv(d)) /\ IndInv => WaitingIsFree
  <2> SUFFICES ASSUME IndInv, NEW d \in Deliveries, TryInv(d), faults = 0, state[d] = "PENDING"
               PROVE  attempts[d] = tries[d]
    BY DEF WaitingIsFree
  <2>1. ~Untried(d)
    BY DEF IndInv, OwnsLease, Busy, Untried
  <2> QED BY <2>1 DEF TryInv, Waiting, Charged
<1> QED BY <1>1, AttemptsAccounted, Invariance, PTL

\* The attempt budget ends: a row is attempted at most MaxAttempts times, plus once
\* for every fault that kept an outcome from its row.
THEOREM BudgetIsFinite == Spec => []BudgetEnds
<1>1. (\A d \in Deliveries : TryInv(d)) => BudgetEnds
  BY DEF TryInv, BudgetEnds
<1> QED BY <1>1, AttemptsAccounted, PTL
=============================================================================
