------------------------- MODULE LineageQueueProofs -------------------------
(***************************************************************************)
(* Proofs about the lineage analyzer's queues, for every set of objects    *)
(* and every number of versions, retries and faults: the types, that no    *)
(* request is lost, and that stored lineage never goes back to an older    *)
(* definition.                                                             *)
(*                                                                         *)
(* The argument: from the moment a definition changes until its lineage is *)
(* stored, something holds the request - the writer that has yet to queue  *)
(* it, the call under queueMu, an entry of a queue, or the worker that     *)
(* withdrew the entry to retry it.  A worker only deletes the generation   *)
(* it selected, and a request that arrives after the worker has read the   *)
(* definition always brings a generation of its own.                       *)
(***************************************************************************)
EXTENDS LineageQueue, TLAPS

-----------------------------------------------------------------------------
\* The inductive invariant.

\* Workers exist only while their batch does.
BatchInv ==
    /\ drain = "idle" => \A q \in Queues, k \in Keys : ~Working(q, k)
    /\ drain = "taking" => \A k \in Keys : ~Working("scan", k)

\* A worker serves a generation, and backs off only within its budget.
WorkerInv ==
    \A q \in Queues, k \in Keys :
      /\ Working(q, k) => worker[q][k].generation # 0
      /\ worker[q][k].pc = "backoff" => worker[q][k].attempts <= MaxRetries

\* The call under queueMu is about the key, or requests its analysis.
Served(k) == enq.op # "none" /\ enq.key = k
Asked(k) == enq.op = "request" /\ enq.key = k

\* QueueAnalysis has deleted the scan entry when it stores the event entry.
UnscannedInv == enq.op = "request" /\ enq.step = "store" => queue["scan"][enq.key] = 0

\* An entry about to be consumed is not the one that carries a later change.
ConsumeInv ==
    \A q \in Queues, k \in Keys :
      worker[q][k].pc = "consume" /\ Owns(q, k) /\ NeedsAnalysis(k) => wanted[k] \/ Asked(k)

\* The worker has withdrawn the entry and has yet to put it back or give up.
Carrying == {"count", "giveup", "backoff", "requeue"}

\* A request has a holder.
HolderInv ==
    \A k \in Keys :
      NeedsAnalysis(k) /\ ~leftToScan[k] =>
        \/ wanted[k] \/ Served(k)
        \/ \E q \in Queues : queue[q][k] # 0
        \/ \E q \in Queues : worker[q][k].pc \in Carrying

IndInv == QueueTypes /\ BatchInv /\ WorkerInv /\ UnscannedInv /\ ConsumeInv /\ HolderInv

-----------------------------------------------------------------------------
\* The operators.

\* The counter never repeats a generation in use.
LEMMA FreshGeneration ==
    ASSUME QueueTypes, NEW k \in Keys
    PROVE  /\ NextGeneration(k) \in Generations
           /\ \A q \in Queues : NextGeneration(k) # queue[q][k]
                                /\ NextGeneration(k) # worker[q][k].generation
  <1>1. \E g \in Generations : g \notin InUse(k)
    <2>1. PICK a, b, c, d : /\ a = queue["event"][k] /\ b = queue["scan"][k]
                            /\ c = worker["event"][k].generation
                            /\ d = worker["scan"][k].generation
      OBVIOUS
    <2>2. InUse(k) = {a, b, c, d}  BY <2>1 DEF InUse, Queues
    <2>3. a \in Nat /\ b \in Nat /\ c \in Nat /\ d \in Nat
      <3>1. \A q \in Queues : queue[q][k] \in {0} \cup Generations
                               /\ worker[q][k] \in WorkerStates
        BY DEF QueueTypes
      <3>2. \A q \in Queues : worker[q][k].generation \in {0} \cup Generations
        BY <3>1, Zenon DEF WorkerStates
      <3> QED BY <2>1, <3>1, <3>2 DEF Queues, Generations
    <2>4. \E g \in 1 .. 5 : g # a /\ g # b /\ g # c /\ g # d
      BY <2>3
    <2> QED BY <2>2, <2>4 DEF Generations
  <1>2. NextGeneration(k) \in Generations /\ NextGeneration(k) \notin InUse(k)
    BY <1>1 DEF NextGeneration
  <1> QED BY <1>2 DEF InUse

LEMMA KindsOfCall ==
    ASSUME QueueTypes
    PROVE  /\ enq.op \in {"none", "request", "scan"}
           /\ enq = NoCall <=> enq.op = "none"
           /\ enq.op # "none" => enq.key \in Keys
           /\ enq.op = "request" => enq.step \in {"scan", "store"}
                                    /\ enq.caller \in {"writer"} \cup Queues
  BY DEF QueueTypes, Calls, NoCall

\* One worker moves, the others stay, and all stay well typed.
Moves(q, k) ==
    /\ worker' \in [Queues -> [Keys -> WorkerStates]]
    /\ \A p \in Queues, j \in Keys : p # q \/ j # k => worker'[p][j] = worker[p][j]

LEMMA WorkerSet ==
    ASSUME QueueTypes, NEW q \in Queues, NEW k \in Keys, NEW s \in WorkerStates,
           worker' = [worker EXCEPT ![q][k] = s]
    PROVE  Moves(q, k) /\ worker'[q][k] = s
  BY DEF QueueTypes, Moves

LEMMA GotoEffect ==
    ASSUME QueueTypes, NEW q \in Queues, NEW k \in Keys, NEW pc \in WorkerSteps, Goto(q, k, pc)
    PROVE  /\ Moves(q, k)
           /\ worker'[q][k].pc = pc /\ worker'[q][k].generation = worker[q][k].generation
           /\ worker'[q][k].text = worker[q][k].text
           /\ worker'[q][k].attempts = worker[q][k].attempts
  <1>1. PICK s : s = [worker[q][k] EXCEPT !.pc = pc]  OBVIOUS
  <1>2. worker[q][k] \in WorkerStates  BY DEF QueueTypes
  <1>3. /\ s \in WorkerStates /\ s.pc = pc /\ s.generation = worker[q][k].generation
        /\ s.text = worker[q][k].text /\ s.attempts = worker[q][k].attempts
    BY <1>1, <1>2 DEF WorkerStates
  <1>4. worker' = [worker EXCEPT ![q][k] = s]  BY <1>1 DEF Goto, QueueTypes
  <1> QED BY <1>3, <1>4, WorkerSet

LEMMA ReturnEffect ==
    ASSUME QueueTypes, NEW q \in Queues, NEW k \in Keys, NEW pc \in WorkerSteps, Return(q, k, pc)
    PROVE  /\ Moves(q, k)
           /\ worker'[q][k].pc = pc /\ worker'[q][k].generation = worker[q][k].generation
  <1>1. PICK s : s = [worker[q][k] EXCEPT !.pc = pc, !.text = 0]  OBVIOUS
  <1>2. worker[q][k] \in WorkerStates /\ 0 \in 0 .. MaxText  BY BoundAssumption DEF QueueTypes
  <1>3. s \in WorkerStates /\ s.pc = pc /\ s.generation = worker[q][k].generation
    BY <1>1, <1>2, Zenon DEF WorkerStates
  <1>4. worker' = [worker EXCEPT ![q][k] = s]  BY <1>1 DEF Return, QueueTypes
  <1> QED BY <1>3, <1>4, WorkerSet

LEMMA NoWorkerTyped == NoWorker \in WorkerStates /\ NoWorker.pc = "none" /\ NoWorker.generation = 0
  BY BoundAssumption DEF NoWorker, WorkerStates, WorkerSteps

LEMMA ExitEffect ==
    ASSUME QueueTypes, NEW q \in Queues, NEW k \in Keys, Exit(q, k)
    PROVE  Moves(q, k) /\ worker'[q][k].pc = "none"
  BY NoWorkerTyped, WorkerSet, ZenonT(60) DEF Exit

LEMMA NoRetryTyped == NoRetry \in Retries
  <1>1. 0 \in 0 .. MaxRetries /\ "event" \in Queues /\ FALSE \in BOOLEAN
    BY BoundAssumption DEF Queues
  <1> QED BY <1>1, Zenon DEF NoRetry, Retries

\* One entry is written.
LEMMA EntrySet ==
    ASSUME QueueTypes, NEW q \in Queues, NEW k \in Keys, NEW g \in {0} \cup Generations,
           queue' = [queue EXCEPT ![q][k] = g]
    PROVE  /\ queue' \in [Queues -> [Keys -> {0} \cup Generations]]
           /\ queue'[q][k] = g
           /\ \A p \in Queues, j \in Keys : p # q \/ j # k => queue'[p][j] = queue[p][j]
  BY DEF QueueTypes

-----------------------------------------------------------------------------
\* The workers' steps.

\* The types of what a worker's step may change besides itself.
Rest ==
    /\ analyzed' \in [Keys -> 0 .. MaxText] /\ queue' \in [Queues -> [Keys -> {0} \cup Generations]]
    /\ retry' \in [Keys -> Retries] /\ leftToScan' \in [Keys -> BOOLEAN] /\ faults' \in 0 .. MaxFaults
    /\ UNCHANGED <<text, wanted, enq, scanList, drain>>

\* What every step of worker (q, k) keeps: the types, its batch and its budget.
LEMMA WorkerStepKeeps ==
    ASSUME IndInv, NEW q \in Queues, NEW k \in Keys, Moves(q, k), Working(q, k), Rest,
           \/ worker'[q][k].pc = "none"
           \/ /\ worker'[q][k].generation = worker[q][k].generation
              /\ worker'[q][k].pc = "backoff" => worker'[q][k].attempts <= MaxRetries
    PROVE  QueueTypes' /\ BatchInv' /\ WorkerInv'
  <1>1. QueueTypes'  BY DEF IndInv, QueueTypes, Moves, Rest
  <1>2. BatchInv'
    <2>1. \A p \in Queues, j \in Keys : ~Working(p, j) => worker'[p][j] = worker[p][j]
      BY DEF Moves
    <2> QED BY <2>1 DEF IndInv, BatchInv, Working, Rest, Queues
  <1>3. WorkerInv'
    BY DEF IndInv, WorkerInv, Working, Moves
  <1> QED BY <1>1, <1>2, <1>3

\* A worker's step that leaves the queues and the stored versions alone.
LEMMA QuietWorker ==
    ASSUME IndInv, NEW q \in Queues, NEW k \in Keys, Moves(q, k), Working(q, k), Rest,
           UNCHANGED <<queue, analyzed>>,
           \A j \in Keys : leftToScan[j] => leftToScan'[j],
           worker'[q][k].pc # "consume",
           \/ worker'[q][k].pc = "none"
           \/ /\ worker'[q][k].generation = worker[q][k].generation
              /\ worker'[q][k].pc = "backoff" => worker'[q][k].attempts <= MaxRetries,
           worker[q][k].pc \in Carrying =>
             worker'[q][k].pc \in Carrying \/ leftToScan'[k] \/ queue["event"][k] # 0
    PROVE  IndInv'
  <1>1. QueueTypes' /\ BatchInv' /\ WorkerInv'  BY WorkerStepKeeps
  <1>2. UnscannedInv'  BY DEF IndInv, UnscannedInv, Rest
  <1>3. ConsumeInv'
    BY DEF IndInv, ConsumeInv, Owns, NeedsAnalysis, Asked, Moves, Rest
  <1>4. HolderInv'
    <2> SUFFICES ASSUME NEW j \in Keys, NeedsAnalysis(j), ~leftToScan'[j]
                 PROVE  \/ wanted[j] \/ Served(j)
                        \/ \E p \in Queues : queue[p][j] # 0
                        \/ \E p \in Queues : worker'[p][j].pc \in Carrying
      BY DEF HolderInv, NeedsAnalysis, Served, Rest
    <2>1. ~leftToScan[j]  OBVIOUS
    <2>2. "event" \in Queues  BY DEF Queues
    <2> QED BY <2>1, <2>2 DEF IndInv, HolderInv, Moves
  <1> QED BY <1>1, <1>2, <1>3, <1>4 DEF IndInv

LEMMA AnalyzeReadInv ==
    ASSUME IndInv, CacheTypes, NEW q \in Queues, NEW k \in Keys, AnalyzeRead(q, k)
    PROVE  IndInv'
  <1>0. PICK found \in 0 .. MaxText : found = IF cache[k] # 0 THEN cache[k] ELSE text[k]
    BY DEF CacheTypes, IndInv, QueueTypes
  <1>1. PICK pc \in {"failed", "read"} : pc = IF found = 0 THEN "failed" ELSE "read"  OBVIOUS
  <1>2. PICK s : s = [worker[q][k] EXCEPT !.pc = pc, !.text = found]  OBVIOUS
  <1>3. /\ s \in WorkerStates /\ s.pc = pc /\ s.generation = worker[q][k].generation
    <2>1. worker[q][k] \in WorkerStates /\ pc \in WorkerSteps
      BY DEF IndInv, QueueTypes, WorkerSteps
    <2> QED BY <1>2, <2>1, Zenon DEF WorkerStates
  <1>4. worker' = [worker EXCEPT ![q][k] = s]
    BY <1>0, <1>1, <1>2 DEF AnalyzeRead, IndInv, QueueTypes
  <1>5. Moves(q, k) /\ worker'[q][k] = s  BY <1>3, <1>4, WorkerSet DEF IndInv
  <1>6. Working(q, k) /\ Rest /\ UNCHANGED <<queue, analyzed, leftToScan>>
        /\ worker[q][k].pc \notin Carrying
    BY DEF AnalyzeRead, Working, Rest, IndInv, QueueTypes, Carrying
  <1> QED BY <1>3, <1>5, <1>6, QuietWorker

LEMMA AnalyzeFailsInv ==
    ASSUME IndInv, NEW q \in Queues, NEW k \in Keys, AnalyzeFails(q, k)
    PROVE  IndInv'
  <1>1. Moves(q, k) /\ worker'[q][k].pc = "failed"
        /\ worker'[q][k].generation = worker[q][k].generation
    BY ReturnEffect DEF AnalyzeFails, IndInv, WorkerSteps
  <1>2. faults' \in 0 .. MaxFaults  BY BoundAssumption DEF AnalyzeFails, IndInv, QueueTypes
  <1>3. Working(q, k) /\ Rest /\ UNCHANGED <<queue, analyzed, leftToScan>>
        /\ worker[q][k].pc \notin Carrying
    BY <1>2 DEF AnalyzeFails, Working, Rest, IndInv, QueueTypes, Carrying
  <1> QED BY <1>1, <1>3, QuietWorker

LEMMA ClearRetryInv ==
    ASSUME IndInv, NEW q \in Queues, NEW k \in Keys, ClearRetry(q, k)
    PROVE  IndInv'
  <1>1. Moves(q, k) /\ worker'[q][k].pc = "none"  BY ExitEffect DEF ClearRetry, IndInv
  <1>2. retry' \in [Keys -> Retries]  BY NoRetryTyped DEF ClearRetry, IndInv, QueueTypes
  <1>3. Working(q, k) /\ Rest /\ UNCHANGED <<queue, analyzed, leftToScan>>
        /\ worker[q][k].pc \notin Carrying
    BY <1>2 DEF ClearRetry, Working, Rest, IndInv, QueueTypes, Carrying
  <1> QED BY <1>1, <1>3, QuietWorker

LEMMA CheckSupersededInv ==
    ASSUME IndInv, NEW q \in Queues, NEW k \in Keys, CheckSuperseded(q, k)
    PROVE  IndInv'
  <1>1. /\ Moves(q, k)
        /\ \/ worker'[q][k].pc = "none"
           \/ worker'[q][k].pc = "withdraw" /\ worker'[q][k].generation = worker[q][k].generation
    BY GotoEffect, ExitEffect DEF CheckSuperseded, IndInv, WorkerSteps
  <1>2. Working(q, k) /\ Rest /\ UNCHANGED <<queue, analyzed, leftToScan>>
        /\ worker[q][k].pc \notin Carrying
    BY DEF CheckSuperseded, Working, Rest, IndInv, QueueTypes, Carrying
  <1> QED BY <1>1, <1>2, QuietWorker

LEMMA CountAttemptInv ==
    ASSUME IndInv, NEW q \in Queues, NEW k \in Keys, CountAttempt(q, k)
    PROVE  IndInv'
  <1> DEFINE n == retry[k].attempts + 1
  <1>1. n \in 0 .. MaxRetries + 1
    <2>1. retry[k].attempts \in 0 .. MaxRetries  BY DEF IndInv, QueueTypes, Retries
    <2> QED BY <2>1, BoundAssumption
  <1>2. PICK pc \in {"giveup", "backoff"} : pc = IF n > MaxRetries THEN "giveup" ELSE "backoff"
    OBVIOUS
  <1>3. PICK s : s = [worker[q][k] EXCEPT !.attempts = n, !.pc = pc]  OBVIOUS
  <1>4. s \in WorkerStates /\ s.pc = pc /\ s.generation = worker[q][k].generation /\ s.attempts = n
    <2>1. worker[q][k] \in WorkerStates /\ pc \in WorkerSteps
      BY DEF IndInv, QueueTypes, WorkerSteps
    <2> HIDE DEF n
    <2> QED BY <1>1, <1>3, <2>1, Zenon DEF WorkerStates
  <1>5. worker' = [worker EXCEPT ![q][k] = s]
    BY <1>2, <1>3 DEF CountAttempt, IndInv, QueueTypes
  <1>6. Moves(q, k) /\ worker'[q][k] = s  BY <1>4, <1>5, WorkerSet DEF IndInv
  <1>7. pc = "backoff" => n <= MaxRetries  BY <1>1, <1>2, BoundAssumption
  <1>8. Working(q, k) /\ Rest /\ UNCHANGED <<queue, analyzed, leftToScan>> /\ pc \in Carrying
    BY DEF CountAttempt, Working, Rest, IndInv, QueueTypes, Carrying
  <1> QED BY <1>4, <1>6, <1>7, <1>8, QuietWorker

LEMMA GiveUpInv ==
    ASSUME IndInv, NEW q \in Queues, NEW k \in Keys, GiveUp(q, k)
    PROVE  IndInv'
  <1>1. Moves(q, k) /\ worker'[q][k].pc = "none"  BY ExitEffect DEF GiveUp, IndInv
  <1>2. retry' \in [Keys -> Retries]  BY NoRetryTyped DEF GiveUp, IndInv, QueueTypes
  <1>3. /\ leftToScan' \in [Keys -> BOOLEAN] /\ leftToScan'[k]
        /\ \A j \in Keys : leftToScan[j] => leftToScan'[j]
    BY DEF GiveUp, IndInv, QueueTypes
  <1>4. Working(q, k) /\ Rest /\ UNCHANGED <<queue, analyzed>>
    BY <1>2, <1>3 DEF GiveUp, Working, Rest, IndInv, QueueTypes
  <1> QED BY <1>1, <1>3, <1>4, QuietWorker

LEMMA StoreBackoffInv ==
    ASSUME IndInv, NEW q \in Queues, NEW k \in Keys, StoreBackoff(q, k)
    PROVE  IndInv'
  <1>1. Moves(q, k) /\ worker'[q][k].pc = "requeue"
        /\ worker'[q][k].generation = worker[q][k].generation
    BY GotoEffect DEF StoreBackoff, IndInv, WorkerSteps
  <1>2. PICK s : s = [attempts |-> worker[q][k].attempts, waiting |-> TRUE, by |-> q]  OBVIOUS
  <1>3. s \in Retries
    <2>1. worker[q][k].attempts \in 0 .. MaxRetries
      <3>1. worker[q][k].attempts \in 0 .. MaxRetries + 1  BY DEF IndInv, QueueTypes, WorkerStates
      <3>2. worker[q][k].attempts <= MaxRetries  BY DEF IndInv, WorkerInv, StoreBackoff
      <3> QED BY <3>1, <3>2, BoundAssumption
    <2>2. TRUE \in BOOLEAN  OBVIOUS
    <2> QED BY <1>2, <2>1, <2>2, Zenon DEF Retries
  <1>4. retry' \in [Keys -> Retries]  BY <1>2, <1>3 DEF StoreBackoff, IndInv, QueueTypes
  <1>5. Working(q, k) /\ Rest /\ UNCHANGED <<queue, analyzed, leftToScan>>
    BY <1>4 DEF StoreBackoff, Working, Rest, IndInv, QueueTypes
  <1>6. worker'[q][k].pc \in Carrying  BY <1>1 DEF Carrying
  <1> QED BY <1>1, <1>5, <1>6, QuietWorker

LEMMA YieldInv ==
    ASSUME IndInv, NEW q \in Queues, NEW k \in Keys, Yield(q, k)
    PROVE  IndInv'
  <1>1. Moves(q, k) /\ worker'[q][k].pc = "none"  BY ExitEffect DEF Yield, IndInv
  <1>2. retry' \in [Keys -> Retries]
    <2>1. retry' = [retry EXCEPT ![k] = NoRetry] \/ retry' = retry
      BY DEF Yield, IndInv, QueueTypes
    <2> QED BY <2>1, NoRetryTyped DEF IndInv, QueueTypes
  <1>3. Working(q, k) /\ Rest /\ UNCHANGED <<queue, analyzed, leftToScan>>
        /\ worker[q][k].pc \notin Carrying
    BY <1>2 DEF Yield, Working, Rest, IndInv, QueueTypes, Carrying
  <1> QED BY <1>1, <1>3, QuietWorker

\* The stored version only becomes the current definition.
LEMMA AnalyzeWriteInv ==
    ASSUME IndInv, NEW q \in Queues, NEW k \in Keys, AnalyzeWrite(q, k)
    PROVE  IndInv'
  <1>1. PICK pc \in {"consume", "stale"} : pc = AfterWrite(q, k)  BY DEF AfterWrite
  <1>2. /\ Moves(q, k) /\ worker'[q][k].pc = pc
        /\ worker'[q][k].generation = worker[q][k].generation
    <2>1. pc \in WorkerSteps /\ Return(q, k, pc)  BY <1>1 DEF AnalyzeWrite, WorkerSteps
    <2> QED BY <2>1, ReturnEffect DEF IndInv
  <1>3. /\ analyzed' \in [Keys -> 0 .. MaxText]
        /\ \A j \in Keys : analyzed'[j] = analyzed[j] \/ analyzed'[j] = text[j]
        /\ text[k] = worker[q][k].text => analyzed'[k] = text[k]
    BY DEF AnalyzeWrite, IndInv, QueueTypes
  <1>4. Working(q, k) /\ Rest /\ UNCHANGED <<queue, leftToScan>> /\ worker[q][k].pc = "read"
    BY <1>3 DEF AnalyzeWrite, Working, Rest, IndInv, QueueTypes
  <1>5. QueueTypes' /\ BatchInv' /\ WorkerInv'  BY <1>1, <1>2, <1>4, WorkerStepKeeps
  <1>6. \A j \in Keys : NeedsAnalysis(j)' => NeedsAnalysis(j)
    BY <1>3, <1>4 DEF NeedsAnalysis, Rest
  <1>7. pc = "consume" => ~NeedsAnalysis(k)'
    BY <1>1, <1>3, <1>4 DEF AfterWrite, NeedsAnalysis, Rest
  <1>8. UnscannedInv'  BY <1>4 DEF IndInv, UnscannedInv, Rest
  <1>9. ConsumeInv'
    <2> SUFFICES ASSUME NEW p \in Queues, NEW j \in Keys, worker'[p][j].pc = "consume",
                        Owns(p, j)', NeedsAnalysis(j)'
                 PROVE  wanted'[j] \/ Asked(j)'
      BY DEF ConsumeInv
    <2>1. p # q \/ j # k  BY <1>2, <1>7
    <2>2. Owns(p, j) /\ worker[p][j].pc = "consume"  BY <1>2, <1>4, <2>1 DEF Owns, Moves
    <2> QED BY <1>4, <1>6, <2>2 DEF IndInv, ConsumeInv, Asked, Rest
  <1>10. HolderInv'
    <2>1. \A p \in Queues, j \in Keys : worker[p][j].pc \in Carrying => worker'[p][j].pc \in Carrying
      BY <1>2, <1>4 DEF Moves, Carrying
    <2> QED BY <1>4, <1>6, <2>1 DEF IndInv, HolderInv, Served, Rest
  <1> QED BY <1>5, <1>8, <1>9, <1>10 DEF IndInv

\* The effect of deleting the entry a worker served.
LEMMA ConsumeEffect ==
    ASSUME QueueTypes, NEW q \in Queues, NEW k \in Keys, Consume(q, k)
    PROVE  /\ queue' \in [Queues -> [Keys -> {0} \cup Generations]]
           /\ queue'[q][k] = IF Owns(q, k) THEN 0 ELSE queue[q][k]
           /\ \A p \in Queues, j \in Keys : p # q \/ j # k => queue'[p][j] = queue[p][j]
  <1>1. PICK g \in {0} \cup Generations : g = IF Owns(q, k) THEN 0 ELSE queue[q][k]
    BY ZenonT(60) DEF QueueTypes
  <1>2. queue' = [queue EXCEPT ![q][k] = g]  BY <1>1 DEF Consume, QueueTypes
  <1>3. /\ queue' \in [Queues -> [Keys -> {0} \cup Generations]]
        /\ queue'[q][k] = g
        /\ \A p \in Queues, j \in Keys : p # q \/ j # k => queue'[p][j] = queue[p][j]
    BY <1>2, EntrySet, ZenonT(60)
  <1> QED BY <1>1, <1>3

\* A worker that deletes an entry leaves the other invariants of the queues.
LEMMA ConsumeKeeps ==
    ASSUME IndInv, NEW q \in Queues, NEW k \in Keys, Consume(q, k), Moves(q, k), Rest,
           UNCHANGED <<analyzed, leftToScan>>,
           Working(q, k), worker'[q][k].pc # "consume",
           worker'[q][k].pc = "none" \/ worker'[q][k].generation = worker[q][k].generation
    PROVE  UnscannedInv' /\ ConsumeInv'
  <1>1. /\ queue'[q][k] = IF Owns(q, k) THEN 0 ELSE queue[q][k]
        /\ \A p \in Queues, j \in Keys : p # q \/ j # k => queue'[p][j] = queue[p][j]
    BY ConsumeEffect DEF IndInv
  <1>2. UnscannedInv'
    <2>1. "scan" \in Queues  BY DEF Queues
    <2>2. \A j \in Keys : queue["scan"][j] = 0 => queue'["scan"][j] = 0  BY <1>1, <2>1
    <2> QED BY <2>2, KindsOfCall DEF IndInv, UnscannedInv, Rest
  <1>3. ConsumeInv'
    <2> SUFFICES ASSUME NEW p \in Queues, NEW j \in Keys, worker'[p][j].pc = "consume",
                        Owns(p, j)', NeedsAnalysis(j)'
                 PROVE  wanted'[j] \/ Asked(j)'
      BY DEF ConsumeInv
    <2>1. p # q \/ j # k  OBVIOUS
    <2>2. Owns(p, j) /\ worker[p][j].pc = "consume"  BY <1>1, <2>1 DEF Owns, Moves
    <2> QED BY <2>2 DEF IndInv, ConsumeInv, Asked, NeedsAnalysis, Rest
  <1> QED BY <1>2, <1>3

LEMMA FinishInv ==
    ASSUME IndInv, NEW q \in Queues, NEW k \in Keys, Finish(q, k)
    PROVE  IndInv'
  <1>1. QueueTypes  BY DEF IndInv
  <1>2. /\ Moves(q, k) /\ worker'[q][k].pc = "clear" /\ worker[q][k].pc = "consume"
        /\ worker'[q][k].generation = worker[q][k].generation
    BY <1>1, GotoEffect DEF Finish, WorkerSteps
  <1>3. /\ queue' \in [Queues -> [Keys -> {0} \cup Generations]]
        /\ queue'[q][k] = IF Owns(q, k) THEN 0 ELSE queue[q][k]
        /\ \A p \in Queues, j \in Keys : p # q \/ j # k => queue'[p][j] = queue[p][j]
    BY <1>1, ConsumeEffect DEF Finish
  <1>4. Working(q, k) /\ Rest /\ UNCHANGED <<analyzed, leftToScan>>
    BY <1>1, <1>2, <1>3 DEF Finish, Working, Rest, QueueTypes
  <1>5. QueueTypes' /\ BatchInv' /\ WorkerInv'  BY <1>2, <1>4, WorkerStepKeeps
  <1>6. UnscannedInv' /\ ConsumeInv'  BY <1>2, <1>4, ConsumeKeeps DEF Finish
  <1>7. HolderInv'
    <2> SUFFICES ASSUME NEW j \in Keys, NeedsAnalysis(j), ~leftToScan[j]
                 PROVE  \/ wanted[j] \/ Served(j)
                        \/ \E p \in Queues : queue'[p][j] # 0
                        \/ \E p \in Queues : worker'[p][j].pc \in Carrying
      BY <1>4 DEF HolderInv, NeedsAnalysis, Served, Rest
    <2>1. CASE j = k /\ Owns(q, k)
      <3>1. wanted[k] \/ Asked(k)  BY <1>2, <2>1 DEF IndInv, ConsumeInv
      <3> QED BY <2>1, <3>1 DEF Asked, Served
    <2>2. CASE j # k \/ ~Owns(q, k)
      <3>1. \A p \in Queues : queue'[p][j] = queue[p][j]  BY <1>3, <2>2
      <3>2. \A p \in Queues : worker[p][j].pc \in Carrying => worker'[p][j].pc \in Carrying
        BY <1>2 DEF Moves, Carrying
      <3> QED BY <3>1, <3>2 DEF IndInv, HolderInv
    <2> QED BY <2>1, <2>2
  <1> QED BY <1>5, <1>6, <1>7 DEF IndInv

LEMMA WithdrawInv ==
    ASSUME IndInv, NEW q \in Queues, NEW k \in Keys, Withdraw(q, k)
    PROVE  IndInv'
  <1>1. QueueTypes  BY DEF IndInv
  <1>2. /\ Moves(q, k) /\ worker[q][k].pc = "withdraw"
        /\ \/ Owns(q, k) /\ worker'[q][k].pc = "count"
              /\ worker'[q][k].generation = worker[q][k].generation
           \/ ~Owns(q, k) /\ worker'[q][k].pc = "none"
    BY <1>1, GotoEffect, ExitEffect DEF Withdraw, WorkerSteps
  <1>3. /\ queue' \in [Queues -> [Keys -> {0} \cup Generations]]
        /\ queue'[q][k] = IF Owns(q, k) THEN 0 ELSE queue[q][k]
        /\ \A p \in Queues, j \in Keys : p # q \/ j # k => queue'[p][j] = queue[p][j]
    BY <1>1, ConsumeEffect DEF Withdraw
  <1>4. Working(q, k) /\ Rest /\ UNCHANGED <<analyzed, leftToScan>>
    BY <1>1, <1>2, <1>3 DEF Withdraw, Working, Rest, QueueTypes
  <1>5. QueueTypes' /\ BatchInv' /\ WorkerInv'  BY <1>2, <1>4, WorkerStepKeeps
  <1>6. UnscannedInv' /\ ConsumeInv'  BY <1>2, <1>4, ConsumeKeeps DEF Withdraw
  <1>7. HolderInv'
    <2> SUFFICES ASSUME NEW j \in Keys, NeedsAnalysis(j), ~leftToScan[j]
                 PROVE  \/ wanted[j] \/ Served(j)
                        \/ \E p \in Queues : queue'[p][j] # 0
                        \/ \E p \in Queues : worker'[p][j].pc \in Carrying
      BY <1>4 DEF HolderInv, NeedsAnalysis, Served, Rest
    <2>1. CASE j = k /\ Owns(q, k)
      BY <1>2, <2>1 DEF Carrying
    <2>2. CASE j # k \/ ~Owns(q, k)
      <3>1. \A p \in Queues : queue'[p][j] = queue[p][j]  BY <1>3, <2>2
      <3>2. \A p \in Queues : worker[p][j].pc \in Carrying => worker'[p][j].pc \in Carrying
        BY <1>2 DEF Moves, Carrying
      <3> QED BY <3>1, <3>2 DEF IndInv, HolderInv
    <2> QED BY <2>1, <2>2
  <1> QED BY <1>5, <1>6, <1>7 DEF IndInv

\* A fresh generation is stored for a key: nobody owns the entry.
LEMMA FreshEntry ==
    ASSUME IndInv, NEW q \in Queues, NEW k \in Keys,
           queue' = [queue EXCEPT ![q][k] = NextGeneration(k)],
           \A p \in Queues, j \in Keys :
             worker'[p][j].pc = "none" \/ worker'[p][j].generation = worker[p][j].generation
    PROVE  /\ queue' \in [Queues -> [Keys -> {0} \cup Generations]]
           /\ queue'[q][k] # 0
           /\ \A p \in Queues, j \in Keys : p # q \/ j # k => queue'[p][j] = queue[p][j]
           /\ worker'[q][k].pc # "none" => ~Owns(q, k)'
  <1>1. /\ NextGeneration(k) \in Generations
        /\ NextGeneration(k) # worker[q][k].generation
    BY FreshGeneration DEF IndInv
  <1>2. PICK g \in Generations : g = NextGeneration(k)  BY <1>1
  <1>3. g # 0 /\ g \in {0} \cup Generations  BY <1>2 DEF Generations
  <1>4. queue' = [queue EXCEPT ![q][k] = g] /\ QueueTypes  BY <1>2 DEF IndInv
  <1>5. /\ queue' \in [Queues -> [Keys -> {0} \cup Generations]]
        /\ queue'[q][k] = g
        /\ \A p \in Queues, j \in Keys : p # q \/ j # k => queue'[p][j] = queue[p][j]
    BY <1>3, <1>4, EntrySet, ZenonT(60)
  <1>6. worker'[q][k].pc # "none" => ~Owns(q, k)'
    BY <1>1, <1>2, <1>5 DEF Owns
  <1> QED BY <1>3, <1>5, <1>6

LEMMA RequeueInv ==
    ASSUME IndInv, NEW q \in Queues, NEW k \in Keys, Requeue(q, k)
    PROVE  IndInv'
  <1>1. QueueTypes /\ "event" \in Queues  BY DEF IndInv, Queues
  <1>2. CASE queue["event"][k] # 0
    <2>1. Moves(q, k) /\ worker'[q][k].pc = "yield"
          /\ worker'[q][k].generation = worker[q][k].generation
      BY <1>1, <1>2, GotoEffect DEF Requeue, WorkerSteps
    <2>2. Working(q, k) /\ Rest /\ UNCHANGED <<queue, analyzed, leftToScan>>
      BY <1>1, <1>2 DEF Requeue, Working, Rest, QueueTypes
    <2> QED BY <1>2, <2>1, <2>2, QuietWorker
  <1>3. CASE queue["event"][k] = 0
    <2>1. Moves(q, k) /\ worker'[q][k].pc = "none"
      BY <1>1, <1>3, ExitEffect DEF Requeue
    <2>2. /\ queue' \in [Queues -> [Keys -> {0} \cup Generations]]
          /\ queue'["event"][k] # 0
          /\ \A p \in Queues, j \in Keys : p # "event" \/ j # k => queue'[p][j] = queue[p][j]
          /\ worker'["event"][k].pc # "none" => ~Owns("event", k)'
      BY <1>1, <1>3, <2>1, FreshEntry DEF Requeue, Moves
    <2>3. Working(q, k) /\ Rest /\ UNCHANGED <<analyzed, leftToScan>>
      BY <1>1, <2>2 DEF Requeue, Working, Rest, QueueTypes
    <2>4. QueueTypes' /\ BatchInv' /\ WorkerInv'  BY <2>1, <2>3, WorkerStepKeeps
    <2>5. UnscannedInv'
      BY <2>2, <2>3, KindsOfCall DEF IndInv, UnscannedInv, Rest, Queues
    <2>6. ConsumeInv'
      <3> SUFFICES ASSUME NEW p \in Queues, NEW j \in Keys, worker'[p][j].pc = "consume",
                          Owns(p, j)', NeedsAnalysis(j)'
                   PROVE  wanted'[j] \/ Asked(j)'
        BY DEF ConsumeInv
      <3>1. p # "event" \/ j # k  BY <2>2
      <3>2. p # q \/ j # k  BY <2>1
      <3>3. Owns(p, j) /\ worker[p][j].pc = "consume"  BY <2>1, <2>2, <3>1, <3>2 DEF Owns, Moves
      <3> QED BY <2>3, <3>3 DEF IndInv, ConsumeInv, Asked, NeedsAnalysis, Rest
    <2>7. HolderInv'
      <3>1. \A j \in Keys \ {k} : \A p \in Queues :
              queue'[p][j] = queue[p][j] /\ worker'[p][j] = worker[p][j]
        BY <2>1, <2>2 DEF Moves
      <3> QED BY <1>1, <2>2, <2>3, <3>1, ZenonT(60) DEF IndInv, HolderInv, NeedsAnalysis, Served, Rest
    <2> QED BY <2>4, <2>5, <2>6, <2>7 DEF IndInv
  <1> QED BY <1>2, <1>3

-----------------------------------------------------------------------------
\* The definitions' steps.

\* A step that leaves the batch alone.
LEMMA BatchStands ==
    ASSUME IndInv, UNCHANGED <<worker, drain>>
    PROVE  BatchInv' /\ WorkerInv'
  BY DEF IndInv, BatchInv, WorkerInv, Working

LEMMA ChangeInv ==
    ASSUME IndInv, NEW k \in Keys, Change(k)
    PROVE  IndInv'
  <1>1. QueueTypes'
    <2>1. text[k] + 1 \in 0 .. MaxText  BY BoundAssumption DEF Change
    <2> QED BY <2>1 DEF Change, IndInv, QueueTypes
  <1>2. BatchInv' /\ WorkerInv'  BY BatchStands DEF Change
  <1>3. /\ wanted'[k] /\ \A j \in Keys : wanted[j] => wanted'[j]
        /\ \A j \in Keys \ {k} : text'[j] = text[j]
    BY DEF Change, IndInv, QueueTypes
  <1>4. UnscannedInv'  BY DEF Change, IndInv, UnscannedInv
  <1>5. ConsumeInv'
    BY <1>3 DEF Change, IndInv, ConsumeInv, Owns, NeedsAnalysis, Asked
  <1>6. HolderInv'
    BY <1>3 DEF Change, IndInv, HolderInv, NeedsAnalysis, Served
  <1> QED BY <1>1, <1>2, <1>4, <1>5, <1>6 DEF IndInv

LEMMA RemoveInv ==
    ASSUME IndInv, NEW k \in Keys, Remove(k)
    PROVE  IndInv'
  <1>1. QueueTypes'
    <2>1. 0 \in 0 .. MaxText  BY BoundAssumption
    <2> QED BY <2>1 DEF Remove, IndInv, QueueTypes
  <1>2. BatchInv' /\ WorkerInv'  BY BatchStands DEF Remove
  <1>3. text'[k] = 0 /\ \A j \in Keys \ {k} : text'[j] = text[j]
    BY DEF Remove, IndInv, QueueTypes
  <1>4. \A j \in Keys : NeedsAnalysis(j)' => NeedsAnalysis(j)
    BY <1>3 DEF Remove, NeedsAnalysis
  <1>5. UnscannedInv'  BY DEF Remove, IndInv, UnscannedInv
  <1>6. ConsumeInv'  BY <1>4 DEF Remove, IndInv, ConsumeInv, Owns, Asked
  <1>7. HolderInv'  BY <1>4 DEF Remove, IndInv, HolderInv, Served
  <1> QED BY <1>1, <1>2, <1>5, <1>6, <1>7 DEF IndInv

LEMMA ElapseInv ==
    ASSUME IndInv, NEW k \in Keys, Elapse(k)
    PROVE  IndInv'
  <1>1. PICK s : s = [retry[k] EXCEPT !.waiting = FALSE]  OBVIOUS
  <1>2. s \in Retries
    <2>1. retry[k] \in Retries /\ FALSE \in BOOLEAN  BY DEF IndInv, QueueTypes
    <2> QED BY <1>1, <2>1, Zenon DEF Retries
  <1>3. retry' \in [Keys -> Retries]
    <2>1. retry' = [retry EXCEPT ![k] = s]  BY <1>1 DEF Elapse, IndInv, QueueTypes
    <2> QED BY <1>2, <2>1 DEF IndInv, QueueTypes
  <1>4. QueueTypes'  BY <1>3 DEF Elapse, IndInv, QueueTypes
  <1>5. BatchInv' /\ WorkerInv'  BY BatchStands DEF Elapse
  <1> QED
    BY <1>4, <1>5 DEF Elapse, IndInv, UnscannedInv, ConsumeInv, HolderInv, Owns,
                      NeedsAnalysis, Asked, Served

LEMMA NoneQueued == [q \in Queues |-> [k \in Keys |-> 0]] \in [Queues -> [Keys -> {0} \cup Generations]]
  OBVIOUS

LEMMA NoneWorking ==
    [q \in Queues |-> [k \in Keys |-> NoWorker]] \in [Queues -> [Keys -> WorkerStates]]
  BY NoWorkerTyped

LEMMA RestartInv ==
    ASSUME IndInv, Restart
    PROVE  IndInv'
  <1>1. QueueTypes'
    <2>1. faults' \in 0 .. MaxFaults  BY BoundAssumption DEF Restart, IndInv, QueueTypes
    <2>2. /\ queue' \in [Queues -> [Keys -> {0} \cup Generations]]
          /\ worker' \in [Queues -> [Keys -> WorkerStates]]
          /\ retry' \in [Keys -> Retries]
      BY NoneQueued, NoneWorking, NoRetryTyped DEF Restart
    <2>3. /\ text' \in [Keys -> 0 .. MaxText] /\ analyzed' \in [Keys -> 0 .. MaxText]
          /\ wanted' \in [Keys -> BOOLEAN] /\ leftToScan' \in [Keys -> BOOLEAN]
          /\ enq' \in Calls /\ scanList' \in SUBSET Keys /\ drain' \in {"idle", "taking", "running"}
      BY DEF Restart, IndInv, QueueTypes, Calls
    <2> QED BY <2>1, <2>2, <2>3 DEF QueueTypes
  <1>2. \A q \in Queues, k \in Keys : worker'[q][k].pc = "none"
    BY NoWorkerTyped DEF Restart
  <1>3. BatchInv' /\ WorkerInv' /\ ConsumeInv'
    <2>1. BatchInv'  BY <1>2 DEF BatchInv, Working, Queues
    <2>2. WorkerInv'  BY <1>2 DEF WorkerInv, Working
    <2>3. ConsumeInv'  BY <1>2 DEF ConsumeInv
    <2> QED BY <2>1, <2>2, <2>3
  <1>4. UnscannedInv'  BY DEF Restart, UnscannedInv, NoCall
  <1>5. HolderInv'  BY DEF Restart, HolderInv
  <1> QED BY <1>1, <1>3, <1>4, <1>5 DEF IndInv

-----------------------------------------------------------------------------
\* The calls under queueMu.

LEMMA RequestBeginInv ==
    ASSUME IndInv, NEW k \in Keys, RequestBegin(k)
    PROVE  IndInv'
  <1>1. QueueTypes /\ enq.op = "none"  BY DEF RequestBegin, IndInv, NoCall
  <1>2. retry' \in [Keys -> Retries]  BY <1>1, NoRetryTyped DEF RequestBegin, QueueTypes
  <1>3. PICK c \in {"writer"} \cup Queues :
          enq' = [op |-> "request", key |-> k, step |-> "scan", caller |-> c]
    BY DEF RequestBegin
  <1>4. enq' \in Calls
    <2>1. enq' \in [op : {"request"}, key : Keys, step : {"scan", "store"},
                    caller : {"writer"} \cup Queues]
      BY <1>3
    <2> QED BY <2>1 DEF Calls
  <1>5. enq'.op = "request" /\ enq'.key = k /\ enq'.step = "scan"  BY <1>3
  <1>6. /\ wanted' \in [Keys -> BOOLEAN]
        /\ \A j \in Keys \ {k} : wanted'[j] = wanted[j]
    BY <1>1 DEF RequestBegin, QueueTypes
  <1>7. /\ worker' \in [Queues -> [Keys -> WorkerStates]]
        /\ \A p \in Queues, j \in Keys :
             \/ worker'[p][j] = worker[p][j]
             \/ /\ worker'[p][j].pc = "requeueing" /\ worker[p][j].pc = "stale"
                /\ worker'[p][j].generation = worker[p][j].generation
    <2>1. CASE UNCHANGED worker  BY <1>1, <2>1 DEF QueueTypes
    <2>2. CASE \E q \in Queues : worker[q][k].pc = "stale" /\ Goto(q, k, "requeueing")
      <3>1. PICK q \in Queues : worker[q][k].pc = "stale" /\ Goto(q, k, "requeueing")
        BY <2>2
      <3>2. Moves(q, k) /\ worker'[q][k].pc = "requeueing"
            /\ worker'[q][k].generation = worker[q][k].generation
        BY <1>1, <3>1, GotoEffect DEF WorkerSteps
      <3> QED BY <3>1, <3>2 DEF Moves
    <2> QED BY <2>1, <2>2 DEF RequestBegin
  <1>8. UNCHANGED <<text, analyzed, queue, scanList, drain, leftToScan, faults>>
    BY DEF RequestBegin
  <1>9. QueueTypes'  BY <1>1, <1>2, <1>4, <1>6, <1>7, <1>8 DEF QueueTypes
  <1>10. BatchInv' /\ WorkerInv'
    <2>1. \A p \in Queues, j \in Keys : Working(p, j)' => Working(p, j)
      BY <1>7 DEF Working
    <2>2. BatchInv'  BY <1>8, <2>1 DEF IndInv, BatchInv, Queues
    <2>3. WorkerInv'  BY <1>7 DEF IndInv, WorkerInv, Working
    <2> QED BY <2>2, <2>3
  <1>11. UnscannedInv'  BY <1>5 DEF UnscannedInv
  <1>12. ConsumeInv'
    BY <1>1, <1>5, <1>6, <1>7, <1>8 DEF IndInv, ConsumeInv, Owns, NeedsAnalysis, Asked
  <1>13. HolderInv'
    <2>1. \A p \in Queues, j \in Keys : worker[p][j].pc \in Carrying => worker'[p][j].pc \in Carrying
      BY <1>7 DEF Carrying
    <2> QED BY <1>1, <1>5, <1>6, <1>8, <2>1 DEF IndInv, HolderInv, NeedsAnalysis, Served
  <1> QED BY <1>9, <1>10, <1>11, <1>12, <1>13 DEF IndInv

LEMMA RequestUnscanInv ==
    ASSUME IndInv, RequestUnscan
    PROVE  IndInv'
  <1>1. PICK k \in Keys : k = enq.key  BY KindsOfCall DEF RequestUnscan, IndInv
  <1>2. QueueTypes /\ enq.op = "request" /\ enq.step = "scan" /\ "scan" \in Queues
    BY DEF RequestUnscan, IndInv, Queues
  <1>3. PICK e : e = [enq EXCEPT !.step = "store"]  OBVIOUS
  <1>4. e \in Calls /\ e.op = "request" /\ e.key = k /\ e.step = "store"
    <2>1. enq \in [op : {"request"}, key : Keys, step : {"scan", "store"},
                   caller : {"writer"} \cup Queues]
      BY <1>2 DEF QueueTypes, Calls, NoCall
    <2>2. /\ e \in [op : {"request"}, key : Keys, step : {"scan", "store"},
                    caller : {"writer"} \cup Queues]
          /\ e.op = "request" /\ e.key = k /\ e.step = "store"
      BY <1>1, <1>3, <2>1
    <2> QED BY <2>2 DEF Calls
  <1>5. /\ queue' \in [Queues -> [Keys -> {0} \cup Generations]]
        /\ queue'["scan"][k] = 0
        /\ \A p \in Queues, j \in Keys : p # "scan" \/ j # k => queue'[p][j] = queue[p][j]
    <2>1. queue' = [queue EXCEPT !["scan"][k] = 0] /\ 0 \in {0} \cup Generations
      BY <1>1 DEF RequestUnscan
    <2> QED BY <1>2, <2>1 DEF QueueTypes
  <1>6. QueueTypes'  BY <1>3, <1>4, <1>5 DEF RequestUnscan, IndInv, QueueTypes
  <1>7. BatchInv' /\ WorkerInv'  BY BatchStands DEF RequestUnscan
  <1>8. UnscannedInv'  BY <1>3, <1>4, <1>5 DEF RequestUnscan, UnscannedInv
  <1>9. \A j \in Keys : /\ Asked(j) => Asked(j)'
                        /\ Served(j) => Served(j)'
    BY <1>1, <1>3, <1>4 DEF RequestUnscan, Asked, Served
  <1>10. Asked(k)' /\ Served(k)'  BY <1>3, <1>4 DEF RequestUnscan, Asked, Served
  <1>11. ConsumeInv'
    BY <1>5, <1>9, <1>10 DEF RequestUnscan, IndInv, ConsumeInv, Owns, NeedsAnalysis
  <1>12. HolderInv'
    BY <1>5, <1>9, <1>10 DEF RequestUnscan, IndInv, HolderInv, NeedsAnalysis
  <1> QED BY <1>6, <1>7, <1>8, <1>11, <1>12 DEF IndInv

LEMMA RequestStoreInv ==
    ASSUME IndInv, RequestStore
    PROVE  IndInv'
  <1>1. PICK k \in Keys : k = enq.key  BY KindsOfCall DEF RequestStore, IndInv
  <1>2. /\ QueueTypes /\ enq.op = "request" /\ enq.step = "store"
        /\ enq.caller \in {"writer"} \cup Queues /\ "event" \in Queues /\ "scan" \in Queues
    BY KindsOfCall DEF RequestStore, IndInv, Queues
  <1>3. /\ worker' \in [Queues -> [Keys -> WorkerStates]]
        /\ \A p \in Queues, j \in Keys : worker'[p][j] = worker[p][j] \/ worker'[p][j] = NoWorker
        /\ \A p \in Queues, j \in Keys : j # k => worker'[p][j] = worker[p][j]
    <2>1. CASE enq.caller = "writer"  BY <1>2, <2>1 DEF RequestStore, QueueTypes
    <2>2. CASE enq.caller # "writer"
      <3>1. PICK q \in Queues : q = enq.caller  BY <1>2, <2>2
      <3>2. worker' = [worker EXCEPT ![q][k] = NoWorker]
        BY <1>1, <2>2, <3>1 DEF RequestStore, Exit
      <3>3. Moves(q, k) /\ worker'[q][k] = NoWorker  BY <1>2, <3>2, NoWorkerTyped, WorkerSet
      <3> QED BY <3>3 DEF Moves
    <2> QED BY <2>1, <2>2
  <1>4. \A p \in Queues, j \in Keys :
          worker'[p][j].pc = "none" \/ worker'[p][j].generation = worker[p][j].generation
    BY <1>3, NoWorkerTyped
  <1>5. /\ queue' \in [Queues -> [Keys -> {0} \cup Generations]]
        /\ queue'["event"][k] # 0
        /\ \A p \in Queues, j \in Keys : p # "event" \/ j # k => queue'[p][j] = queue[p][j]
        /\ worker'["event"][k].pc # "none" => ~Owns("event", k)'
    <2>1. queue' = [queue EXCEPT !["event"][k] = NextGeneration(k)]
      BY <1>1 DEF RequestStore
    <2> QED BY <1>2, <1>4, <2>1, FreshEntry
  <1>6. /\ leftToScan' \in [Keys -> BOOLEAN]
        /\ \A j \in Keys \ {k} : leftToScan'[j] = leftToScan[j]
    BY <1>1, <1>2 DEF RequestStore, QueueTypes
  <1>7. enq' = NoCall /\ enq'.op = "none" /\ enq' \in Calls
    BY DEF RequestStore, NoCall, Calls
  <1>8. UNCHANGED <<text, analyzed, wanted, retry, scanList, drain, faults>>
    BY DEF RequestStore
  <1>9. QueueTypes'  BY <1>2, <1>3, <1>5, <1>6, <1>7, <1>8 DEF QueueTypes
  <1>10. BatchInv' /\ WorkerInv'
    <2>1. \A p \in Queues, j \in Keys : Working(p, j)' => Working(p, j) /\ worker'[p][j] = worker[p][j]
      BY <1>3, NoWorkerTyped DEF Working
    <2>2. BatchInv'  BY <1>2, <1>8, <2>1 DEF IndInv, BatchInv
    <2>3. WorkerInv'
      BY <1>3, <2>1, NoWorkerTyped DEF IndInv, WorkerInv
    <2> QED BY <2>2, <2>3
  <1>11. UnscannedInv'  BY <1>7 DEF UnscannedInv
  <1>12. ConsumeInv'
    <2> SUFFICES ASSUME NEW p \in Queues, NEW j \in Keys, worker'[p][j].pc = "consume",
                        Owns(p, j)', NeedsAnalysis(j)'
                 PROVE  wanted'[j]
      BY DEF ConsumeInv
    <2>1. worker'[p][j] = worker[p][j] /\ Working(p, j)
      BY <1>3, NoWorkerTyped DEF Working
    <2>2. j # k
      <3> SUFFICES ASSUME j = k  PROVE FALSE  OBVIOUS
      <3>1. p = "scan"  BY <1>5 DEF Queues
      <3>2. queue'["scan"][k] = 0
        BY <1>1, <1>2, <1>5 DEF IndInv, UnscannedInv
      <3>3. worker[p][j].generation # 0  BY <2>1 DEF IndInv, WorkerInv
      <3> QED BY <2>1, <3>1, <3>2, <3>3 DEF Owns
    <2>3. Owns(p, j)  BY <1>5, <2>1, <2>2 DEF Owns
    <2>4. ~Asked(j)  BY <1>1, <2>2 DEF Asked
    <2> QED BY <1>8, <2>1, <2>3, <2>4 DEF IndInv, ConsumeInv, NeedsAnalysis
  <1>13. HolderInv'
    <2> SUFFICES ASSUME NEW j \in Keys, NeedsAnalysis(j), ~leftToScan'[j]
                 PROVE  \/ wanted[j]
                        \/ \E p \in Queues : queue'[p][j] # 0
                        \/ \E p \in Queues : worker'[p][j].pc \in Carrying
      BY <1>8 DEF HolderInv, NeedsAnalysis
    <2>1. CASE j = k  BY <1>2, <1>5, <2>1
    <2>2. CASE j # k
      <3>1. ~Served(j) /\ ~leftToScan[j]  BY <1>1, <1>6, <2>2 DEF Served
      <3> QED BY <1>3, <1>5, <2>2, <3>1 DEF IndInv, HolderInv
    <2> QED BY <2>1, <2>2
  <1> QED BY <1>9, <1>10, <1>11, <1>12, <1>13 DEF IndInv

LEMMA ScanBeginInv ==
    ASSUME IndInv, ScanBegin
    PROVE  IndInv'
  <1>1. QueueTypes'  BY DEF ScanBegin, IndInv, QueueTypes
  <1>2. BatchInv' /\ WorkerInv'  BY BatchStands DEF ScanBegin
  <1> QED
    BY <1>1, <1>2 DEF ScanBegin, IndInv, UnscannedInv, ConsumeInv, HolderInv, Owns,
                      NeedsAnalysis, Asked, Served

LEMMA ScanKeyInv ==
    ASSUME IndInv, NEW k \in Keys, ScanKey(k)
    PROVE  IndInv'
  <1>1. enq.op = "none" /\ QueueTypes  BY DEF ScanKey, IndInv, NoCall
  <1>2. enq' \in Calls /\ enq'.op \in {"none", "scan"}
    BY DEF ScanKey, Calls, NoCall
  <1>3. retry' \in [Keys -> Retries]  BY <1>1, NoRetryTyped DEF ScanKey, QueueTypes
  <1>4. QueueTypes'  BY <1>1, <1>2, <1>3 DEF ScanKey, QueueTypes
  <1>5. BatchInv' /\ WorkerInv'  BY BatchStands DEF ScanKey
  <1>6. UnscannedInv'  BY <1>2 DEF UnscannedInv
  <1>7. ConsumeInv'
    BY <1>1 DEF ScanKey, IndInv, ConsumeInv, Owns, NeedsAnalysis, Asked
  <1>8. HolderInv'
    BY <1>1 DEF ScanKey, IndInv, HolderInv, NeedsAnalysis, Served
  <1> QED BY <1>4, <1>5, <1>6, <1>7, <1>8 DEF IndInv

LEMMA ScanStoreInv ==
    ASSUME IndInv, ScanStore
    PROVE  IndInv'
  <1>1. PICK k \in Keys : k = enq.key  BY KindsOfCall DEF ScanStore, IndInv
  <1>2. QueueTypes /\ enq.op = "scan" /\ "scan" \in Queues  BY DEF ScanStore, IndInv, Queues
  <1>3. /\ queue' \in [Queues -> [Keys -> {0} \cup Generations]]
        /\ queue'["scan"][k] # 0
        /\ \A p \in Queues, j \in Keys : p # "scan" \/ j # k => queue'[p][j] = queue[p][j]
        /\ worker'["scan"][k].pc # "none" => ~Owns("scan", k)'
    <2>1. queue' = [queue EXCEPT !["scan"][k] = NextGeneration(k)]
      BY <1>1 DEF ScanStore
    <2>2. worker' = worker  BY DEF ScanStore
    <2> QED BY <1>2, <2>1, <2>2, FreshEntry
  <1>4. /\ leftToScan' \in [Keys -> BOOLEAN]
        /\ \A j \in Keys \ {k} : leftToScan'[j] = leftToScan[j]
    BY <1>1, <1>2 DEF ScanStore, QueueTypes
  <1>5. enq' = NoCall /\ enq'.op = "none" /\ enq' \in Calls
    BY DEF ScanStore, NoCall, Calls
  <1>6. QueueTypes'  BY <1>2, <1>3, <1>4, <1>5 DEF ScanStore, QueueTypes
  <1>7. BatchInv' /\ WorkerInv'  BY BatchStands DEF ScanStore
  <1>8. UnscannedInv'  BY <1>5 DEF UnscannedInv
  <1>9. ConsumeInv'
    <2> SUFFICES ASSUME NEW p \in Queues, NEW j \in Keys, worker'[p][j].pc = "consume",
                        Owns(p, j)', NeedsAnalysis(j)'
                 PROVE  wanted'[j]
      BY DEF ConsumeInv
    <2>1. p # "scan" \/ j # k  BY <1>3
    <2>2. Owns(p, j) /\ worker[p][j].pc = "consume"  BY <1>3, <2>1 DEF ScanStore, Owns
    <2>3. ~Asked(j)  BY <1>2 DEF Asked
    <2> QED BY <2>2, <2>3 DEF ScanStore, IndInv, ConsumeInv, NeedsAnalysis
  <1>10. HolderInv'
    <2> SUFFICES ASSUME NEW j \in Keys, NeedsAnalysis(j), ~leftToScan'[j]
                 PROVE  \/ wanted[j]
                        \/ \E p \in Queues : queue'[p][j] # 0
                        \/ \E p \in Queues : worker[p][j].pc \in Carrying
      BY DEF ScanStore, HolderInv, NeedsAnalysis
    <2>1. CASE j = k  BY <1>2, <1>3, <2>1
    <2>2. CASE j # k
      <3>1. ~Served(j) /\ ~leftToScan[j]  BY <1>1, <1>4, <2>2 DEF Served
      <3> QED BY <1>3, <2>2, <3>1 DEF IndInv, HolderInv
    <2> QED BY <2>1, <2>2
  <1> QED BY <1>6, <1>7, <1>8, <1>9, <1>10 DEF IndInv

-----------------------------------------------------------------------------
\* The batch.

\* The workers of a queue start, each on the entry it found there.
LEMMA SelectEffect ==
    ASSUME QueueTypes, NEW q \in Queues, NEW S \in SUBSET ReadyKeys(q), Select(q, S)
    PROVE  /\ worker' \in [Queues -> [Keys -> WorkerStates]]
           /\ \A p \in Queues \ {q}, k \in Keys : worker'[p][k] = worker[p][k]
           /\ \A k \in Keys : worker'[q][k].pc \in {"none", "selected"}
           /\ \A k \in Keys : worker'[q][k].pc # "none" => worker'[q][k].generation # 0
  <1> DEFINE start(k) == [NoWorker EXCEPT !.pc = "selected", !.generation = queue[q][k]]
  <1> DEFINE lane == [k \in Keys |-> IF k \in S THEN start(k) ELSE NoWorker]
  <1>1. \A k \in Keys : /\ start(k) \in WorkerStates /\ start(k).pc = "selected"
                        /\ start(k).generation = queue[q][k]
    <2> SUFFICES ASSUME NEW k \in Keys
                 PROVE  /\ start(k) \in WorkerStates /\ start(k).pc = "selected"
                        /\ start(k).generation = queue[q][k]
      OBVIOUS
    <2>1. queue[q][k] \in {0} \cup Generations /\ "selected" \in WorkerSteps
      BY DEF QueueTypes, WorkerSteps
    <2> QED BY <2>1, NoWorkerTyped, Zenon DEF WorkerStates
  <1>2. \A k \in S : k \in Keys /\ queue[q][k] # 0  BY DEF ReadyKeys
  <1>3. worker' = [worker EXCEPT ![q] = lane]  BY DEF Select
  <1> HIDE DEF start
  <1>4. /\ lane \in [Keys -> WorkerStates]
        /\ \A k \in Keys : /\ lane[k].pc \in {"none", "selected"}
                           /\ lane[k].pc # "none" => lane[k].generation # 0
    <2>1. \A k \in Keys : lane[k] = IF k \in S THEN start(k) ELSE NoWorker  OBVIOUS
    <2> QED BY <1>1, <1>2, <2>1, NoWorkerTyped
  <1> HIDE DEF lane
  <1> QED BY <1>3, <1>4 DEF QueueTypes

\* Workers that start on an entry leave the requests where they are.
LEMMA SelectKeeps ==
    ASSUME IndInv, NEW q \in Queues, NEW S \in SUBSET ReadyKeys(q), Select(q, S),
           \A k \in Keys : ~Working(q, k),
           UNCHANGED <<text, analyzed, wanted, queue, retry, enq, scanList, leftToScan, faults>>
    PROVE  WorkerInv' /\ UnscannedInv' /\ ConsumeInv' /\ HolderInv'
  <1>1. /\ \A p \in Queues \ {q}, k \in Keys : worker'[p][k] = worker[p][k]
        /\ \A k \in Keys : worker'[q][k].pc \in {"none", "selected"}
        /\ \A k \in Keys : worker'[q][k].pc # "none" => worker'[q][k].generation # 0
    BY SelectEffect DEF IndInv
  <1>2. WorkerInv'  BY <1>1 DEF IndInv, WorkerInv, Working
  <1>3. UnscannedInv'  BY DEF IndInv, UnscannedInv
  <1>4. ConsumeInv'
    BY <1>1 DEF IndInv, ConsumeInv, Owns, NeedsAnalysis, Asked
  <1>5. HolderInv'
    <2>1. \A p \in Queues, k \in Keys : worker[p][k].pc \in Carrying => worker'[p][k].pc \in Carrying
      BY <1>1 DEF Working, Carrying
    <2> QED BY <2>1 DEF IndInv, HolderInv, NeedsAnalysis, Served
  <1> QED BY <1>2, <1>3, <1>4, <1>5

LEMMA TakeEventsInv ==
    ASSUME IndInv, NEW S \in Selections("event", BatchLimit), TakeEvents(S)
    PROVE  IndInv'
  <1>1. /\ S \in SUBSET ReadyKeys("event") /\ "event" \in Queues /\ "scan" \in Queues
        /\ Select("event", S) /\ \A q \in Queues, k \in Keys : ~Working(q, k)
    BY DEF Selections, TakeEvents, Queues, IndInv, BatchInv
  <1>2. WorkerInv' /\ UnscannedInv' /\ ConsumeInv' /\ HolderInv'
    BY <1>1, SelectKeeps DEF TakeEvents
  <1>3. /\ worker' \in [Queues -> [Keys -> WorkerStates]]
        /\ \A k \in Keys : worker'["scan"][k] = worker["scan"][k]
    BY <1>1, SelectEffect DEF IndInv
  <1>4. QueueTypes'  BY <1>3 DEF TakeEvents, IndInv, QueueTypes
  <1>5. BatchInv'  BY <1>1, <1>3 DEF TakeEvents, BatchInv, Working
  <1> QED BY <1>2, <1>4, <1>5 DEF IndInv

LEMMA TakeScansInv ==
    ASSUME IndInv, NEW S \in Selections("scan", Remaining), TakeScans(S)
    PROVE  IndInv'
  <1>1. /\ S \in SUBSET ReadyKeys("scan") /\ "scan" \in Queues
        /\ Select("scan", S) /\ \A k \in Keys : ~Working("scan", k)
    BY DEF Selections, TakeScans, Queues, IndInv, BatchInv
  <1>2. WorkerInv' /\ UnscannedInv' /\ ConsumeInv' /\ HolderInv'
    BY <1>1, SelectKeeps DEF TakeScans
  <1>3. worker' \in [Queues -> [Keys -> WorkerStates]]
    BY <1>1, SelectEffect DEF IndInv
  <1>4. QueueTypes'  BY <1>3 DEF TakeScans, IndInv, QueueTypes
  <1>5. BatchInv'  BY DEF TakeScans, BatchInv
  <1> QED BY <1>2, <1>4, <1>5 DEF IndInv

LEMMA DrainDoneInv ==
    ASSUME IndInv, DrainDone
    PROVE  IndInv'
  <1>1. QueueTypes'  BY DEF DrainDone, IndInv, QueueTypes
  <1>2. BatchInv'  BY DEF DrainDone, BatchInv, Working
  <1> QED
    BY <1>1, <1>2 DEF DrainDone, IndInv, WorkerInv, UnscannedInv, ConsumeInv, HolderInv,
                      Owns, NeedsAnalysis, Asked, Served, Working

-----------------------------------------------------------------------------
\* Every step.

LEMMA InitInv == Init => IndInv
  <1> SUFFICES ASSUME Init  PROVE IndInv  OBVIOUS
  <1>1. QueueTypes
    <2>1. /\ queue \in [Queues -> [Keys -> {0} \cup Generations]]
          /\ worker \in [Queues -> [Keys -> WorkerStates]]
          /\ retry \in [Keys -> Retries]
      BY NoneQueued, NoneWorking, NoRetryTyped DEF Init
    <2>2. 0 \in 0 .. MaxText /\ 1 \in 0 .. MaxText /\ 0 \in 0 .. MaxFaults
      BY BoundAssumption
    <2>3. enq \in Calls  BY DEF Init, Calls
    <2> QED BY <2>1, <2>2, <2>3 DEF Init, QueueTypes
  <1>2. \A q \in Queues, k \in Keys : worker[q][k].pc = "none"
    BY NoWorkerTyped DEF Init
  <1>3. BatchInv  BY <1>2 DEF BatchInv, Working, Queues
  <1>4. WorkerInv  BY <1>2 DEF WorkerInv, Working
  <1>5. ConsumeInv  BY <1>2 DEF ConsumeInv
  <1>6. UnscannedInv  BY DEF Init, UnscannedInv, NoCall
  <1>7. HolderInv  BY DEF Init, HolderInv
  <1> QED BY <1>1, <1>3, <1>4, <1>5, <1>6, <1>7 DEF IndInv

\* The cache is nobody's holder of a request.
LEMMA CacheInv ==
    ASSUME IndInv, Cache
    PROVE  IndInv'
  <1>1. UNCHANGED <<text, analyzed, wanted, queue, retry, enq, scanList, drain, worker,
                    leftToScan, faults>>
    BY DEF Cache, Invalidate, ReaderAdds, Evict
  <1> QED
    BY <1>1 DEF IndInv, QueueTypes, BatchInv, WorkerInv, UnscannedInv, ConsumeInv, HolderInv,
                Working, Owns, NeedsAnalysis, Asked, Served

LEMMA NextInv == IndInv /\ CacheTypes /\ [Next]_vars => IndInv'
  <1> SUFFICES ASSUME IndInv, CacheTypes, [Next]_vars  PROVE IndInv'  OBVIOUS
  <1>1. ASSUME NEW k \in Keys, Change(k) \/ Remove(k) \/ Elapse(k)  PROVE IndInv'
    BY <1>1, ChangeInv, RemoveInv, ElapseInv
  <1>2. CASE Restart  BY <1>2, RestartInv
  <1>3. CASE Enqueue
    BY <1>3, RequestBeginInv, ScanKeyInv, RequestUnscanInv, RequestStoreInv, ScanStoreInv
    DEF Enqueue
  <1>4. CASE ScanBegin  BY <1>4, ScanBeginInv
  <1>5. CASE Drain  BY <1>5, TakeEventsInv, TakeScansInv, DrainDoneInv DEF Drain
  <1>6. ASSUME NEW q \in Queues, NEW k \in Keys, Analyze(q, k)  PROVE IndInv'
    BY <1>6, AnalyzeReadInv, AnalyzeWriteInv, AnalyzeFailsInv, FinishInv, ClearRetryInv,
       CheckSupersededInv, WithdrawInv, CountAttemptInv, GiveUpInv, StoreBackoffInv,
       RequeueInv, YieldInv
    DEF Analyze
  <1>7. CASE Cache  BY <1>7, CacheInv
  <1>8. CASE UNCHANGED vars
    BY <1>8 DEF vars, IndInv, QueueTypes, BatchInv, WorkerInv, UnscannedInv, ConsumeInv,
                HolderInv, Working, Owns, NeedsAnalysis, Asked, Served
  <1> QED BY <1>1, <1>2, <1>3, <1>4, <1>5, <1>6, <1>7, <1>8 DEF Next

-----------------------------------------------------------------------------
\* The cache.

\* What a reader lists is a definition.
LEMMA ListableTyped ==
    ASSUME NEW t \in [Keys -> 0 .. MaxText], NEW k \in Keys, text = t
    PROVE  Listable(k) \in SUBSET (1 .. MaxText) /\ (k \notin Cached => Listable(k) = {})
  BY BoundAssumption DEF Listable

LEMMA CacheInit == Init => CacheTypes
  <1> SUFFICES ASSUME Init  PROVE CacheTypes  OBVIOUS
  <1>1. 0 \in 0 .. MaxText /\ 1 \in 0 .. MaxText  BY BoundAssumption
  <1>2. text \in [Keys -> 0 .. MaxText]  BY <1>1 DEF Init
  <1>3. \A k \in Keys : Listable(k) \in SUBSET (1 .. MaxText) /\ (k \notin Cached => Listable(k) = {})
    BY <1>2, ListableTyped
  <1> QED BY <1>1, <1>3 DEF Init, CacheTypes

LEMMA CacheNext == IndInv /\ CacheTypes /\ [Next]_vars => CacheTypes'
  <1> SUFFICES ASSUME IndInv, CacheTypes, [Next]_vars  PROVE CacheTypes'  OBVIOUS
  <1>0. /\ text \in [Keys -> 0 .. MaxText] /\ 0 \in 0 .. MaxText
        /\ 1 .. MaxText \subseteq 0 .. MaxText
    BY BoundAssumption DEF IndInv, QueueTypes
  <1>1. ASSUME NEW k \in Keys, Change(k)  PROVE CacheTypes'
    <2>1. text' \in [Keys -> 0 .. MaxText]
      BY <1>1, ChangeInv DEF IndInv, QueueTypes
    <2>2. Listable(k)' \in SUBSET (1 .. MaxText) /\ (k \notin Cached => Listable(k)' = {})
      BY <2>1, BoundAssumption DEF Listable
    <2> QED BY <1>1, <2>2 DEF Change, CacheTypes
  <1>2. ASSUME NEW k \in Keys, Remove(k)  PROVE CacheTypes'  BY <1>2 DEF Remove, CacheTypes
  <1>3. CASE Restart
    <2>1. \A k \in Keys : Listable(k) \in SUBSET (1 .. MaxText)
                            /\ (k \notin Cached => Listable(k) = {})
      BY <1>0, ListableTyped
    <2> QED BY <1>0, <1>3, <2>1 DEF Restart, CacheTypes
  <1>4. CASE Cache
    <2>1. ASSUME NEW k \in Keys, Invalidate(k) \/ Evict(k)  PROVE CacheTypes'
      BY <1>0, <2>1 DEF Invalidate, Evict, CacheTypes
    <2>2. ASSUME NEW k \in Keys, ReaderAdds(k)  PROVE CacheTypes'
      <3>1. PICK v \in listed[k] : cache' = [cache EXCEPT ![k] = v]
        BY <2>2 DEF ReaderAdds
      <3>2. v \in 0 .. MaxText /\ k \in Cached  BY <1>0, <3>1 DEF CacheTypes
      <3>3. UNCHANGED <<listed, dirty>>  BY <2>2 DEF ReaderAdds
      <3> QED BY <3>1, <3>2, <3>3 DEF CacheTypes
    <2> QED BY <1>4, <2>1, <2>2 DEF Cache
  <1>5. ASSUME NEW q \in Queues, NEW k \in Keys, AnalyzeRead(q, k)  PROVE CacheTypes'
    <2>1. PICK found \in 0 .. MaxText :
            cache' = IF k \in Cached THEN [cache EXCEPT ![k] = found] ELSE cache
      BY <1>0, <1>5 DEF AnalyzeRead, CacheTypes
    <2>2. UNCHANGED <<listed, dirty>>  BY <1>5 DEF AnalyzeRead
    <2> QED BY <2>1, <2>2 DEF CacheTypes
  <1>6. ASSUME NEW k \in Keys, Elapse(k)  PROVE UNCHANGED cacheVars  BY <1>6 DEF Elapse
  <1>7. CASE Enqueue \/ ScanBegin \/ Drain
    BY <1>7 DEF Enqueue, RequestBegin, ScanKey, RequestUnscan, RequestStore, ScanStore,
                ScanBegin, Drain, TakeEvents, TakeScans, DrainDone, cacheVars, CacheTypes
  <1>8. ASSUME NEW q \in Queues, NEW k \in Keys, Analyze(q, k), ~AnalyzeRead(q, k)
        PROVE  UNCHANGED cacheVars
    BY <1>8 DEF Analyze, AnalyzeWrite, AnalyzeFails, Finish, ClearRetry, CheckSuperseded,
       Withdraw, CountAttempt, GiveUp, StoreBackoff, Requeue, Yield
  <1>9. CASE UNCHANGED cacheVars  BY <1>9 DEF cacheVars, CacheTypes
  <1>10. CASE UNCHANGED vars  BY <1>9, <1>10 DEF vars
  <1> QED BY <1>1, <1>2, <1>3, <1>4, <1>5, <1>6, <1>7, <1>8, <1>9, <1>10 DEF Next

-----------------------------------------------------------------------------
\* The theorems.

\* The inductive invariant of the queues: the types, and who holds a request.
THEOREM Invariance == Spec => [](IndInv /\ CacheTypes)
  BY InitInv, NextInv, CacheInit, CacheNext, PTL DEF Spec

\* The maps, the call under queueMu, the workers and the cache keep the shape the
\* code gives them, and no object but a view is cached.
THEOREM TypeCorrectness == Spec => []TypeOK
  <1>1. IndInv /\ CacheTypes => TypeOK  BY DEF IndInv, TypeOK
  <1> QED BY Invariance, <1>1, PTL

\* No interleaving of QueueAnalysis, queueScan and the workers drops a request:
\* an object nobody is working on and whose lineage is out of date is queued.
THEOREM NoRequestIsLost == Spec => []NoLostRequest
  <1>1. IndInv => NoLostRequest
    <2> SUFFICES ASSUME IndInv, NEW k \in Keys, NeedsAnalysis(k), Quiescent(k), ~leftToScan[k]
                 PROVE  \E q \in Queues : queue[q][k] # 0
      BY DEF NoLostRequest
    <2>1. ~wanted[k] /\ ~Served(k)  BY DEF Quiescent, Served
    <2>2. \A q \in Queues : worker[q][k].pc \notin Carrying
      BY DEF Quiescent, Working, Carrying
    <2> QED BY <2>1, <2>2 DEF IndInv, HolderInv
  <1> QED BY Invariance, <1>1, PTL

\* analyzeObject stores a result only while the object holds the text it read:
\* stored lineage never goes back to an older definition.
THEOREM LineageNeverGoesBack == Spec => NeverBackwards
  <1> DEFINE Forward == \A k \in Keys : analyzed'[k] # analyzed[k] => analyzed'[k] = text[k]
  <1>1. IndInv /\ [Next]_vars => [Forward]_vars
    <2> SUFFICES ASSUME IndInv, Next  PROVE Forward  OBVIOUS
    <2>1. CASE analyzed' = analyzed  BY <2>1
    <2>2. ASSUME NEW q \in Queues, NEW k \in Keys, AnalyzeWrite(q, k)  PROVE Forward
      BY <2>2 DEF AnalyzeWrite, IndInv, QueueTypes
    <2>3. ASSUME NEW k \in Keys, Change(k) \/ Remove(k) \/ Elapse(k)  PROVE analyzed' = analyzed
      BY <2>3 DEF Change, Remove, Elapse
    <2>4. CASE Restart \/ ScanBegin  BY <2>1, <2>4 DEF Restart, ScanBegin
    <2>8. CASE Cache  BY <2>1, <2>8 DEF Cache, Invalidate, ReaderAdds, Evict
    <2>5. CASE Enqueue
      BY <2>1, <2>5 DEF Enqueue, RequestBegin, ScanKey, RequestUnscan, RequestStore, ScanStore
    <2>6. CASE Drain  BY <2>1, <2>6 DEF Drain, TakeEvents, TakeScans, DrainDone
    <2>7. ASSUME NEW q \in Queues, NEW k \in Keys, Analyze(q, k), ~AnalyzeWrite(q, k)
          PROVE  analyzed' = analyzed
      BY <2>7 DEF Analyze, AnalyzeRead, AnalyzeFails, Finish, ClearRetry, CheckSuperseded,
         Withdraw, CountAttempt, GiveUp, StoreBackoff, Requeue, Yield
    <2> QED BY <2>1, <2>2, <2>3, <2>4, <2>5, <2>6, <2>7, <2>8 DEF Next
  <1> QED BY <1>1, Invariance, PTL DEF Spec, NeverBackwards
=============================================================================
