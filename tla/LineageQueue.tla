---------------------------- MODULE LineageQueue ----------------------------
(***************************************************************************)
(* The lineage analyzer's queues (backend/runner/lineageanalyzer).         *)
(*                                                                         *)
(* Three concurrent maps hold the event queue, the hourly scan's backlog   *)
(* and the retry backoffs.  QueueAnalysis and queueScan run under queueMu; *)
(* the workers of a batch do not take it, so every single map operation is *)
(* a step of its own and the two sides interleave.                         *)
(*                                                                         *)
(* A definition is a version number, 0 when the registry has no row.  The  *)
(* store caches the definitions of views: every reader of the registry     *)
(* fills the cache after its query, a sync clears it after its commit, and *)
(* an entry has no lifetime.  A generation is a token: the code draws it   *)
(* from an atomic counter, so it differs from every generation in use, and *)
(* only that is modelled.                                                  *)
(***************************************************************************)
EXTENDS Naturals, FiniteSets

CONSTANTS
    Keys,         \* analyzable objects
    Cached,       \* the views among them (isMetaTypeCached)
    MaxText,      \* bound: versions a definition goes through
    MaxRetries,   \* maxAnalysisRetries
    BatchLimit,   \* maxAnalyzeBatch
    MaxFaults     \* bound: failed, timed out or panicked analyses and restarts

ASSUME BoundAssumption == MaxText \in Nat \ {0} /\ MaxRetries \in Nat /\ MaxFaults \in Nat

ASSUME CachedAssumption == Cached \subseteq Keys

Queues == {"event", "scan"}

\* One entry per queue and one per worker of a key, plus the one being drawn.
Generations == 1 .. 5

VARIABLES
    text,        \* current definition of the object in the registry
    analyzed,    \* definition the stored lineage was computed from
    wanted,      \* a writer changed the definition and has yet to queue it
    queue,       \* analyzeMap and scanMap: generation per key, 0 when absent
    retry,       \* retryMap: attempts, backoff still running, who stored it
    enq,         \* the call that holds queueMu
    scanList,    \* keys the running full scan still has to queue
    drain,       \* "idle", "taking" (scan queue unread), "running"
    worker,      \* the goroutine analyzing the entry of a key in a queue
    leftToScan,  \* nobody queued the object: only the next full scan will
    faults,
    cache,       \* metaRegistryGUIDCache: version per key, 0 when absent
    listed,      \* versions a reader of this process may have listed, to add to it
    dirty        \* a sync committed a change and has yet to invalidate the entry

cacheVars == <<cache, listed, dirty>>

vars == <<text, analyzed, wanted, queue, retry, enq, scanList, drain,
          worker, leftToScan, faults, cacheVars>>

NoRetry == [attempts |-> 0, waiting |-> FALSE, by |-> "event"]
NoWorker == [pc |-> "none", generation |-> 0, text |-> 0, attempts |-> 0]
NoCall == [op |-> "none"]

\* The row readers of the registry find now, if they cache it.
Listable(k) == IF k \in Cached THEN {text[k]} \ {0} ELSE {}

Init ==
    /\ text = [k \in Keys |-> 1]
    /\ analyzed = [k \in Keys |-> 0]
    /\ wanted = [k \in Keys |-> FALSE]
    /\ queue = [q \in Queues |-> [k \in Keys |-> 0]]
    /\ retry = [k \in Keys |-> NoRetry]
    /\ enq = NoCall
    /\ scanList = {}
    /\ drain = "idle"
    /\ worker = [q \in Queues |-> [k \in Keys |-> NoWorker]]
    /\ leftToScan = [k \in Keys |-> TRUE]
    /\ faults = 0
    /\ cache = [k \in Keys |-> 0]
    /\ listed = [k \in Keys |-> Listable(k)]
    /\ dirty = [k \in Keys |-> FALSE]

Working(q, k) == worker[q][k].pc # "none"
Goto(q, k, pc) == worker' = [worker EXCEPT ![q][k].pc = pc]
Return(q, k, pc) == worker' = [worker EXCEPT ![q][k].pc = pc, ![q][k].text = 0]
Exit(q, k) == worker' = [worker EXCEPT ![q][k] = NoWorker]

\* nextGeneration: a value no entry and no worker of the key carries.
InUse(k) == {queue[q][k] : q \in Queues} \cup {worker[q][k].generation : q \in Queues}
NextGeneration(k) == CHOOSE g \in Generations : g \notin InUse(k)

-----------------------------------------------------------------------------
\* A sync, a save or an ingest writes a new definition; the call of
\* QueueAnalysis follows it.  The database's gate lets no second sync in before
\* the entry is invalidated.
Change(k) ==
    /\ text[k] \in 1 .. MaxText - 1
    /\ ~dirty[k]
    /\ text' = [text EXCEPT ![k] = @ + 1]
    /\ wanted' = [wanted EXCEPT ![k] = TRUE]
    /\ dirty' = [dirty EXCEPT ![k] = k \in Cached]
    /\ listed' = [listed EXCEPT ![k] = @ \cup Listable(k)']
    /\ UNCHANGED <<analyzed, queue, retry, enq, scanList, drain, worker, leftToScan, faults,
                   cache>>

\* The object leaves the registry; nothing is queued.
Remove(k) ==
    /\ text[k] # 0
    /\ ~dirty[k]
    /\ text' = [text EXCEPT ![k] = 0]
    /\ dirty' = [dirty EXCEPT ![k] = k \in Cached]
    /\ UNCHANGED <<analyzed, wanted, queue, retry, enq, scanList, drain, worker, leftToScan,
                   faults, cache, listed>>

\* InvalidateMetaRegistryCache, after the commit and before QueueAnalysis.
Invalidate(k) ==
    /\ dirty[k]
    /\ dirty' = [dirty EXCEPT ![k] = FALSE]
    /\ cache' = [cache EXCEPT ![k] = 0]
    /\ UNCHANGED <<text, analyzed, wanted, queue, retry, enq, scanList, drain, worker,
                   leftToScan, faults, listed>>

\* A reader of the registry (GetMetaRegistry, ListMetaRegistry and its like) adds what
\* it listed to the cache, whatever was committed since: any definition the registry
\* has held since the process started.
ReaderAdds(k) ==
    \E v \in listed[k] \ {cache[k]} :
      /\ cache' = [cache EXCEPT ![k] = v]
      /\ UNCHANGED <<text, analyzed, wanted, queue, retry, enq, scanList, drain, worker,
                     leftToScan, faults, listed, dirty>>

\* Other objects push the entry out of the LRU.
Evict(k) ==
    /\ cache[k] # 0
    /\ cache' = [cache EXCEPT ![k] = 0]
    /\ UNCHANGED <<text, analyzed, wanted, queue, retry, enq, scanList, drain, worker,
                   leftToScan, faults, listed, dirty>>

\* The process stops and starts again: the queues, the backoffs, the running
\* batch, the cache and a writer that has not queued its change yet are gone.
Restart ==
    /\ faults < MaxFaults
    /\ faults' = faults + 1
    /\ wanted' = [k \in Keys |-> FALSE]
    /\ queue' = [q \in Queues |-> [k \in Keys |-> 0]]
    /\ retry' = [k \in Keys |-> NoRetry]
    /\ enq' = NoCall
    /\ scanList' = {}
    /\ drain' = "idle"
    /\ worker' = [q \in Queues |-> [k \in Keys |-> NoWorker]]
    /\ leftToScan' = [k \in Keys |-> TRUE]
    /\ cache' = [k \in Keys |-> 0]
    /\ listed' = [k \in Keys |-> Listable(k)]
    /\ dirty' = [k \in Keys |-> FALSE]
    /\ UNCHANGED <<text, analyzed>>

\* QueueAnalysis takes queueMu and deletes the backoff.  The caller is the
\* writer of the definition, or a worker whose result was stale.
RequestBegin(k) ==
    /\ enq = NoCall
    /\ \/ /\ wanted[k] /\ ~dirty[k]
          /\ wanted' = [wanted EXCEPT ![k] = FALSE]
          /\ enq' = [op |-> "request", key |-> k, step |-> "scan", caller |-> "writer"]
          /\ UNCHANGED worker
       \/ \E q \in Queues :
          /\ worker[q][k].pc = "stale"
          /\ Goto(q, k, "requeueing")
          /\ enq' = [op |-> "request", key |-> k, step |-> "scan", caller |-> q]
          /\ UNCHANGED wanted
    /\ retry' = [retry EXCEPT ![k] = NoRetry]
    /\ UNCHANGED <<text, analyzed, queue, scanList, drain, leftToScan, faults, cacheVars>>

\* QueueAnalysis deletes the scan entry.
RequestUnscan ==
    /\ enq.op = "request" /\ enq.step = "scan"
    /\ queue' = [queue EXCEPT !["scan"][enq.key] = 0]
    /\ enq' = [enq EXCEPT !.step = "store"]
    /\ UNCHANGED <<text, analyzed, wanted, retry, scanList, drain, worker, leftToScan,
                   faults, cacheVars>>

\* QueueAnalysis stores the event entry and releases queueMu.
RequestStore ==
    /\ enq.op = "request" /\ enq.step = "store"
    /\ queue' = [queue EXCEPT !["event"][enq.key] = NextGeneration(enq.key)]
    /\ leftToScan' = [leftToScan EXCEPT ![enq.key] = FALSE]
    /\ IF enq.caller = "writer" THEN UNCHANGED worker ELSE Exit(enq.caller, enq.key)
    /\ enq' = NoCall
    /\ UNCHANGED <<text, analyzed, wanted, retry, scanList, drain, faults, cacheVars>>

\* needsAnalysis
NeedsAnalysis(k) == text[k] \notin {0, analyzed[k]}

\* queueAll reads the registry and the stored versions.
ScanBegin ==
    /\ scanList = {}
    /\ scanList' = {k \in Keys : NeedsAnalysis(k)}
    /\ UNCHANGED <<text, analyzed, wanted, queue, retry, enq, drain, worker, leftToScan,
                   faults, cacheVars>>

\* queueScan takes queueMu and skips a key the event queue holds; otherwise it
\* deletes the backoff.
ScanKey(k) ==
    /\ k \in scanList
    /\ enq = NoCall
    /\ scanList' = scanList \ {k}
    /\ IF queue["event"][k] # 0 THEN UNCHANGED <<enq, retry>>
       ELSE /\ enq' = [op |-> "scan", key |-> k]
            /\ retry' = [retry EXCEPT ![k] = NoRetry]
    /\ UNCHANGED <<text, analyzed, wanted, queue, drain, worker, leftToScan, faults, cacheVars>>

\* queueScan stores the scan entry and releases queueMu.
ScanStore ==
    /\ enq.op = "scan"
    /\ queue' = [queue EXCEPT !["scan"][enq.key] = NextGeneration(enq.key)]
    /\ leftToScan' = [leftToScan EXCEPT ![enq.key] = FALSE]
    /\ enq' = NoCall
    /\ UNCHANGED <<text, analyzed, wanted, retry, scanList, drain, worker, faults, cacheVars>>

-----------------------------------------------------------------------------
\* Mutant: a key with a backoff on record is passed over, elapsed or not.
ReadyKeysMutant(q) == {k \in Keys : queue[q][k] # 0 /\ retry[k] = NoRetry}

\* takeAnalyzeBatch: entries of the queue whose backoff is over.
ReadyKeys(q) == {k \in Keys : queue[q][k] # 0 /\ ~retry[k].waiting}

Selections(q, limit) ==
    {S \in SUBSET ReadyKeys(q) : /\ Cardinality(S) <= limit
                                 /\ S = ReadyKeys(q) \/ Cardinality(S) = limit}

Select(q, S) ==
    worker' = [worker EXCEPT ![q] = [k \in Keys |->
                  IF k \in S THEN [NoWorker EXCEPT !.pc = "selected",
                                                   !.generation = queue[q][k]]
                             ELSE NoWorker]]

\* drainAndAnalyze selects event entries first ...
TakeEvents(S) ==
    /\ drain = "idle"
    /\ Select("event", S)
    /\ drain' = "taking"
    /\ UNCHANGED <<text, analyzed, wanted, queue, retry, enq, scanList, leftToScan,
                   faults, cacheVars>>

\* Mutant: the backlog is taken out of its queue before the cap is applied.
TakeScansMutant(S) ==
    /\ drain = "taking"
    /\ Select("scan", S)
    /\ queue' = [queue EXCEPT !["scan"] = [k \in Keys |->
                    IF k \in ReadyKeys("scan") THEN 0 ELSE queue["scan"][k]]]
    /\ drain' = "running"
    /\ UNCHANGED <<text, analyzed, wanted, retry, enq, scanList, leftToScan, faults, cacheVars>>

\* ... and fills what is left of the batch from the scan backlog.
TakeScans(S) ==
    /\ drain = "taking"
    /\ Select("scan", S)
    /\ drain' = "running"
    /\ UNCHANGED <<text, analyzed, wanted, queue, retry, enq, scanList, leftToScan,
                   faults, cacheVars>>

Remaining == BatchLimit - Cardinality({k \in Keys : Working("event", k)})

\* wp.Wait returned; the next tick may select again.
DrainDone ==
    /\ drain = "running"
    /\ \A q \in Queues, k \in Keys : ~Working(q, k)
    /\ drain' = "idle"
    /\ UNCHANGED <<text, analyzed, wanted, queue, retry, enq, scanList, worker,
                   leftToScan, faults, cacheVars>>

-----------------------------------------------------------------------------
\* analyzeObject reads the definition: GetMetaRegistry answers from the cache, or
\* lists the row and adds it to the cache if it is a view (later, when ReaderAdds
\* does).  A missing row is an error.
AnalyzeRead(q, k) ==
    /\ drain = "running"
    /\ worker[q][k].pc = "selected"
    /\ LET found == IF cache[k] # 0 THEN cache[k] ELSE text[k]
       IN  /\ worker' = [worker EXCEPT ![q][k].pc = IF found = 0 THEN "failed" ELSE "read",
                                       ![q][k].text = found]
           /\ cache' = IF k \in Cached THEN [cache EXCEPT ![k] = found] ELSE cache
    /\ UNCHANGED <<text, analyzed, wanted, queue, retry, enq, scanList, drain,
                   leftToScan, faults, listed, dirty>>

\* analysisWriteError: what a guarded write finds: the object holds the text that
\* was analyzed or is gone (the result is stored or dropped), or it changed.
AfterWrite(q, k) == IF text[k] \in {0, worker[q][k].text} THEN "consume" ELSE "stale"

\* Mutant: the result is written whatever the object holds now.
AnalyzeWriteMutant(q, k) ==
    /\ worker[q][k].pc = "read"
    /\ analyzed' = [analyzed EXCEPT ![k] = worker[q][k].text]
    /\ Goto(q, k, "consume")
    /\ UNCHANGED <<text, wanted, queue, retry, enq, scanList, drain, leftToScan, faults,
                   cacheVars>>

\* analyzeObject stores the result if the object still holds the text it read:
\* a deleted object drops the result, a changed one is queued again.
AnalyzeWrite(q, k) ==
    /\ worker[q][k].pc = "read"
    /\ IF text[k] = worker[q][k].text
       THEN analyzed' = [analyzed EXCEPT ![k] = text[k]]
       ELSE UNCHANGED analyzed
    /\ Return(q, k, AfterWrite(q, k))
    /\ UNCHANGED <<text, wanted, queue, retry, enq, scanList, drain, leftToScan, faults,
                   cacheVars>>

\* A store error, a timeout or a panic.
AnalyzeFails(q, k) ==
    /\ drain = "running"
    /\ worker[q][k].pc \in {"selected", "read"}
    /\ faults < MaxFaults
    /\ faults' = faults + 1
    /\ Return(q, k, "failed")
    /\ UNCHANGED <<text, analyzed, wanted, queue, retry, enq, scanList, drain,
                   leftToScan, cacheVars>>

\* Mutant: the served entry is deleted whatever generation it carries.
ConsumeMutant(q, k) == queue' = [queue EXCEPT ![q][k] = 0]

\* consumeQueuedAnalysis: CompareAndDelete of the generation selected.
Owns(q, k) == queue[q][k] = worker[q][k].generation
Consume(q, k) == queue' = [queue EXCEPT ![q][k] = IF Owns(q, k) THEN 0 ELSE @]

\* A finished analysis removes the entry it served ...
Finish(q, k) ==
    /\ worker[q][k].pc = "consume"
    /\ Consume(q, k)
    /\ Goto(q, k, "clear")
    /\ UNCHANGED <<text, analyzed, wanted, retry, enq, scanList, drain, leftToScan,
                   faults, cacheVars>>

\* ... and then the backoff of the key.
ClearRetry(q, k) ==
    /\ worker[q][k].pc = "clear"
    /\ retry' = [retry EXCEPT ![k] = NoRetry]
    /\ Exit(q, k)
    /\ UNCHANGED <<text, analyzed, wanted, queue, enq, scanList, drain, leftToScan,
                   faults, cacheVars>>

\* queued: the event entry of a key hides its scan entry.
QueuedGeneration(k) ==
    IF queue["event"][k] # 0 THEN queue["event"][k] ELSE queue["scan"][k]

\* retryAfterFailure: give way to a newer request.
CheckSuperseded(q, k) ==
    /\ worker[q][k].pc = "failed"
    /\ IF QueuedGeneration(k) = worker[q][k].generation
       THEN Goto(q, k, "withdraw") ELSE Exit(q, k)
    /\ UNCHANGED <<text, analyzed, wanted, queue, retry, enq, scanList, drain,
                   leftToScan, faults, cacheVars>>

\* retryAfterFailure: remove the served entry, unless it was just replaced.
Withdraw(q, k) ==
    /\ worker[q][k].pc = "withdraw"
    /\ Consume(q, k)
    /\ IF Owns(q, k) THEN Goto(q, k, "count") ELSE Exit(q, k)
    /\ UNCHANGED <<text, analyzed, wanted, retry, enq, scanList, drain, leftToScan,
                   faults, cacheVars>>

\* Mutant: the last attempt schedules one more.
CountAttemptMutant(q, k) ==
    /\ worker[q][k].pc = "count"
    /\ LET n == retry[k].attempts + 1
       IN  worker' = [worker EXCEPT ![q][k].attempts = n,
                                    ![q][k].pc = IF n > MaxRetries + 1 THEN "giveup"
                                                                       ELSE "backoff"]
    /\ UNCHANGED <<text, analyzed, wanted, queue, retry, enq, scanList, drain,
                   leftToScan, faults, cacheVars>>

\* scheduleRetry: load the counter.
CountAttempt(q, k) ==
    /\ worker[q][k].pc = "count"
    /\ LET n == retry[k].attempts + 1
       IN  worker' = [worker EXCEPT ![q][k].attempts = n,
                                    ![q][k].pc = IF n > MaxRetries THEN "giveup"
                                                                   ELSE "backoff"]
    /\ UNCHANGED <<text, analyzed, wanted, queue, retry, enq, scanList, drain,
                   leftToScan, faults, cacheVars>>

\* scheduleRetry: drop the retry state after the last attempt.
GiveUp(q, k) ==
    /\ worker[q][k].pc = "giveup"
    /\ retry' = [retry EXCEPT ![k] = NoRetry]
    /\ leftToScan' = [leftToScan EXCEPT ![k] = TRUE]
    /\ Exit(q, k)
    /\ UNCHANGED <<text, analyzed, wanted, queue, enq, scanList, drain, faults, cacheVars>>

\* scheduleRetry: store the backoff.
StoreBackoff(q, k) ==
    /\ worker[q][k].pc = "backoff"
    /\ retry' = [retry EXCEPT ![k] = [attempts |-> worker[q][k].attempts,
                                      waiting |-> TRUE, by |-> q]]
    /\ Goto(q, k, "requeue")
    /\ UNCHANGED <<text, analyzed, wanted, queue, enq, scanList, drain, leftToScan,
                   faults, cacheVars>>

\* scheduleRetry: LoadOrStore into the event queue.
Requeue(q, k) ==
    /\ worker[q][k].pc = "requeue"
    /\ IF queue["event"][k] = 0
       THEN /\ queue' = [queue EXCEPT !["event"][k] = NextGeneration(k)]
            /\ Exit(q, k)
       ELSE /\ Goto(q, k, "yield")
            /\ UNCHANGED queue
    /\ UNCHANGED <<text, analyzed, wanted, retry, enq, scanList, drain, leftToScan,
                   faults, cacheVars>>

\* scheduleRetry: a fresh request is queued, take the backoff just stored away.
Yield(q, k) ==
    /\ worker[q][k].pc = "yield"
    /\ retry' = [retry EXCEPT ![k] = IF /\ @.by = q
                                        /\ @.attempts = worker[q][k].attempts
                                     THEN NoRetry ELSE @]
    /\ Exit(q, k)
    /\ UNCHANGED <<text, analyzed, wanted, queue, enq, scanList, drain, leftToScan,
                   faults, cacheVars>>

\* The backoff of a key elapses.
Elapse(k) ==
    /\ retry[k].waiting
    /\ retry' = [retry EXCEPT ![k].waiting = FALSE]
    /\ UNCHANGED <<text, analyzed, wanted, queue, enq, scanList, drain, worker,
                   leftToScan, faults, cacheVars>>

-----------------------------------------------------------------------------
Analyze(q, k) ==
    \/ AnalyzeRead(q, k) \/ AnalyzeWrite(q, k) \/ AnalyzeFails(q, k)
    \/ Finish(q, k) \/ ClearRetry(q, k)
    \/ CheckSuperseded(q, k) \/ Withdraw(q, k) \/ CountAttempt(q, k)
    \/ GiveUp(q, k) \/ StoreBackoff(q, k) \/ Requeue(q, k) \/ Yield(q, k)

Enqueue ==
    \/ \E k \in Keys : RequestBegin(k) \/ ScanKey(k)
    \/ RequestUnscan \/ RequestStore \/ ScanStore

Drain ==
    \/ \E S \in Selections("event", BatchLimit) : TakeEvents(S)
    \/ \E S \in Selections("scan", Remaining) : TakeScans(S)
    \/ DrainDone

\* The registry's cache is shared with every other reader.
Cache ==
    \E k \in Keys : Invalidate(k) \/ ReaderAdds(k) \/ Evict(k)

Next ==
    \/ \E k \in Keys : Change(k) \/ Remove(k) \/ Elapse(k)
    \/ Cache
    \/ Restart
    \/ Enqueue
    \/ ScanBegin
    \/ Drain
    \/ \E q \in Queues, k \in Keys : Analyze(q, k)

\* The tickers keep firing, goroutines keep running and backoffs elapse; a
\* writer that stored a definition goes on to invalidate and to queue it.  Nothing is
\* assumed of the other readers and of evictions.
Fairness ==
    /\ WF_vars(Drain)
    /\ WF_vars(ScanBegin)
    /\ WF_vars(RequestUnscan) /\ WF_vars(RequestStore) /\ WF_vars(ScanStore)
    /\ \A k \in Keys : /\ SF_vars(RequestBegin(k))
                       /\ SF_vars(ScanKey(k))
                       /\ WF_vars(Elapse(k))
                       /\ WF_vars(Invalidate(k))
    /\ \A q \in Queues, k \in Keys : WF_vars(Analyze(q, k))

Spec == Init /\ [][Next]_vars

FairSpec == Spec /\ Fairness

-----------------------------------------------------------------------------
WorkerSteps == {"none", "selected", "read", "stale", "requeueing", "consume",
                "clear", "failed", "withdraw", "count", "giveup", "backoff",
                "requeue", "yield"}

Calls ==
    {NoCall}
      \cup [op : {"request"}, key : Keys, step : {"scan", "store"}, caller : {"writer"} \cup Queues]
      \cup [op : {"scan"}, key : Keys]
Retries == [attempts : 0 .. MaxRetries, waiting : BOOLEAN, by : Queues]
WorkerStates == [pc : WorkerSteps, generation : {0} \cup Generations,
                 text : 0 .. MaxText, attempts : 0 .. MaxRetries + 1]

QueueTypes ==
    /\ text \in [Keys -> 0 .. MaxText]
    /\ analyzed \in [Keys -> 0 .. MaxText]
    /\ wanted \in [Keys -> BOOLEAN]
    /\ queue \in [Queues -> [Keys -> {0} \cup Generations]]
    /\ retry \in [Keys -> Retries]
    /\ enq \in Calls
    /\ scanList \in SUBSET Keys
    /\ drain \in {"idle", "taking", "running"}
    /\ worker \in [Queues -> [Keys -> WorkerStates]]
    /\ leftToScan \in [Keys -> BOOLEAN]
    /\ faults \in 0 .. MaxFaults

\* Only views are cached, and a reader adds nothing but a definition.
CacheTypes ==
    /\ cache \in [Keys -> 0 .. MaxText]
    /\ listed \in [Keys -> SUBSET (1 .. MaxText)]
    /\ dirty \in [Keys -> BOOLEAN]
    /\ \A k \in Keys \ Cached : cache[k] = 0 /\ listed[k] = {} /\ ~dirty[k]

\* Every variable has the shape the code gives it.
TypeOK == QueueTypes /\ CacheTypes

\* Nobody is in the middle of queueing or analyzing the object.
Quiescent(k) ==
    /\ ~wanted[k]
    /\ enq.op # "none" => enq.key # k
    /\ \A q \in Queues : ~Working(q, k)

\* No request is lost: an object whose stored lineage is out of date is queued,
\* unless it was left to the next scan (at startup, or its retries are exhausted).
\* In particular an analysis that finishes
\* or fails never removes a request that arrived while it ran.
NoLostRequest ==
    \A k \in Keys :
        (NeedsAnalysis(k) /\ Quiescent(k) /\ ~leftToScan[k])
            => \E q \in Queues : queue[q][k] # 0

\* A result computed from an older definition never replaces a newer one: once
\* the current definition is analyzed, it stays so until it changes.
NeverBackwards ==
    [][\A k \in Keys : analyzed'[k] # analyzed[k] => analyzed'[k] = text[k]]_vars

\* The cache holds the current definition of the object, or none.
Current(k) == cache[k] \in {0, text[k]}

\* The stored lineage of an object catches up with its definition once it stops
\* changing, through failures, backoffs and exhausted retries - unless the cache
\* keeps an older definition for good.  A reader that lists the row before a commit
\* and adds it after the invalidation leaves one there; analyzeObject then reads it
\* time and again, and its write is stale every time.
Converges == \A k \in Keys : <>[]Current(k) => <>[]~NeedsAnalysis(k)
=============================================================================
