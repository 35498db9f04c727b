----------------------------- MODULE SchemaSync -----------------------------
(***************************************************************************)
(* The schema syncer of one instance (backend/runner/schemasync): the      *)
(* database queue and its backoffs, the checker and its workers, the       *)
(* enumeration of the instance, the periodic scan, and the user-visible    *)
(* sync operations whose outcome is delivered as one message.              *)
(*                                                                         *)
(* A critical section or one operation on a concurrent map is one action;  *)
(* the deletions of one entry from the queue and from the backoffs, and a  *)
(* visit of Range with the deletion it makes, are one action too.  Every   *)
(* actor that changed an operation goes on to call maybeFinishOperation;   *)
(* tell[a] holds the operations actor a still has to call it for, and a    *)
(* takes no other step before.  What a sync reads and writes is abstracted *)
(* to its outcome; the connection limiter is the outcome "saturated".      *)
(* Everything here is process state: a restart loses it, the syncs too.    *)
(***************************************************************************)
EXTENDS Naturals

CONSTANTS
    Databases,    \* databases the instance has had
    Operations,   \* syncs users ask for
    MaxRetries,   \* maxDatabaseSyncRetries
    PeriodicSync  \* the instance has a sync interval (the default is none)

ASSUME RetriesAssumption == MaxRetries \in Nat

\* Every actor has a name of its own.
ASSUME ActorsAssumption ==
    /\ Databases \cap Operations = {}
    /\ {"checker", "enum", "scan"} \cap (Databases \cup Operations) = {}

VARIABLES
    present,    \* the instance is listed: created and not soft-deleted
    hidden,     \* the database row is soft-deleted or was never created
    queue,      \* databaseSyncMap
    retry,      \* databaseSyncRetryMap
    gate,       \* databaseSyncGate: a sync of the database is running
    checker,    \* the checker goroutine
    worker,     \* the checker's goroutine for a database
    enum,       \* instanceSyncGate and the enumeration it guards
    adding,     \* databases an operation or the scan has yet to enqueue
    scan,       \* the periodic scan
    op,         \* the operations, with the handler that drives each
    tell        \* pending calls of maybeFinishOperation

vars == <<present, hidden, queue, retry, gate, checker, worker, enum, adding,
          scan, op, tell>>

Enqueuers == Operations \cup {"scan"}
Actors == Databases \cup Operations \cup {"checker", "enum"}
Outcomes == {"ok", "saturated", "hidden", "failed"}

NoRetry == [attempts |-> 0, waiting |-> FALSE]
NoWorker == [pc |-> "none", outcome |-> "ok"]
NoEnum == [pc |-> "idle", owner |-> {}, callers |-> {},
           new |-> {}, missing |-> {}, told |-> {}]
NoRange == [pc |-> "idle", seen |-> FALSE, visit |-> {}, dropped |-> {}]
NotAdding == [todo |-> {}, current |-> {}]
NewOperation ==
    [pc |-> "none", found |-> {},
     recorded |-> FALSE, sealed |-> FALSE, done |-> FALSE, overdue |-> FALSE,
     error |-> FALSE, registered |-> {}, pending |-> {},
     succeeded |-> {}, failed |-> {}, unfinished |-> {},
     messages |-> 0]

Init ==
    /\ present = FALSE
    /\ hidden = [d \in Databases |-> TRUE]
    /\ queue = [d \in Databases |-> FALSE]
    /\ retry = [d \in Databases |-> NoRetry]
    /\ gate = [d \in Databases |-> FALSE]
    /\ checker = NoRange
    /\ worker = [d \in Databases |-> NoWorker]
    /\ enum = NoEnum
    /\ adding = [a \in Enqueuers |-> NotAdding]
    /\ scan = "idle"
    /\ op = [o \in Operations |-> NewOperation]
    /\ tell = [a \in Actors |-> {}]

Free(a) == tell[a] = {}

-----------------------------------------------------------------------------
\* Operations.

\* Mutant: two callers may both find the operation ready.
ReadyMutant(o) == op[o].sealed /\ op[o].recorded /\ op[o].pending = {}

\* maybeFinishOperation and deliverOperation: the caller that finds the
\* operation ready delivers its one message.
Ready(o) == ~op[o].done /\ op[o].sealed /\ op[o].recorded /\ op[o].pending = {}

MaybeFinish(a, o) ==
    /\ o \in tell[a]
    /\ tell' = [tell EXCEPT ![a] = @ \ {o}]
    /\ op' = IF Ready(o) THEN [op EXCEPT ![o].done = TRUE, ![o].messages = @ + 1]
                         ELSE op
    /\ UNCHANGED <<present, hidden, queue, retry, gate, checker, worker, enum, adding, scan>>

\* deliverOperation: the severity is the worst thing in the message.
Severity(o) ==
    IF op[o].error \/ op[o].failed # {} \/ op[o].unfinished # {} THEN "ERROR" ELSE "INFO"

\* completeDatabase, called by actor a: every operation waiting for d hears.
CompleteDatabase(a, d, good) ==
    /\ op' = [o \in Operations |->
                IF d \notin op[o].pending THEN op[o]
                ELSE IF good THEN [op[o] EXCEPT !.pending = @ \ {d},
                                                !.succeeded = @ \cup {d}]
                ELSE [op[o] EXCEPT !.pending = @ \ {d}, !.failed = @ \cup {d}]]
    /\ tell' = [tell EXCEPT ![a] = {o \in Operations : d \in op[o].pending}]

\* The operation reports now and waits for nothing (FailOperation,
\* AbandonOperation).
GiveUpOn(o) ==
    [op[o] EXCEPT !.error = TRUE, !.recorded = TRUE, !.sealed = TRUE, !.pending = {}]

-----------------------------------------------------------------------------
\* A request handler: CreateInstance, SyncInstance or batchSyncInstance.

At(o, pc) == op[o].pc = pc /\ Free(o)

\* StartOperation
Start(o) ==
    /\ present
    /\ At(o, "none")
    /\ op' = [op EXCEPT ![o].pc = "instance"]
    /\ UNCHANGED <<present, hidden, queue, retry, gate, checker, worker, enum, adding, scan, tell>>

\* instanceSyncGate.acquire: run the enumeration, or wait for the running one.
Acquire(a) ==
    enum' = [enum EXCEPT !.callers = @ \cup {a},
                         !.pc = IF @ = "idle" THEN "running" ELSE @,
                         !.owner = IF enum.pc = "idle" THEN {a} ELSE @]

\* Syncer.SyncInstance, called by a handler.
Join(o) ==
    /\ At(o, "instance")
    /\ Acquire(o)
    /\ op' = [op EXCEPT ![o].pc = "enumerating"]
    /\ UNCHANGED <<present, hidden, queue, retry, gate, checker, worker, adding, scan, tell>>

\* The request of a waiting handler is cancelled.
Leave(o) ==
    /\ o \in enum.callers \ enum.owner
    /\ enum' = [enum EXCEPT !.callers = @ \ {o}]
    /\ op' = [op EXCEPT ![o].pc = "errored"]
    /\ UNCHANGED <<present, hidden, queue, retry, gate, checker, worker, adding, scan, tell>>

\* RecordInstanceResult; a late result must not reopen the operation.
Record(o, pc) ==
    /\ At(o, pc)
    /\ op' = [op EXCEPT ![o] =
                IF op[o].done \/ op[o].recorded
                THEN [op[o] EXCEPT !.pc = IF pc = "ended" THEN "list" ELSE "seal"]
                ELSE [op[o] EXCEPT !.recorded = TRUE, !.error = op[o].error \/ pc = "errored",
                                   !.pc = IF pc = "ended" THEN "list" ELSE "seal"]]
    /\ tell' = [tell EXCEPT ![o] = IF op[o].done \/ op[o].recorded THEN {} ELSE {o}]
    /\ UNCHANGED <<present, hidden, queue, retry, gate, checker, worker, enum, adding, scan>>

\* SyncAllDatabases reads the database list, or the databases just found are
\* taken.
List(o, all) ==
    /\ At(o, "list")
    /\ adding' = [adding EXCEPT ![o].todo =
                     IF all THEN {d \in Databases : ~hidden[d]} ELSE op[o].found]
    /\ op' = [op EXCEPT ![o].pc = "seal"]
    /\ UNCHANGED <<present, hidden, queue, retry, gate, checker, worker, enum, scan, tell>>

\* SyncAllDatabases could not read the list: FailOperation.
ListFails(o) ==
    /\ At(o, "list")
    /\ op' = [op EXCEPT ![o] = [GiveUpOn(o) EXCEPT !.pc = "return"]]
    /\ tell' = [tell EXCEPT ![o] = {o}]
    /\ UNCHANGED <<present, hidden, queue, retry, gate, checker, worker, enum, adding, scan>>

\* EnqueueDatabases: register the databases and seal, unless already sealed.
Seal(o) ==
    /\ At(o, "seal")
    /\ IF op[o].sealed
       THEN /\ op' = [op EXCEPT ![o].pc = "return"]
            /\ adding' = [adding EXCEPT ![o] = NotAdding]
       ELSE /\ op' = [op EXCEPT ![o].pc = "enqueue", ![o].sealed = TRUE,
                                ![o].registered = adding[o].todo,
                                ![o].pending = adding[o].todo]
            /\ UNCHANGED adding
    /\ UNCHANGED <<present, hidden, queue, retry, gate, checker, worker, enum, scan, tell>>

\* enqueueDatabase, first map operation: the request supersedes a backoff.
Supersede(a, d) ==
    /\ IF a = "scan" THEN scan = "enqueue" ELSE At(a, "enqueue")
    /\ adding[a].current = {}
    /\ d \in adding[a].todo
    /\ retry' = [retry EXCEPT ![d] = NoRetry]
    /\ adding' = [adding EXCEPT ![a].current = {d}]
    /\ UNCHANGED <<present, hidden, queue, gate, checker, worker, enum, scan, op, tell>>

\* enqueueDatabase, second map operation.
Enqueue(a, d) ==
    /\ d \in adding[a].current
    /\ queue' = [queue EXCEPT ![d] = TRUE]
    /\ adding' = [adding EXCEPT ![a] = [todo |-> @.todo \ {d}, current |-> {}]]
    /\ UNCHANGED <<present, hidden, retry, gate, checker, worker, enum, scan, op, tell>>

\* EnqueueDatabases ends with maybeFinishOperation.
Enqueued(o) ==
    /\ At(o, "enqueue")
    /\ adding[o] = NotAdding
    /\ op' = [op EXCEPT ![o].pc = "return"]
    /\ tell' = [tell EXCEPT ![o] = {o}]
    /\ UNCHANGED <<present, hidden, queue, retry, gate, checker, worker, enum, adding, scan>>

\* The handler panics before it said everything; its deferred call runs.
Panic(o) ==
    /\ op[o].pc \in {"instance", "ended", "list"}
    /\ Free(o)
    /\ op' = [op EXCEPT ![o].pc = "return"]
    /\ UNCHANGED <<present, hidden, queue, retry, gate, checker, worker, enum, adding, scan, tell>>

\* Mutant: the deferred call abandons an operation that still waits.
ReturnMutant(o) ==
    /\ At(o, "return")
    /\ IF op[o].done
       THEN op' = [op EXCEPT ![o].pc = "returned"] /\ UNCHANGED tell
       ELSE /\ op' = [op EXCEPT ![o] = [GiveUpOn(o) EXCEPT !.pc = "returned"]]
            /\ tell' = [tell EXCEPT ![o] = {o}]
    /\ UNCHANGED <<present, hidden, queue, retry, gate, checker, worker, enum, adding, scan>>

\* The deferred AbandonOperation.
Return(o) ==
    /\ At(o, "return")
    /\ IF op[o].done \/ (op[o].sealed /\ op[o].recorded)
       THEN op' = [op EXCEPT ![o].pc = "returned"] /\ UNCHANGED tell
       ELSE /\ op' = [op EXCEPT ![o] = [GiveUpOn(o) EXCEPT !.pc = "returned"]]
            /\ tell' = [tell EXCEPT ![o] = {o}]
    /\ UNCHANGED <<present, hidden, queue, retry, gate, checker, worker, enum, adding, scan>>

-----------------------------------------------------------------------------
\* The enumeration of the instance.

\* instanceSyncGate.finish: the handlers that called hear the result; an owner
\* that panics records nothing.
PublishEnum(result) ==
    /\ op' = [o \in Operations |->
                IF o \notin enum.callers THEN op[o]
                ELSE [op[o] EXCEPT !.pc = IF result = "ok" THEN "ended"
                                          ELSE IF result = "panic" /\ o \in enum.owner THEN "return"
                                          ELSE "errored",
                                   !.found = IF result = "ok" THEN enum.new ELSE {}]]
    /\ enum' = NoEnum

\* The connection limit, the driver or the store refuses, before the snapshot is
\* applied, half-way or when the instance row is written.  The scan gives the
\* instance up for this round, unless a deadline or a cancelled request was the
\* cause.
EnumFails(result) ==
    /\ enum.pc # "idle"
    /\ enum.pc = "applied" => enum.missing = {} /\ enum.told = {} /\ Free("enum")
    /\ PublishEnum(result)
    /\ IF "scan" \in enum.callers
       THEN scan' = "idle" \/ (result = "error" /\ scan' = "list")
       ELSE UNCHANGED scan
    /\ UNCHANGED <<present, hidden, queue, retry, gate, checker, worker, adding, tell>>

\* The rows of the snapshot S that are missing are created or shown again.
EnumCreate(S) ==
    /\ enum.pc = "running"
    /\ hidden' = [d \in Databases |-> hidden[d] /\ d \notin S]
    /\ enum' = [enum EXCEPT !.pc = "created",
                            !.new = {d \in S : hidden[d]},
                            !.missing = {d \in Databases \ S : ~hidden[d]}]
    /\ UNCHANGED <<present, queue, retry, gate, checker, worker, adding, scan, op, tell>>

\* BatchSoftDeleteDatabases: one statement hides the rows S does not list.
EnumHide ==
    /\ enum.pc = "created"
    /\ hidden' = [d \in Databases |-> hidden[d] \/ d \in enum.missing]
    /\ enum' = [enum EXCEPT !.pc = "applied"]
    /\ UNCHANGED <<present, queue, retry, gate, checker, worker, adding, scan, op, tell>>

\* forgetQueuedDatabase for a database just hidden ...
Forget(d) ==
    /\ enum.pc = "applied" /\ d \in enum.missing
    /\ enum.told = {} /\ Free("enum")
    /\ retry' = [retry EXCEPT ![d] = NoRetry]
    /\ queue' = [queue EXCEPT ![d] = FALSE]
    /\ enum' = [enum EXCEPT !.missing = @ \ {d}, !.told = {d}]
    /\ UNCHANGED <<present, hidden, gate, checker, worker, adding, scan, op, tell>>

\* Mutant: the operations waiting for a forgotten database are not told.
TellHiddenMutant(d) ==
    /\ d \in enum.told
    /\ enum' = [enum EXCEPT !.told = {}]
    /\ UNCHANGED <<present, hidden, queue, retry, gate, checker, worker, adding, scan, op, tell>>

\* ... and the operations waiting for it are told.
TellHidden(d) ==
    /\ d \in enum.told
    /\ CompleteDatabase("enum", d, FALSE)
    /\ enum' = [enum EXCEPT !.told = {}]
    /\ UNCHANGED <<present, hidden, queue, retry, gate, checker, worker, adding, scan>>

EnumSucceeds ==
    /\ enum.pc = "applied"
    /\ enum.missing = {} /\ enum.told = {} /\ Free("enum")
    /\ PublishEnum("ok")
    /\ scan' = IF "scan" \in enum.callers THEN "list" ELSE scan
    /\ UNCHANGED <<present, hidden, queue, retry, gate, checker, worker, adding, tell>>

\* trySyncAll: the instance is enumerated first when it is due ...
ScanBegin ==
    /\ PeriodicSync
    /\ present
    /\ scan = "idle"
    /\ scan' = "enumerating"
    /\ Acquire("scan")
    /\ UNCHANGED <<present, hidden, queue, retry, gate, checker, worker, adding, op, tell>>

ScanNotDue ==
    /\ PeriodicSync
    /\ present
    /\ scan = "idle"
    /\ scan' = "list"
    /\ UNCHANGED <<present, hidden, queue, retry, gate, checker, worker, enum, adding, op, tell>>

\* ... then the databases that are due are enqueued.
ScanList(due) ==
    /\ scan = "list"
    /\ adding' = [adding EXCEPT !["scan"].todo = {d \in due : ~hidden[d]}]
    /\ scan' = "enqueue"
    /\ UNCHANGED <<present, hidden, queue, retry, gate, checker, worker, enum, op, tell>>

\* The scan's budget ends while it waits for a handler's enumeration, or the
\* databases cannot be listed.
ScanFails ==
    /\ scan = "list" \/ "scan" \in enum.callers \ enum.owner
    /\ scan' = "idle"
    /\ enum' = [enum EXCEPT !.callers = @ \ {"scan"}]
    /\ UNCHANGED <<present, hidden, queue, retry, gate, checker, worker, adding, op, tell>>

ScanEnd ==
    /\ scan = "enqueue"
    /\ adding["scan"] = NotAdding
    /\ scan' = "idle"
    /\ UNCHANGED <<present, hidden, queue, retry, gate, checker, worker, enum, adding, op, tell>>

-----------------------------------------------------------------------------
\* The checker.

\* Mutant: a slow operation is expired like an abandoned one.
HasWorkInProgressMutant(o) == FALSE

\* hasWorkInProgressLocked
HasWorkInProgress(o) == \E d \in op[o].pending : queue[d] \/ gate[d]

Overdue(o) == op[o].pc # "none" /\ op[o].overdue /\ ~op[o].done

\* expireOperations, the first thing a tick does.
Tick ==
    /\ checker.pc = "idle"
    /\ op' = [o \in Operations |->
                IF ~Overdue(o) THEN op[o]
                ELSE IF HasWorkInProgress(o) THEN [op[o] EXCEPT !.overdue = FALSE]
                ELSE [op[o] EXCEPT !.unfinished = @ \cup op[o].pending,
                                   !.pending = {},
                                   !.error = @ \/ ~op[o].recorded,
                                   !.recorded = TRUE, !.sealed = TRUE]]
    /\ tell' = [tell EXCEPT !["checker"] =
                    {o \in Operations : Overdue(o) /\ ~HasWorkInProgress(o)}]
    /\ checker' = [checker EXCEPT !.pc = "ticked"]
    /\ UNCHANGED <<present, hidden, queue, retry, gate, worker, enum, adding, scan>>

\* ListInstances, then Range: it visits every key that stays queued and may
\* visit one that is queued meanwhile (extra).
RangeBegin(extra) ==
    /\ checker.pc = "ticked" /\ Free("checker")
    /\ checker' = [checker EXCEPT !.pc = "ranging", !.seen = present,
                                  !.visit = extra \cup {d \in Databases : queue[d]}]
    /\ UNCHANGED <<present, hidden, queue, retry, gate, worker, enum, adding, scan, op, tell>>

\* The instances could not be listed; the tick is skipped.
RangeSkipped ==
    /\ checker.pc = "ticked" /\ Free("checker")
    /\ checker' = [checker EXCEPT !.pc = "idle"]
    /\ UNCHANGED <<present, hidden, queue, retry, gate, worker, enum, adding, scan, op, tell>>

Visited(d) == checker' = [checker EXCEPT !.visit = @ \ {d}]

Visiting(d) ==
    /\ checker.pc = "ranging" /\ checker.dropped = {} /\ Free("checker")
    /\ d \in checker.visit
    /\ queue[d]

\* The instance is not in the list: the entry is dropped ...
DropGone(d) ==
    /\ Visiting(d)
    /\ ~checker.seen
    /\ checker' = [checker EXCEPT !.visit = @ \ {d}, !.dropped = {d}]
    /\ retry' = [retry EXCEPT ![d] = NoRetry]
    /\ queue' = [queue EXCEPT ![d] = FALSE]
    /\ UNCHANGED <<present, hidden, gate, worker, enum, adding, scan, op, tell>>

\* ... and the operations waiting for it are told.
TellGone(d) ==
    /\ d \in checker.dropped
    /\ checker' = [checker EXCEPT !.dropped = {}]
    /\ CompleteDatabase("checker", d, FALSE)
    /\ UNCHANGED <<present, hidden, queue, retry, gate, worker, enum, adding, scan>>

\* retryDue: the backoff of the database is still running.
SkipWaiting(d) ==
    /\ Visiting(d)
    /\ checker.seen
    /\ retry[d].waiting
    /\ Visited(d)
    /\ UNCHANGED <<present, hidden, queue, retry, gate, worker, enum, adding, scan, op, tell>>

\* The database is dequeued and handed to a goroutine.
Dequeue(d) ==
    /\ Visiting(d)
    /\ checker.seen
    /\ ~retry[d].waiting
    /\ Visited(d)
    /\ queue' = [queue EXCEPT ![d] = FALSE]
    /\ worker' = [worker EXCEPT ![d].pc = "start"]
    /\ UNCHANGED <<present, hidden, retry, gate, enum, adding, scan, op, tell>>

\* Range is over and dbwp.Wait returned.
RangeEnd ==
    /\ checker.pc = "ranging" /\ checker.dropped = {} /\ Free("checker")
    /\ \A d \in checker.visit : ~queue[d]
    /\ \A d \in Databases : worker[d].pc = "none"
    /\ checker' = NoRange
    /\ UNCHANGED <<present, hidden, queue, retry, gate, worker, enum, adding, scan, op, tell>>

-----------------------------------------------------------------------------
\* One sync of a database, by a worker or by SyncDatabaseForUser.

WorkerAt(d, pc) == worker[d].pc = pc /\ Free(d)

\* databaseSyncGate.acquire by the worker.
SyncBegin(d) ==
    /\ WorkerAt(d, "start")
    /\ gate' = [gate EXCEPT ![d] = TRUE]
    /\ worker' = [worker EXCEPT ![d].pc = IF gate[d] THEN "wait" ELSE "sync"]
    /\ UNCHANGED <<present, hidden, queue, retry, checker, enum, adding, scan, op, tell>>

\* databaseSyncGate.acquire by a user's request.
UserBegin(d) ==
    /\ ~gate[d]
    /\ ~hidden[d]
    /\ gate' = [gate EXCEPT ![d] = TRUE]
    /\ UNCHANGED <<present, hidden, queue, retry, checker, worker, enum, adding, scan, op, tell>>

\* SyncDatabaseSchema ends and databaseSyncGate.finish publishes the outcome to
\* the worker that ran it or waited for it.  A database the target no longer has
\* is hidden; a soft-deleted instance is still found and synced.
SyncEnd(d, outcome) ==
    /\ gate[d]
    /\ gate' = [gate EXCEPT ![d] = FALSE]
    /\ hidden' = [hidden EXCEPT ![d] = @ \/ outcome = "hidden"]
    /\ worker' = [worker EXCEPT ![d] = IF @.pc \in {"sync", "wait"}
                                       THEN [pc |-> "report", outcome |-> outcome] ELSE @]
    /\ UNCHANGED <<present, queue, retry, checker, enum, adding, scan, op, tell>>

\* Mutant: a database refused a connection is not queued again.
DeferMutant(d) ==
    /\ WorkerAt(d, "report") /\ worker[d].outcome = "saturated"
    /\ worker' = [worker EXCEPT ![d] = NoWorker]
    /\ UNCHANGED <<present, hidden, queue, retry, gate, checker, enum, adding, scan, op, tell>>

\* The limiter is saturated: the database stays queued, no backoff.
Defer(d) ==
    /\ WorkerAt(d, "report") /\ worker[d].outcome = "saturated"
    /\ queue' = [queue EXCEPT ![d] = TRUE]
    /\ worker' = [worker EXCEPT ![d] = NoWorker]
    /\ UNCHANGED <<present, hidden, retry, gate, checker, enum, adding, scan, op, tell>>

\* A finished sync clears the backoff before it reports.
ClearBackoff(d) ==
    /\ WorkerAt(d, "report") /\ worker[d].outcome = "ok"
    /\ retry' = [retry EXCEPT ![d] = NoRetry]
    /\ worker' = [worker EXCEPT ![d].pc = "complete"]
    /\ UNCHANGED <<present, hidden, queue, gate, checker, enum, adding, scan, op, tell>>

\* completeDatabase: the operations hear the outcome of this attempt.
Complete(d) ==
    /\ \/ WorkerAt(d, "complete")
       \/ WorkerAt(d, "report") /\ worker[d].outcome \in {"hidden", "failed"}
    /\ CompleteDatabase(d, d, worker[d].outcome = "ok")
    /\ worker' = [worker EXCEPT ![d].pc = IF worker[d].outcome = "failed" THEN "retry" ELSE "exit"]
    /\ UNCHANGED <<present, hidden, queue, retry, gate, checker, enum, adding, scan>>

\* Mutant: the counter is compared too late.
BackoffMutant(d) ==
    /\ WorkerAt(d, "retry")
    /\ IF retry[d].attempts > MaxRetries
       THEN /\ retry' = [retry EXCEPT ![d] = NoRetry]
            /\ worker' = [worker EXCEPT ![d].pc = "exit"]
       ELSE /\ retry' = [retry EXCEPT ![d] = [attempts |-> @.attempts + 1, waiting |-> TRUE]]
            /\ worker' = [worker EXCEPT ![d].pc = "requeue"]
    /\ UNCHANGED <<present, hidden, queue, gate, checker, enum, adding, scan, op, tell>>

\* scheduleRetry: count the attempt and store the backoff, or give up.
Backoff(d) ==
    /\ WorkerAt(d, "retry")
    /\ IF retry[d].attempts + 1 > MaxRetries
       THEN /\ retry' = [retry EXCEPT ![d] = NoRetry]
            /\ worker' = [worker EXCEPT ![d].pc = "exit"]
       ELSE /\ retry' = [retry EXCEPT ![d] = [attempts |-> @.attempts + 1, waiting |-> TRUE]]
            /\ worker' = [worker EXCEPT ![d].pc = "requeue"]
    /\ UNCHANGED <<present, hidden, queue, gate, checker, enum, adding, scan, op, tell>>

\* scheduleRetry: the database is queued again.
Requeue(d) ==
    /\ WorkerAt(d, "requeue")
    /\ queue' = [queue EXCEPT ![d] = TRUE]
    /\ worker' = [worker EXCEPT ![d] = NoWorker]
    /\ UNCHANGED <<present, hidden, retry, gate, checker, enum, adding, scan, op, tell>>

Exit(d) ==
    /\ WorkerAt(d, "exit")
    /\ worker' = [worker EXCEPT ![d] = NoWorker]
    /\ UNCHANGED <<present, hidden, queue, retry, gate, checker, enum, adding, scan, op, tell>>

-----------------------------------------------------------------------------
\* The environment: time, and the life of the instance row.

Elapse(d) ==
    /\ retry[d].waiting
    /\ retry' = [retry EXCEPT ![d].waiting = FALSE]
    /\ UNCHANGED <<present, hidden, queue, gate, checker, worker, enum, adding, scan, op, tell>>

\* The deadline of an operation passes.
Deadline(o) ==
    /\ op[o].pc # "none"
    /\ ~op[o].overdue
    /\ ~op[o].done
    /\ op' = [op EXCEPT ![o].overdue = TRUE]
    /\ UNCHANGED <<present, hidden, queue, retry, gate, checker, worker, enum, adding, scan, tell>>

\* CreateInstance, DeleteInstance, UndeleteInstance
InstanceChanges ==
    /\ present' = ~present
    /\ UNCHANGED <<hidden, queue, retry, gate, checker, worker, enum, adding, scan, op, tell>>

-----------------------------------------------------------------------------
Handler(o) ==
    \/ Join(o) \/ Leave(o) \/ Record(o, "ended") \/ Record(o, "errored")
    \/ List(o, TRUE) \/ List(o, FALSE) \/ ListFails(o)
    \/ Seal(o) \/ Enqueued(o) \/ Panic(o) \/ Return(o)
    \/ \E d \in Databases : Supersede(o, d) \/ Enqueue(o, d)

Enumerate ==
    \/ EnumHide \/ EnumSucceeds \/ EnumFails("error") \/ EnumFails("panic")
    \/ \E S \in SUBSET Databases : EnumCreate(S)
    \/ \E d \in Databases : Forget(d) \/ TellHidden(d)

Scan ==
    \/ \E due \in SUBSET Databases : ScanList(due)
    \/ \E d \in Databases : Supersede("scan", d) \/ Enqueue("scan", d)
    \/ ScanFails \/ ScanEnd

Check ==
    \/ Tick \/ RangeSkipped \/ RangeEnd
    \/ \E extra \in SUBSET Databases : RangeBegin(extra)
    \/ \E d \in Databases : \/ DropGone(d) \/ TellGone(d)
                            \/ SkipWaiting(d) \/ Dequeue(d)

Work(d) ==
    \/ SyncBegin(d) \/ Defer(d) \/ ClearBackoff(d) \/ Complete(d)
    \/ Backoff(d) \/ Requeue(d) \/ Exit(d)

Next ==
    \/ \E a \in Actors, o \in Operations : MaybeFinish(a, o)
    \/ \E o \in Operations : Start(o) \/ Handler(o) \/ Deadline(o)
    \/ Enumerate \/ ScanBegin \/ ScanNotDue \/ Scan \/ Check
    \/ \E d \in Databases : \/ UserBegin(d)  \/ Work(d) \/ Elapse(d)
                            \/ \E outcome \in Outcomes : SyncEnd(d, outcome)
    \/ InstanceChanges

\* Every goroutine keeps running, the ticker keeps firing, the instances can be
\* listed now and then, time passes, every sync ends by its deadline, and a
\* database is not refused a connection for ever.
Goroutine(a, steps) == steps \/ \E o \in Operations : MaybeFinish(a, o)

Fairness ==
    /\ \A o \in Operations : WF_vars(Goroutine(o, Handler(o)))
    /\ WF_vars(Goroutine("enum", Enumerate))
    /\ WF_vars(Scan)
    /\ WF_vars(Goroutine("checker", Check))
    /\ SF_vars(\E extra \in SUBSET Databases : RangeBegin(extra))
    /\ \A d \in Databases :
        /\ WF_vars(Goroutine(d, Work(d)))
        /\ WF_vars(Elapse(d))
        /\ WF_vars(\E outcome \in Outcomes : SyncEnd(d, outcome))
        /\ SF_vars(/\ worker[d].pc \in {"sync", "wait"}
                   /\ \E outcome \in Outcomes \ {"saturated"} : SyncEnd(d, outcome))

Spec == Init /\ [][Next]_vars

FairSpec == Spec /\ Fairness
-----------------------------------------------------------------------------
OperationSteps == {"none", "instance", "enumerating", "ended", "errored", "list",
                   "seal", "enqueue", "return", "returned"}
WorkerSteps == {"none", "start", "sync", "wait", "report", "complete", "retry",
                "requeue", "exit"}

Retries == [attempts : 0 .. MaxRetries, waiting : BOOLEAN]
CheckerStates == [pc : {"idle", "ticked", "ranging"}, seen : BOOLEAN,
                  visit : SUBSET Databases, dropped : SUBSET Databases]
WorkerStates == [pc : WorkerSteps, outcome : Outcomes]
EnumStates == [pc : {"idle", "running", "created", "applied"},
               owner : SUBSET Enqueuers, callers : SUBSET Enqueuers,
               new : SUBSET Databases, missing : SUBSET Databases, told : SUBSET Databases]
AddingStates == [todo : SUBSET Databases, current : SUBSET Databases]
OperationStates ==
    [pc : OperationSteps, found : SUBSET Databases,
     recorded : BOOLEAN, sealed : BOOLEAN, done : BOOLEAN,
     overdue : BOOLEAN, error : BOOLEAN, registered : SUBSET Databases,
     pending : SUBSET Databases, succeeded : SUBSET Databases,
     failed : SUBSET Databases, unfinished : SUBSET Databases,
     messages : Nat]

\* Every variable has the shape the code gives it.
TypeOK ==
    /\ present \in BOOLEAN
    /\ hidden \in [Databases -> BOOLEAN]
    /\ queue \in [Databases -> BOOLEAN]
    /\ retry \in [Databases -> Retries]
    /\ gate \in [Databases -> BOOLEAN]
    /\ checker \in CheckerStates
    /\ worker \in [Databases -> WorkerStates]
    /\ enum \in EnumStates
    /\ adding \in [Enqueuers -> AddingStates]
    /\ scan \in {"idle", "enumerating", "list", "enqueue"}
    /\ op \in [Operations -> OperationStates]
    /\ tell \in [Actors -> SUBSET Operations]

\* One message per operation, whoever finds it ready first: the handler, a
\* worker, the enumeration or the deadline.
OneMessage == \A o \in Operations : op[o].messages <= 1

\* The books of an operation balance: every database it registered is waited
\* for or counted exactly once, and a delivered message waits for none; hence an
\* INFO message means that every one of them was synced.
BooksBalance ==
    \A o \in Operations :
        LET counted == <<op[o].pending, op[o].succeeded, op[o].failed, op[o].unfinished>>
        IN  /\ op[o].registered = UNION {counted[i] : i \in 1 .. 4}
            /\ \A i, j \in 1 .. 4 : i # j => counted[i] \cap counted[j] = {}
            /\ op[o].messages > 0 => op[o].pending = {}
            /\ op[o].messages > 0 /\ Severity(o) = "INFO"
                   => op[o].succeeded = op[o].registered

\* The checker's goroutine for a database will still report an outcome for it.
WillReport(d) == worker[d].pc \in {"start", "sync", "wait", "report", "complete"}

\* Nobody waits in vain: a database an operation waits for is queued, being
\* synced, about to be queued by the handler, or about to be reported as hidden
\* or gone.
\* The two-hour deadline is a backstop that a running process never needs.
SomebodyReports ==
    \A o \in Operations : \A d \in op[o].pending :
        queue[d] \/ WillReport(d) \/ d \in adding[o].todo
        \/ d \in enum.told \/ d \in checker.dropped

\* A slow operation is not an abandoned one: once its handler has returned, the
\* deadline gives no database up that is queued or being synced, at most one that
\* the enumeration has just hidden and is about to report.
ExpiryIsLast ==
    [][\A o \in Operations :
         op[o].pc = "returned" => op'[o].unfinished \ op[o].unfinished \subseteq enum.told]_vars

\* Every operation a user starts ends in its message.
Delivered == \A o \in Operations : op[o].pc # "none" ~> op[o].messages = 1
=============================================================================
