-------------------------- MODULE SchemaSyncProofs --------------------------
(***************************************************************************)
(* Proofs about the schema syncer, for every set of databases and of       *)
(* operations, with or without the periodic scan: the types, that an       *)
(* operation delivers one message whose books balance, that somebody will  *)
(* report every database it waits for, and that the deadline gives up no   *)
(* database that is queued or being synced.                                *)
(*                                                                         *)
(* The argument: an operation registers its databases once, when its       *)
(* handler seals it, and every later step moves a database from pending to *)
(* one of the outcomes or gives up on an operation that registered none.   *)
(* A database leaves the queue only into the hands of a worker or of the   *)
(* one call - of the enumeration or of the checker - that is about to tell *)
(* the operations; and the deadline is looked at only between two rounds,  *)
(* when no worker and no such call of the checker is left.                 *)
(***************************************************************************)
EXTENDS SchemaSync, TLAPS

-----------------------------------------------------------------------------
\* The inductive invariant.

\* The handler has not reached EnqueueDatabases.
Early == {"none", "instance", "enumerating", "ended", "errored", "list", "seal"}

\* The books of an operation r.
Book(r) ==
    /\ r.registered = r.pending \cup r.succeeded \cup r.failed \cup r.unfinished
    /\ r.pending \cap (r.succeeded \cup r.failed \cup r.unfinished) = {}
    /\ r.succeeded \cap (r.failed \cup r.unfinished) = {}
    /\ r.failed \cap r.unfinished = {}

\* What an operation r has been told, and what it may still be told.
Life(r) ==
    /\ r.pc \in Early \/ ~r.sealed => r.registered = {}
    /\ r.pc \in {"list", "seal", "enqueue"} \/ r.sealed => r.recorded
    /\ r.done => r.sealed /\ r.pending = {}
    /\ r.messages = IF r.done THEN 1 ELSE 0

OperationInv == \A o \in Operations : Book(op[o]) /\ Life(op[o])

\* A handler that waits for the enumeration does nothing else.
CallersInv == \A o \in Operations : o \in enum.callers => op[o].pc = "enumerating"

\* Databases are enqueued by the handler, before it returns.
AddingInv == \A o \in Operations : op[o].pc \notin {"seal", "enqueue"} => adding[o] = NotAdding

\* The enumeration tells of one hidden database at a time.
EnumInv ==
    /\ \A d, e \in enum.told : d = e
    /\ enum.pc # "applied" => enum.told = {}

\* The checker tells of one dropped database at a time, and a round ends with
\* its workers.
CheckerInv ==
    /\ \A d, e \in checker.dropped : d = e
    /\ checker.pc # "ranging" => /\ checker.dropped = {}
                                 /\ \A d \in Databases : worker[d].pc = "none"

IndInv ==
    /\ TypeOK /\ OperationInv /\ CallersInv /\ AddingInv /\ EnumInv /\ CheckerInv
    /\ SomebodyReports

-----------------------------------------------------------------------------
\* One operation's steps, whoever takes them.

Good(r) == r \in OperationStates /\ Book(r) /\ Life(r)

\* What a step leaves of the books.
SameBooks(r, s) ==
    /\ s.registered = r.registered /\ s.pending = r.pending /\ s.succeeded = r.succeeded
    /\ s.failed = r.failed /\ s.unfinished = r.unfinished

LEMMA FieldsTyped ==
    ASSUME NEW r \in OperationStates
    PROVE  /\ r.pc \in OperationSteps /\ r.found \in SUBSET Databases
           /\ r.recorded \in BOOLEAN /\ r.sealed \in BOOLEAN /\ r.done \in BOOLEAN
           /\ r.overdue \in BOOLEAN /\ r.error \in BOOLEAN
           /\ r.registered \in SUBSET Databases /\ r.pending \in SUBSET Databases
           /\ r.succeeded \in SUBSET Databases /\ r.failed \in SUBSET Databases
           /\ r.unfinished \in SUBSET Databases /\ r.messages \in Nat
  BY Zenon DEF OperationStates

\* The handler goes on to another of its steps.
LEMMA AdvanceGood ==
    ASSUME NEW r, Good(r), NEW pc \in OperationSteps, NEW s, s = [r EXCEPT !.pc = pc],
           pc \in Early => r.registered = {},
           pc \in {"list", "seal", "enqueue"} => r.recorded
    PROVE  Good(s) /\ s.pc = pc /\ SameBooks(r, s)
  <1>1. r \in OperationStates  BY DEF Good
  <1>2. /\ s \in OperationStates /\ s.pc = pc /\ s.recorded = r.recorded /\ s.sealed = r.sealed
        /\ s.done = r.done /\ s.messages = r.messages
        /\ s.registered = r.registered /\ s.pending = r.pending /\ s.succeeded = r.succeeded
        /\ s.failed = r.failed /\ s.unfinished = r.unfinished
    BY <1>1, Zenon DEF OperationStates
  <1>3. Book(s) /\ SameBooks(r, s)  BY <1>2 DEF Good, Book, SameBooks
  <1>4. Life(s)  BY <1>2 DEF Good, Life
  <1> QED BY <1>2, <1>3, <1>4 DEF Good

\* The enumeration returns to the handler.
LEMMA ReturnGood ==
    ASSUME NEW r, Good(r), r.pc \in Early, NEW pc \in {"ended", "errored", "return"},
           NEW found \in SUBSET Databases,
           NEW s, s = [r EXCEPT !.pc = pc, !.found = found]
    PROVE  Good(s) /\ s.pc = pc /\ SameBooks(r, s)
  <1>1. r \in OperationStates /\ pc \in OperationSteps  BY DEF Good, OperationSteps
  <1>2. /\ s \in OperationStates /\ s.pc = pc /\ s.recorded = r.recorded /\ s.sealed = r.sealed
        /\ s.done = r.done /\ s.messages = r.messages
        /\ s.registered = r.registered /\ s.pending = r.pending /\ s.succeeded = r.succeeded
        /\ s.failed = r.failed /\ s.unfinished = r.unfinished
    BY <1>1, Zenon DEF OperationStates
  <1>3. Book(s) /\ SameBooks(r, s)  BY <1>2 DEF Good, Book, SameBooks
  <1>4. Life(s)  BY <1>2 DEF Good, Life
  <1> QED BY <1>2, <1>3, <1>4 DEF Good

\* The deadline passes, or is given more time.
LEMMA OverdueGood ==
    ASSUME NEW r, Good(r), NEW late \in BOOLEAN, NEW s, s = [r EXCEPT !.overdue = late]
    PROVE  Good(s) /\ s.pc = r.pc /\ SameBooks(r, s)
  <1>1. r \in OperationStates  BY DEF Good
  <1>2. /\ s \in OperationStates /\ s.pc = r.pc /\ s.recorded = r.recorded /\ s.sealed = r.sealed
        /\ s.done = r.done /\ s.messages = r.messages
        /\ s.registered = r.registered /\ s.pending = r.pending /\ s.succeeded = r.succeeded
        /\ s.failed = r.failed /\ s.unfinished = r.unfinished
    BY <1>1, Zenon DEF OperationStates
  <1>3. Book(s) /\ SameBooks(r, s)  BY <1>2 DEF Good, Book, SameBooks
  <1>4. Life(s)  BY <1>2 DEF Good, Life
  <1> QED BY <1>2, <1>3, <1>4 DEF Good

\* RecordInstanceResult
LEMMA RecordGood ==
    ASSUME NEW r, Good(r), r.pc \in Early, NEW pc \in {"list", "seal"}, NEW error \in BOOLEAN,
           NEW s, s = [r EXCEPT !.recorded = TRUE, !.error = error, !.pc = pc]
    PROVE  Good(s) /\ s.pc = pc /\ SameBooks(r, s)
  <1>1. r \in OperationStates /\ pc \in OperationSteps /\ TRUE \in BOOLEAN
    BY DEF Good, OperationSteps
  <1>2. /\ s \in OperationStates /\ s.pc = pc /\ s.recorded = TRUE /\ s.sealed = r.sealed
        /\ s.done = r.done /\ s.messages = r.messages
        /\ s.registered = r.registered /\ s.pending = r.pending /\ s.succeeded = r.succeeded
        /\ s.failed = r.failed /\ s.unfinished = r.unfinished
    BY <1>1, Zenon DEF OperationStates
  <1>3. Book(s) /\ SameBooks(r, s)  BY <1>2 DEF Good, Book, SameBooks
  <1>4. Life(s)  BY <1>2 DEF Good, Life
  <1> QED BY <1>2, <1>3, <1>4 DEF Good

\* The message is delivered.
LEMMA DeliverGood ==
    ASSUME NEW r, Good(r), ~r.done, r.sealed, r.pending = {},
           NEW s, s = [r EXCEPT !.done = TRUE, !.messages = @ + 1]
    PROVE  Good(s) /\ s.pc = r.pc /\ SameBooks(r, s)
  <1>1. r \in OperationStates /\ TRUE \in BOOLEAN /\ r.messages + 1 \in Nat /\ r.messages + 1 = 1
    BY FieldsTyped DEF Good, Life
  <1>2. /\ s \in OperationStates /\ s.pc = r.pc /\ s.recorded = r.recorded /\ s.sealed = r.sealed
        /\ s.done = TRUE /\ s.messages = r.messages + 1
        /\ s.registered = r.registered /\ s.pending = r.pending /\ s.succeeded = r.succeeded
        /\ s.failed = r.failed /\ s.unfinished = r.unfinished
    BY <1>1, Zenon DEF OperationStates
  <1>3. Book(s) /\ SameBooks(r, s)  BY <1>2 DEF Good, Book, SameBooks
  <1>4. Life(s)  BY <1>1, <1>2 DEF Good, Life
  <1> QED BY <1>2, <1>3, <1>4 DEF Good

\* EnqueueDatabases registers the databases and seals the operation.
LEMMA SealGood ==
    ASSUME NEW r, Good(r), r.pc = "seal", ~r.sealed, NEW todo \in SUBSET Databases,
           NEW s, s = [r EXCEPT !.pc = "enqueue", !.sealed = TRUE,
                                !.registered = todo, !.pending = todo]
    PROVE  Good(s)
  <1>1. r \in OperationStates /\ TRUE \in BOOLEAN /\ "enqueue" \in OperationSteps
    BY DEF Good, OperationSteps
  <1>2. /\ s \in OperationStates /\ s.pc = "enqueue" /\ s.recorded = r.recorded /\ s.sealed = TRUE
        /\ s.done = r.done /\ s.messages = r.messages
        /\ s.registered = todo /\ s.pending = todo /\ s.succeeded = r.succeeded
        /\ s.failed = r.failed /\ s.unfinished = r.unfinished
    BY <1>1, Zenon DEF OperationStates
  <1>3. r.registered = {} /\ ~r.done  BY DEF Good, Life
  <1>4. Book(s)  BY <1>2, <1>3 DEF Good, Book
  <1>5. Life(s)  BY <1>2, <1>3 DEF Good, Life, Early
  <1> QED BY <1>2, <1>4, <1>5 DEF Good

\* FailOperation and AbandonOperation give up on nothing that was registered.
LEMMA GiveUpGood ==
    ASSUME NEW r, Good(r), r.registered = {}, NEW pc \in {"return", "returned"},
           NEW s, s = [[r EXCEPT !.error = TRUE, !.recorded = TRUE, !.sealed = TRUE,
                                 !.pending = {}] EXCEPT !.pc = pc]
    PROVE  Good(s) /\ s.pc = pc /\ SameBooks(r, s)
  <1>1. r \in OperationStates /\ TRUE \in BOOLEAN /\ pc \in OperationSteps /\ {} \in SUBSET Databases
    BY DEF Good, OperationSteps
  <1>2. PICK t : t = [r EXCEPT !.error = TRUE, !.recorded = TRUE, !.sealed = TRUE, !.pending = {}]
    OBVIOUS
  <1>3. /\ t \in OperationStates /\ t.recorded = TRUE /\ t.sealed = TRUE
        /\ t.done = r.done /\ t.messages = r.messages
        /\ t.registered = r.registered /\ t.pending = {} /\ t.succeeded = r.succeeded
        /\ t.failed = r.failed /\ t.unfinished = r.unfinished
    BY <1>1, <1>2, Zenon DEF OperationStates
  <1>4. s = [t EXCEPT !.pc = pc]  BY <1>2
  <1>5. /\ s \in OperationStates /\ s.pc = pc /\ s.recorded = TRUE /\ s.sealed = TRUE
        /\ s.done = r.done /\ s.messages = r.messages
        /\ s.registered = r.registered /\ s.pending = {} /\ s.succeeded = r.succeeded
        /\ s.failed = r.failed /\ s.unfinished = r.unfinished
    BY <1>1, <1>3, <1>4, ZenonT(60) DEF OperationStates
  <1>6. r.pending = {}  BY DEF Good, Book
  <1>7. Book(s) /\ SameBooks(r, s)  BY <1>5, <1>6 DEF Good, Book, SameBooks
  <1>8. Life(s)  BY <1>5 DEF Good, Life
  <1> QED BY <1>5, <1>7, <1>8 DEF Good

\* completeDatabase: a database moves from pending to an outcome.
LEMMA CompleteGood ==
    ASSUME NEW r, Good(r), NEW d \in r.pending, NEW s,
           \/ s = [r EXCEPT !.pending = @ \ {d}, !.succeeded = @ \cup {d}]
           \/ s = [r EXCEPT !.pending = @ \ {d}, !.failed = @ \cup {d}]
    PROVE  Good(s)
  <1>1. /\ r \in OperationStates
        /\ r.pending \ {d} \in SUBSET Databases
        /\ r.succeeded \cup {d} \in SUBSET Databases
        /\ r.failed \cup {d} \in SUBSET Databases
    BY FieldsTyped DEF Good
  <1>2. /\ s \in OperationStates /\ s.pc = r.pc /\ s.recorded = r.recorded /\ s.sealed = r.sealed
        /\ s.done = r.done /\ s.messages = r.messages
        /\ s.registered = r.registered /\ s.pending = r.pending \ {d}
        /\ s.unfinished = r.unfinished
        /\ \/ s.succeeded = r.succeeded \cup {d} /\ s.failed = r.failed
           \/ s.succeeded = r.succeeded /\ s.failed = r.failed \cup {d}
    <2>1. CASE s = [r EXCEPT !.pending = @ \ {d}, !.succeeded = @ \cup {d}]
      BY <1>1, <2>1, Zenon DEF OperationStates
    <2>2. CASE s = [r EXCEPT !.pending = @ \ {d}, !.failed = @ \cup {d}]
      BY <1>1, <2>2, Zenon DEF OperationStates
    <2> QED BY <2>1, <2>2
  <1>3. Book(s)  BY <1>2 DEF Good, Book
  <1>4. Life(s)  BY <1>2 DEF Good, Life
  <1> QED BY <1>2, <1>3, <1>4 DEF Good

\* expireOperations: what is still pending is unfinished.
LEMMA ExpireGood ==
    ASSUME NEW r, Good(r), ~r.done, NEW error \in BOOLEAN,
           NEW s, s = [r EXCEPT !.unfinished = @ \cup r.pending, !.pending = {},
                                !.error = error, !.recorded = TRUE, !.sealed = TRUE]
    PROVE  Good(s) /\ s.pc = r.pc /\ s.pending = {} /\ s.unfinished = r.unfinished \cup r.pending
  <1>1. /\ r \in OperationStates /\ TRUE \in BOOLEAN /\ {} \in SUBSET Databases
        /\ r.unfinished \cup r.pending \in SUBSET Databases
    BY FieldsTyped DEF Good
  <1>2. /\ s \in OperationStates /\ s.pc = r.pc /\ s.recorded = TRUE /\ s.sealed = TRUE
        /\ s.done = r.done /\ s.messages = r.messages
        /\ s.registered = r.registered /\ s.pending = {} /\ s.succeeded = r.succeeded
        /\ s.failed = r.failed /\ s.unfinished = r.unfinished \cup r.pending
    BY <1>1, Zenon DEF OperationStates
  <1>3. Book(s)  BY <1>2 DEF Good, Book
  <1>4. Life(s)  BY <1>2 DEF Good, Life
  <1> QED BY <1>2, <1>3, <1>4 DEF Good

-----------------------------------------------------------------------------
\* Frames: what the steps of a handler, of a worker and of the others keep.

LEMMA AllGood == IndInv => \A o \in Operations : Good(op[o])
  BY DEF IndInv, TypeOK, OperationInv, Good

LEMMA OneOperation ==
    ASSUME IndInv, NEW o \in Operations, NEW s, Good(s), op' = [op EXCEPT ![o] = s]
    PROVE  /\ op' \in [Operations -> OperationStates] /\ OperationInv'
           /\ op'[o] = s /\ \A p \in Operations \ {o} : op'[p] = op[p]
  <1>1. op \in [Operations -> OperationStates] /\ s \in OperationStates
    BY DEF IndInv, TypeOK, Good
  <1>2. /\ op' \in [Operations -> OperationStates]
        /\ op'[o] = s /\ \A p \in Operations \ {o} : op'[p] = op[p]
    BY <1>1
  <1>3. OperationInv'  BY <1>2, AllGood DEF OperationInv, Good
  <1> QED BY <1>2, <1>3

\* Some waiting database d of operation o is accounted for.
Reported(o, d) ==
    queue[d] \/ WillReport(d) \/ d \in adding[o].todo \/ d \in enum.told \/ d \in checker.dropped

LEMMA ReportedByAll == SomebodyReports <=> \A o \in Operations : \A d \in op[o].pending : Reported(o, d)
  BY Zenon DEF SomebodyReports, Reported

\* Operation o becomes s, and nothing but its own list and the callers of the
\* enumeration moves with it.
LEMMA HandlerKeeps ==
    ASSUME IndInv, NEW o \in Operations, NEW s, Good(s), op' = [op EXCEPT ![o] = s],
           UNCHANGED <<present, hidden, queue, retry, gate, checker, worker, scan>>,
           tell' \in [Actors -> SUBSET Operations],
           enum' \in EnumStates, enum'.told = enum.told,
           enum'.pc = enum.pc \/ (enum.pc # "applied" /\ enum'.pc # "applied"),
           enum'.callers \subseteq enum.callers \cup {o},
           o \in enum'.callers => s.pc = "enumerating",
           adding' \in [Enqueuers -> AddingStates],
           \A p \in Enqueuers \ {o} : adding'[p] = adding[p],
           s.pc \notin {"seal", "enqueue"} => adding'[o] = NotAdding,
           \A d \in s.pending : \/ d \in adding'[o].todo
                                \/ d \in op[o].pending /\ d \notin adding[o].todo
    PROVE  IndInv'
  <1>1. /\ op' \in [Operations -> OperationStates] /\ OperationInv'
        /\ op'[o] = s /\ \A p \in Operations \ {o} : op'[p] = op[p]
    BY OneOperation
  <1>2. TypeOK'  BY <1>1 DEF IndInv, TypeOK
  <1>3. CallersInv'  BY <1>1 DEF IndInv, CallersInv
  <1>4. AddingInv'  BY <1>1 DEF IndInv, AddingInv, Enqueuers
  <1>5. EnumInv' /\ CheckerInv'  BY DEF IndInv, EnumInv, CheckerInv
  <1>6. SomebodyReports'
    <2> SUFFICES ASSUME NEW p \in Operations, NEW d \in op'[p].pending
                 PROVE  Reported(p, d)'
      BY Zenon DEF SomebodyReports, Reported
    <2>1. CASE p # o
      <3>1. Reported(p, d)  BY <1>1, <2>1 DEF IndInv, SomebodyReports, Reported
      <3>2. adding'[p] = adding[p]  BY <2>1 DEF Enqueuers
      <3> QED BY <3>1, <3>2 DEF Reported, WillReport
    <2>2. CASE p = o
      <3>1. CASE d \in adding'[o].todo  BY <2>2, <3>1 DEF Reported
      <3>2. CASE d \in op[o].pending /\ d \notin adding[o].todo
        <4>1. Reported(o, d)  BY <3>2 DEF IndInv, SomebodyReports, Reported
        <4> QED BY <2>2, <3>2, <4>1 DEF Reported, WillReport
      <3> QED BY <1>1, <2>2, <3>1, <3>2
    <2> QED BY <2>1, <2>2
  <1> QED BY <1>1, <1>2, <1>3, <1>4, <1>5, <1>6 DEF IndInv

\* A step that tells no operation anything: the operations stand, and every
\* database that somebody was going to report still is.
LEMMA OthersKeep ==
    ASSUME IndInv, TypeOK', UNCHANGED op,
           \A o \in Operations : o \in enum'.callers => o \in enum.callers,
           \A o \in Operations : op[o].pc \notin {"seal", "enqueue"} => adding'[o] = adding[o],
           EnumInv', CheckerInv',
           \A o \in Operations, d \in Databases : Reported(o, d) => Reported(o, d)'
    PROVE  IndInv'
  <1>1. OperationInv'  BY DEF IndInv, OperationInv
  <1>2. CallersInv'  BY DEF IndInv, CallersInv
  <1>3. AddingInv'  BY DEF IndInv, AddingInv
  <1>4. SomebodyReports'
    <2> SUFFICES ASSUME NEW o \in Operations, NEW d \in op[o].pending
                 PROVE  Reported(o, d)'
      BY Zenon DEF SomebodyReports, Reported
    <2>1. d \in Databases  BY FieldsTyped DEF IndInv, TypeOK
    <2>2. Reported(o, d)  BY DEF IndInv, SomebodyReports, Reported
    <2> QED BY <2>1, <2>2
  <1> QED BY <1>1, <1>2, <1>3, <1>4 DEF IndInv

\* The checker's goroutine for d takes a step of its own, or the sync it waits
\* for ends: it keeps the database in its hands or queues it.
LEMMA WorkerKeeps ==
    ASSUME IndInv, NEW d \in Databases,
           UNCHANGED <<present, checker, enum, adding, scan, op, tell>>,
           worker' \in [Databases -> WorkerStates],
           \A e \in Databases \ {d} : worker'[e] = worker[e],
           worker[d].pc = "none" => worker'[d].pc = "none",
           hidden' \in [Databases -> BOOLEAN], gate' \in [Databases -> BOOLEAN],
           retry' \in [Databases -> Retries], queue' \in [Databases -> BOOLEAN],
           \A e \in Databases : queue[e] => queue'[e],
           WillReport(d) => WillReport(d)' \/ queue'[d]
    PROVE  IndInv'
  <1>1. TypeOK'  BY DEF IndInv, TypeOK
  <1>2. EnumInv'  BY DEF IndInv, EnumInv
  <1>3. CheckerInv'  BY DEF IndInv, CheckerInv
  <1>4. \A o \in Operations, e \in Databases : Reported(o, e) => Reported(o, e)'
    <2> SUFFICES ASSUME NEW o \in Operations, NEW e \in Databases, Reported(o, e)
                 PROVE  Reported(o, e)'
      OBVIOUS
    <2>1. CASE WillReport(e)
      <3>1. WillReport(e)' \/ queue'[e]  BY <2>1 DEF WillReport
      <3> QED BY <3>1 DEF Reported
    <2>2. CASE ~WillReport(e)  BY <2>2 DEF Reported
    <2> QED BY <2>1, <2>2
  <1> QED BY <1>1, <1>2, <1>3, <1>4, OthersKeep

LEMMA NoWorkerTyped == NoWorker \in WorkerStates /\ NoWorker.pc = "none"
  BY DEF NoWorker, WorkerStates, WorkerSteps, Outcomes

LEMMA NoRetryTyped == NoRetry \in Retries
  <1>1. 0 \in 0 .. MaxRetries /\ FALSE \in BOOLEAN  BY RetriesAssumption
  <1> QED BY <1>1, Zenon DEF NoRetry, Retries

LEMMA NotAddingTyped == NotAdding \in AddingStates /\ NotAdding.todo = {} /\ NotAdding.current = {}
  BY DEF NotAdding, AddingStates

\* The goroutine for d goes on to another of its steps.
LEMMA WorkerGoes ==
    ASSUME TypeOK, NEW d \in Databases, NEW pc \in WorkerSteps,
           worker' = [worker EXCEPT ![d].pc = pc]
    PROVE  /\ worker' \in [Databases -> WorkerStates]
           /\ worker'[d].pc = pc /\ worker'[d].outcome = worker[d].outcome
           /\ \A e \in Databases \ {d} : worker'[e] = worker[e]
  <1>1. PICK s : s = [worker[d] EXCEPT !.pc = pc]  OBVIOUS
  <1>2. worker[d] \in WorkerStates  BY DEF TypeOK
  <1>3. s \in WorkerStates /\ s.pc = pc /\ s.outcome = worker[d].outcome
    BY <1>1, <1>2 DEF WorkerStates
  <1>4. worker' = [worker EXCEPT ![d] = s]  BY <1>1 DEF TypeOK
  <1> QED BY <1>3, <1>4 DEF TypeOK

LEMMA WorkerEnds ==
    ASSUME TypeOK, NEW d \in Databases, worker' = [worker EXCEPT ![d] = NoWorker]
    PROVE  /\ worker' \in [Databases -> WorkerStates]
           /\ worker'[d].pc = "none"
           /\ \A e \in Databases \ {d} : worker'[e] = worker[e]
  BY NoWorkerTyped DEF TypeOK

-----------------------------------------------------------------------------
\* The steps of a worker.

LEMMA SyncBeginInv ==
    ASSUME IndInv, NEW d \in Databases, SyncBegin(d)
    PROVE  IndInv'
  <1>1. PICK pc \in {"wait", "sync"} : pc = IF gate[d] THEN "wait" ELSE "sync"  OBVIOUS
  <1>2. TypeOK /\ pc \in WorkerSteps /\ worker' = [worker EXCEPT ![d].pc = pc]
        /\ worker[d].pc = "start"
    BY <1>1 DEF SyncBegin, WorkerAt, IndInv, WorkerSteps
  <1>3. /\ worker' \in [Databases -> WorkerStates] /\ worker'[d].pc = pc
        /\ \A e \in Databases \ {d} : worker'[e] = worker[e]
    BY <1>2, WorkerGoes
  <1>4. gate' \in [Databases -> BOOLEAN]  BY <1>2 DEF SyncBegin, TypeOK
  <1>5. WillReport(d)'  BY <1>3 DEF WillReport
  <1> QED BY <1>2, <1>3, <1>4, <1>5, WorkerKeeps DEF SyncBegin, TypeOK

LEMMA DeferInv ==
    ASSUME IndInv, NEW d \in Databases, Defer(d)
    PROVE  IndInv'
  <1>1. TypeOK  BY DEF IndInv
  <1>2. /\ worker' \in [Databases -> WorkerStates] /\ worker'[d].pc = "none"
        /\ \A e \in Databases \ {d} : worker'[e] = worker[e]
    BY <1>1, WorkerEnds DEF Defer
  <1>3. /\ queue' \in [Databases -> BOOLEAN] /\ queue'[d]
        /\ \A e \in Databases : queue[e] => queue'[e]
    BY <1>1 DEF Defer, TypeOK
  <1> QED BY <1>1, <1>2, <1>3, WorkerKeeps DEF Defer, TypeOK

LEMMA ClearBackoffInv ==
    ASSUME IndInv, NEW d \in Databases, ClearBackoff(d)
    PROVE  IndInv'
  <1>1. TypeOK /\ "complete" \in WorkerSteps /\ worker[d].pc = "report"
    BY DEF IndInv, WorkerSteps, ClearBackoff, WorkerAt
  <1>2. /\ worker' \in [Databases -> WorkerStates] /\ worker'[d].pc = "complete"
        /\ \A e \in Databases \ {d} : worker'[e] = worker[e]
    BY <1>1, WorkerGoes DEF ClearBackoff
  <1>3. retry' \in [Databases -> Retries]  BY <1>1, NoRetryTyped DEF ClearBackoff, TypeOK
  <1>4. WillReport(d)'  BY <1>2 DEF WillReport
  <1> QED BY <1>1, <1>2, <1>3, <1>4, WorkerKeeps DEF ClearBackoff, TypeOK

LEMMA BackoffInv ==
    ASSUME IndInv, NEW d \in Databases, Backoff(d)
    PROVE  IndInv'
  <1>1. TypeOK /\ worker[d].pc = "retry"  BY DEF IndInv, Backoff, WorkerAt
  <1>2. PICK pc \in {"exit", "requeue"} : worker' = [worker EXCEPT ![d].pc = pc]
    BY DEF Backoff
  <1>3. pc \in WorkerSteps  BY DEF WorkerSteps
  <1>4. /\ worker' \in [Databases -> WorkerStates] /\ worker'[d].pc = pc
        /\ \A e \in Databases \ {d} : worker'[e] = worker[e]
    BY <1>1, <1>2, <1>3, WorkerGoes
  <1>5. retry' \in [Databases -> Retries]
    <2>1. CASE retry[d].attempts + 1 > MaxRetries
      BY <1>1, <2>1, NoRetryTyped DEF Backoff, TypeOK
    <2>2. CASE ~(retry[d].attempts + 1 > MaxRetries)
      <3>1. PICK s : s = [attempts |-> retry[d].attempts + 1, waiting |-> TRUE]  OBVIOUS
      <3>2. retry[d].attempts + 1 \in 0 .. MaxRetries /\ TRUE \in BOOLEAN
        <4>1. retry[d].attempts \in 0 .. MaxRetries
          BY <1>1 DEF TypeOK, Retries
        <4> QED BY <2>2, <4>1, RetriesAssumption
      <3>3. s \in Retries  BY <3>1, <3>2, Zenon DEF Retries
      <3>4. retry' = [retry EXCEPT ![d] = s]  BY <2>2, <3>1 DEF Backoff
      <3> QED BY <1>1, <3>3, <3>4 DEF TypeOK
    <2> QED BY <2>1, <2>2
  <1>6. ~WillReport(d)  BY <1>1 DEF WillReport
  <1> QED BY <1>1, <1>4, <1>5, <1>6, WorkerKeeps DEF Backoff, TypeOK

LEMMA RequeueInv ==
    ASSUME IndInv, NEW d \in Databases, Requeue(d)
    PROVE  IndInv'
  <1>1. TypeOK  BY DEF IndInv
  <1>2. /\ worker' \in [Databases -> WorkerStates] /\ worker'[d].pc = "none"
        /\ \A e \in Databases \ {d} : worker'[e] = worker[e]
    BY <1>1, WorkerEnds DEF Requeue
  <1>3. /\ queue' \in [Databases -> BOOLEAN] /\ queue'[d]
        /\ \A e \in Databases : queue[e] => queue'[e]
    BY <1>1 DEF Requeue, TypeOK
  <1> QED BY <1>1, <1>2, <1>3, WorkerKeeps DEF Requeue, TypeOK

LEMMA ExitInv ==
    ASSUME IndInv, NEW d \in Databases, Exit(d)
    PROVE  IndInv'
  <1>1. TypeOK /\ ~WillReport(d)  BY DEF IndInv, Exit, WorkerAt, WillReport
  <1>2. /\ worker' \in [Databases -> WorkerStates] /\ worker'[d].pc = "none"
        /\ \A e \in Databases \ {d} : worker'[e] = worker[e]
    BY <1>1, WorkerEnds DEF Exit
  <1> QED BY <1>1, <1>2, WorkerKeeps DEF Exit, TypeOK

LEMMA SyncEndInv ==
    ASSUME IndInv, NEW d \in Databases, NEW outcome \in Outcomes, SyncEnd(d, outcome)
    PROVE  IndInv'
  <1>1. TypeOK  BY DEF IndInv
  <1>2. PICK s : s = [pc |-> "report", outcome |-> outcome]  OBVIOUS
  <1>3. s \in WorkerStates /\ s.pc = "report"  BY <1>2 DEF WorkerStates, WorkerSteps
  <1>4. /\ worker' \in [Databases -> WorkerStates]
        /\ \A e \in Databases \ {d} : worker'[e] = worker[e]
        /\ worker'[d] = IF worker[d].pc \in {"sync", "wait"} THEN s ELSE worker[d]
    BY <1>1, <1>2, <1>3 DEF SyncEnd, TypeOK
  <1>5. worker[d].pc = "none" => worker'[d].pc = "none"  BY <1>4
  <1>6. WillReport(d) => WillReport(d)'  BY <1>3, <1>4 DEF WillReport
  <1>7. hidden' \in [Databases -> BOOLEAN] /\ gate' \in [Databases -> BOOLEAN]
    BY <1>1 DEF SyncEnd, TypeOK
  <1> QED BY <1>1, <1>4, <1>5, <1>6, <1>7, WorkerKeeps DEF SyncEnd, TypeOK

LEMMA UserBeginInv ==
    ASSUME IndInv, NEW d \in Databases, UserBegin(d)
    PROVE  IndInv'
  <1>1. gate' \in [Databases -> BOOLEAN] /\ TypeOK  BY DEF UserBegin, IndInv, TypeOK
  <1> QED BY <1>1, WorkerKeeps DEF UserBegin, TypeOK, WillReport

LEMMA ElapseInv ==
    ASSUME IndInv, NEW d \in Databases, Elapse(d)
    PROVE  IndInv'
  <1>1. PICK s : s = [retry[d] EXCEPT !.waiting = FALSE]  OBVIOUS
  <1>2. s \in Retries
    <2>1. retry[d] \in Retries /\ FALSE \in BOOLEAN  BY DEF IndInv, TypeOK
    <2> QED BY <1>1, <2>1, Zenon DEF Retries
  <1>3. TypeOK /\ retry' \in [Databases -> Retries]
    <2>1. retry' = [retry EXCEPT ![d] = s]  BY <1>1 DEF Elapse, IndInv, TypeOK
    <2> QED BY <1>2, <2>1 DEF IndInv, TypeOK
  <1> QED BY <1>3, WorkerKeeps DEF Elapse, TypeOK, WillReport

-----------------------------------------------------------------------------
\* The steps of a handler.

\* A handler that goes to pc, where it waits for what it waited before.
LEMMA HandlerGoes ==
    ASSUME IndInv, NEW o \in Operations, NEW pc \in OperationSteps,
           pc \in Early => op[o].registered = {},
           pc \in {"list", "seal", "enqueue"} => op[o].recorded,
           op' = [op EXCEPT ![o].pc = pc]
    PROVE  \E s : /\ Good(s) /\ op' = [op EXCEPT ![o] = s] /\ s.pc = pc
                  /\ SameBooks(op[o], s)
  <1>1. PICK r : r = op[o]  OBVIOUS
  <1>2. PICK s : s = [r EXCEPT !.pc = pc]  OBVIOUS
  <1>3. Good(r)  BY <1>1, AllGood
  <1>4. Good(s) /\ s.pc = pc /\ SameBooks(r, s)  BY <1>1, <1>2, <1>3, AdvanceGood
  <1>5. op' = [op EXCEPT ![o] = s]  BY <1>1, <1>2 DEF IndInv, TypeOK
  <1> QED BY <1>1, <1>4, <1>5

\* An operation that has registered nothing waits for nothing.
LEMMA EarlyIsEmpty ==
    ASSUME IndInv, NEW o \in Operations, op[o].pc \in Early \/ ~op[o].sealed
    PROVE  op[o].registered = {} /\ op[o].pending = {}
  BY DEF IndInv, OperationInv, Life, Book

\* What HandlerKeeps asks of the enumeration and of the lists of a step that
\* leaves both alone.
LEMMA HandlerAlone ==
    ASSUME IndInv, NEW o \in Operations, NEW s, Good(s), op' = [op EXCEPT ![o] = s],
           UNCHANGED <<present, hidden, queue, retry, gate, checker, worker, scan, enum, adding>>,
           tell' \in [Actors -> SUBSET Operations],
           o \notin enum.callers, s.pc \notin {"seal", "enqueue"} => adding[o] = NotAdding,
           s.pending \subseteq op[o].pending
    PROVE  IndInv'
  <1>1. enum' \in EnumStates /\ adding' \in [Enqueuers -> AddingStates]
    BY DEF IndInv, TypeOK
  <1> QED BY <1>1, HandlerKeeps

LEMMA StartInv ==
    ASSUME IndInv, NEW o \in Operations, Start(o)
    PROVE  IndInv'
  <1>1. op[o].pc = "none" /\ "instance" \in OperationSteps /\ op[o].pc \in Early
    BY DEF Start, At, OperationSteps, Early
  <1>2. op[o].registered = {}  BY <1>1, EarlyIsEmpty
  <1>3. PICK s : /\ Good(s) /\ op' = [op EXCEPT ![o] = s] /\ s.pc = "instance"
                 /\ SameBooks(op[o], s)
    BY <1>1, <1>2, HandlerGoes DEF Start
  <1>4. tell' \in [Actors -> SUBSET Operations]  BY DEF Start, IndInv, TypeOK
  <1>5. o \notin enum.callers /\ adding[o] = NotAdding
    BY <1>1 DEF IndInv, CallersInv, AddingInv
  <1> QED BY <1>3, <1>4, <1>5, HandlerAlone DEF Start, SameBooks

\* A caller joins the enumeration, running it when nobody does.
LEMMA AcquireEffect ==
    ASSUME TypeOK, NEW a \in Enqueuers, Acquire(a)
    PROVE  /\ enum' \in EnumStates /\ enum'.told = enum.told
           /\ enum'.callers = enum.callers \cup {a}
           /\ enum'.pc = IF enum.pc = "idle" THEN "running" ELSE enum.pc
  <1>1. PICK pc, owner : /\ pc = IF enum.pc = "idle" THEN "running" ELSE enum.pc
                         /\ owner = IF enum.pc = "idle" THEN {a} ELSE enum.owner
    OBVIOUS
  <1>2. enum \in EnumStates  BY DEF TypeOK
  <1>3. enum' = [enum EXCEPT !.callers = enum.callers \cup {a}, !.pc = pc, !.owner = owner]
    BY <1>1, <1>2 DEF Acquire, EnumStates
  <1>4. /\ pc \in {"idle", "running", "created", "applied"} /\ owner \in SUBSET Enqueuers
        /\ enum.callers \cup {a} \in SUBSET Enqueuers
    <2>1. /\ enum.pc \in {"idle", "running", "created", "applied"}
          /\ enum.owner \in SUBSET Enqueuers /\ enum.callers \in SUBSET Enqueuers
      BY <1>2 DEF EnumStates
    <2> QED BY <1>1, <2>1
  <1>5. /\ enum' \in EnumStates /\ enum'.told = enum.told
        /\ enum'.callers = enum.callers \cup {a} /\ enum'.pc = pc
    BY <1>2, <1>3, <1>4, Zenon DEF EnumStates
  <1> QED BY <1>1, <1>5

LEMMA JoinInv ==
    ASSUME IndInv, NEW o \in Operations, Join(o)
    PROVE  IndInv'
  <1>1. /\ op[o].pc = "instance" /\ "enumerating" \in OperationSteps /\ op[o].pc \in Early
        /\ o \in Enqueuers
    BY DEF Join, At, OperationSteps, Early, Enqueuers
  <1>2. op[o].registered = {} /\ op[o].pending = {}  BY <1>1, EarlyIsEmpty
  <1>3. PICK s : /\ Good(s) /\ op' = [op EXCEPT ![o] = s] /\ s.pc = "enumerating"
                 /\ SameBooks(op[o], s)
    BY <1>1, <1>2, HandlerGoes DEF Join
  <1>4. /\ tell' \in [Actors -> SUBSET Operations] /\ adding' \in [Enqueuers -> AddingStates]
        /\ adding' = adding
    BY DEF Join, IndInv, TypeOK
  <1>5. /\ enum' \in EnumStates /\ enum'.told = enum.told
        /\ enum'.callers = enum.callers \cup {o}
        /\ enum'.pc = IF enum.pc = "idle" THEN "running" ELSE enum.pc
    BY <1>1, AcquireEffect DEF Join, IndInv
  <1>6. adding[o] = NotAdding  BY <1>1 DEF IndInv, AddingInv
  <1>7. s.pending = {}  BY <1>2, <1>3 DEF SameBooks
  <1> QED BY <1>3, <1>4, <1>5, <1>6, <1>7, HandlerKeeps DEF Join

LEMMA LeaveInv ==
    ASSUME IndInv, NEW o \in Operations, Leave(o)
    PROVE  IndInv'
  <1>1. op[o].pc = "enumerating" /\ "errored" \in OperationSteps /\ op[o].pc \in Early
    BY DEF Leave, OperationSteps, Early, IndInv, CallersInv
  <1>2. op[o].registered = {} /\ op[o].pending = {}  BY <1>1, EarlyIsEmpty
  <1>3. PICK s : /\ Good(s) /\ op' = [op EXCEPT ![o] = s] /\ s.pc = "errored"
                 /\ SameBooks(op[o], s)
    BY <1>1, <1>2, HandlerGoes DEF Leave
  <1>4. /\ tell' \in [Actors -> SUBSET Operations] /\ adding' \in [Enqueuers -> AddingStates]
        /\ adding' = adding
    BY DEF Leave, IndInv, TypeOK
  <1>5. /\ enum' \in EnumStates /\ enum'.told = enum.told /\ enum'.pc = enum.pc
        /\ enum'.callers = enum.callers \ {o}
    <2>1. enum \in EnumStates /\ enum' = [enum EXCEPT !.callers = @ \ {o}]
      BY DEF Leave, IndInv, TypeOK
    <2>2. enum.callers \ {o} \in SUBSET Enqueuers  BY <2>1 DEF EnumStates
    <2> QED BY <2>1, <2>2, Zenon DEF EnumStates
  <1>6. adding[o] = NotAdding  BY <1>1 DEF IndInv, AddingInv
  <1>7. s.pending = {}  BY <1>2, <1>3 DEF SameBooks
  <1> QED BY <1>3, <1>4, <1>5, <1>6, <1>7, HandlerKeeps DEF Leave

LEMMA RecordInv ==
    ASSUME IndInv, NEW o \in Operations, NEW pc \in {"ended", "errored"}, Record(o, pc)
    PROVE  IndInv'
  <1>1. op[o].pc = pc /\ op[o].pc \in Early /\ TypeOK /\ o \in Actors
    BY DEF Record, At, Early, IndInv, Actors
  <1>2. op[o].registered = {} /\ op[o].pending = {}  BY <1>1, EarlyIsEmpty
  <1>3. PICK next \in {"list", "seal"} : next = IF pc = "ended" THEN "list" ELSE "seal"
    OBVIOUS
  <1>4. PICK r : r = op[o]  OBVIOUS
  <1>5. Good(r) /\ r.pc \in Early  BY <1>1, <1>4, AllGood
  <1>6. PICK s : /\ Good(s) /\ op' = [op EXCEPT ![o] = s] /\ s.pc = next /\ SameBooks(r, s)
    <2>1. CASE r.done \/ r.recorded
      <3>1. PICK s : s = [r EXCEPT !.pc = next]  OBVIOUS
      <3>2. r.recorded  BY <1>5, <2>1 DEF Good, Life
      <3>3. next \in OperationSteps /\ r.registered = {}
        BY <1>2, <1>4 DEF OperationSteps
      <3>4. Good(s) /\ s.pc = next /\ SameBooks(r, s)
        BY <1>5, <3>1, <3>2, <3>3, AdvanceGood
      <3>5. op' = [op EXCEPT ![o] = s]
        BY <1>1, <1>3, <1>4, <2>1, <3>1 DEF Record, TypeOK
      <3> QED BY <3>4, <3>5
    <2>2. CASE ~(r.done \/ r.recorded)
      <3> DEFINE error == op[o].error \/ pc = "errored"
      <3>1. error \in BOOLEAN  OBVIOUS
      <3>2. PICK s : s = [op[o] EXCEPT !.recorded = TRUE, !.error = error,
                                       !.pc = IF pc = "ended" THEN "list" ELSE "seal"]
        OBVIOUS
      <3>3. op' = [op EXCEPT ![o] = s]
        <4>1. PICK t :
                t = IF op[o].done \/ op[o].recorded
                    THEN [op[o] EXCEPT !.pc = IF pc = "ended" THEN "list" ELSE "seal"]
                    ELSE [op[o] EXCEPT !.recorded = TRUE, !.error = error,
                                       !.pc = IF pc = "ended" THEN "list" ELSE "seal"]
          OBVIOUS
        <4>2. op' = [op EXCEPT ![o] = t]  BY <4>1 DEF Record
        <4>3. t = s  BY <1>4, <2>2, <3>2, <4>1, Zenon
        <4> QED BY <4>2, <4>3
      <3> HIDE DEF error
      <3>4. s = [r EXCEPT !.recorded = TRUE, !.error = error, !.pc = next]
        BY <1>3, <1>4, <3>2
      <3>5. Good(s) /\ s.pc = next /\ SameBooks(r, s)  BY <1>5, <3>1, <3>4, RecordGood
      <3> QED BY <3>3, <3>5
    <2> QED BY <2>1, <2>2
  <1>7. tell' \in [Actors -> SUBSET Operations]  BY <1>1 DEF Record, TypeOK
  <1>8. o \notin enum.callers /\ adding[o] = NotAdding
    BY <1>1 DEF IndInv, CallersInv, AddingInv
  <1> QED BY <1>4, <1>6, <1>7, <1>8, HandlerAlone DEF Record, SameBooks

LEMMA ListInv ==
    ASSUME IndInv, NEW o \in Operations, NEW all \in BOOLEAN, List(o, all)
    PROVE  IndInv'
  <1>1. /\ op[o].pc = "list" /\ "seal" \in OperationSteps /\ op[o].pc \in Early
        /\ o \in Enqueuers /\ TypeOK
    BY DEF List, At, OperationSteps, Early, Enqueuers, IndInv
  <1>2. op[o].registered = {} /\ op[o].pending = {}  BY <1>1, EarlyIsEmpty
  <1>3. op[o].recorded  BY <1>1 DEF IndInv, OperationInv, Life
  <1>4. PICK s : /\ Good(s) /\ op' = [op EXCEPT ![o] = s] /\ s.pc = "seal"
                 /\ SameBooks(op[o], s)
    BY <1>1, <1>2, <1>3, HandlerGoes DEF List
  <1>5. PICK todo \in SUBSET Databases :
          todo = IF all THEN {d \in Databases : ~hidden[d]} ELSE op[o].found
    BY <1>1, FieldsTyped DEF TypeOK
  <1>6. PICK t : t = [adding[o] EXCEPT !.todo = todo]  OBVIOUS
  <1>7. t \in AddingStates
    BY <1>1, <1>6, ZenonT(60) DEF TypeOK, AddingStates
  <1>8. adding' = [adding EXCEPT ![o] = t]  BY <1>1, <1>5, <1>6 DEF List, TypeOK
  <1>9. /\ adding' \in [Enqueuers -> AddingStates]
        /\ \A p \in Enqueuers \ {o} : adding'[p] = adding[p]
    BY <1>1, <1>7, <1>8 DEF TypeOK
  <1>10. tell' \in [Actors -> SUBSET Operations] /\ enum' \in EnumStates
    BY <1>1 DEF List, TypeOK
  <1>11. o \notin enum.callers  BY <1>1 DEF IndInv, CallersInv
  <1>12. s.pending = {}  BY <1>2, <1>4 DEF SameBooks
  <1> QED BY <1>4, <1>9, <1>10, <1>11, <1>12, HandlerKeeps DEF List

LEMMA ListFailsInv ==
    ASSUME IndInv, NEW o \in Operations, ListFails(o)
    PROVE  IndInv'
  <1>1. op[o].pc = "list" /\ op[o].pc \in Early /\ TypeOK /\ o \in Actors
    BY DEF ListFails, At, Early, IndInv, Actors
  <1>2. op[o].registered = {} /\ op[o].pending = {}  BY <1>1, EarlyIsEmpty
  <1>3. PICK r : r = op[o]  OBVIOUS
  <1>4. PICK s : s = [[r EXCEPT !.error = TRUE, !.recorded = TRUE, !.sealed = TRUE,
                                !.pending = {}] EXCEPT !.pc = "return"]
    OBVIOUS
  <1>5. Good(r)  BY <1>3, AllGood
  <1>6. Good(s) /\ s.pc = "return" /\ SameBooks(r, s)
    BY <1>2, <1>3, <1>4, <1>5, GiveUpGood, ZenonT(60)
  <1>7. op' = [op EXCEPT ![o] = s]  BY <1>3, <1>4 DEF ListFails, GiveUpOn
  <1>8. tell' \in [Actors -> SUBSET Operations]  BY <1>1 DEF ListFails, TypeOK
  <1>9. o \notin enum.callers /\ adding[o] = NotAdding
    BY <1>1 DEF IndInv, CallersInv, AddingInv
  <1> QED BY <1>3, <1>6, <1>7, <1>8, <1>9, HandlerAlone DEF ListFails, SameBooks

LEMMA SealInv ==
    ASSUME IndInv, NEW o \in Operations, Seal(o)
    PROVE  IndInv'
  <1>1. op[o].pc = "seal" /\ op[o].pc \in Early /\ TypeOK /\ o \in Enqueuers
    BY DEF Seal, At, Early, IndInv, Enqueuers
  <1>2. op[o].registered = {} /\ op[o].pending = {} /\ o \notin enum.callers
    BY <1>1, EarlyIsEmpty DEF IndInv, CallersInv
  <1>3. tell' \in [Actors -> SUBSET Operations] /\ enum' \in EnumStates /\ enum' = enum
    BY <1>1 DEF Seal, TypeOK
  <1>4. CASE op[o].sealed
    <2>1. "return" \in OperationSteps /\ "return" \notin Early
      BY DEF OperationSteps, Early
    <2>2. PICK s : /\ Good(s) /\ op' = [op EXCEPT ![o] = s] /\ s.pc = "return"
                   /\ SameBooks(op[o], s)
      BY <1>4, <2>1, HandlerGoes DEF Seal
    <2>3. adding' = [adding EXCEPT ![o] = NotAdding]  BY <1>4 DEF Seal
    <2>4. /\ adding' \in [Enqueuers -> AddingStates] /\ adding'[o] = NotAdding
          /\ \A p \in Enqueuers \ {o} : adding'[p] = adding[p]
      BY <1>1, <2>3, NotAddingTyped DEF TypeOK
    <2>5. s.pending = {}  BY <1>2, <2>2 DEF SameBooks
    <2> QED BY <1>2, <1>3, <2>2, <2>4, <2>5, HandlerKeeps DEF Seal
  <1>5. CASE ~op[o].sealed
    <2>1. PICK r : r = op[o]  OBVIOUS
    <2>2. PICK todo \in SUBSET Databases : todo = adding[o].todo
      BY <1>1, Zenon DEF TypeOK, AddingStates
    <2>3. PICK s : s = [r EXCEPT !.pc = "enqueue", !.sealed = TRUE,
                                 !.registered = todo, !.pending = todo]
      OBVIOUS
    <2>4. Good(r) /\ r.pc = "seal" /\ ~r.sealed  BY <1>1, <1>5, <2>1, AllGood
    <2>5. Good(s) /\ s.pc = "enqueue" /\ s.pending = todo
      <3>1. Good(r) /\ r.pc = "seal" /\ ~r.sealed /\ todo \in SUBSET Databases
        BY <2>2, <2>4
      <3>2. Good(s)  BY <2>3, <3>1, SealGood
      <3>3. r \in OperationStates  BY <3>1 DEF Good
      <3> QED BY <2>3, <3>2, <3>3, Zenon DEF OperationStates
    <2>6. op' = [op EXCEPT ![o] = s]
      BY <1>1, <1>5, <2>1, <2>2, <2>3 DEF Seal, TypeOK
    <2>7. adding' = adding /\ adding' \in [Enqueuers -> AddingStates]
      BY <1>1, <1>5 DEF Seal, TypeOK
    <2> QED BY <1>2, <1>3, <2>2, <2>5, <2>6, <2>7, HandlerKeeps DEF Seal
  <1> QED BY <1>4, <1>5

LEMMA EnqueuedInv ==
    ASSUME IndInv, NEW o \in Operations, Enqueued(o)
    PROVE  IndInv'
  <1>1. /\ op[o].pc = "enqueue" /\ "return" \in OperationSteps /\ "return" \notin Early
        /\ TypeOK /\ o \in Actors /\ adding[o] = NotAdding
    BY DEF Enqueued, At, OperationSteps, Early, IndInv, Actors
  <1>2. PICK s : /\ Good(s) /\ op' = [op EXCEPT ![o] = s] /\ s.pc = "return"
                 /\ SameBooks(op[o], s)
    BY <1>1, HandlerGoes DEF Enqueued
  <1>3. tell' \in [Actors -> SUBSET Operations]  BY <1>1 DEF Enqueued, TypeOK
  <1>4. o \notin enum.callers  BY <1>1 DEF IndInv, CallersInv
  <1> QED BY <1>1, <1>2, <1>3, <1>4, HandlerAlone DEF Enqueued, SameBooks

LEMMA PanicInv ==
    ASSUME IndInv, NEW o \in Operations, Panic(o)
    PROVE  IndInv'
  <1>1. /\ op[o].pc \in {"instance", "ended", "list"}
        /\ "return" \in OperationSteps /\ "return" \notin Early
    BY DEF Panic, OperationSteps, Early
  <1>2. PICK s : /\ Good(s) /\ op' = [op EXCEPT ![o] = s] /\ s.pc = "return"
                 /\ SameBooks(op[o], s)
    BY <1>1, HandlerGoes DEF Panic
  <1>3. tell' \in [Actors -> SUBSET Operations]  BY DEF Panic, IndInv, TypeOK
  <1>4. o \notin enum.callers /\ adding[o] = NotAdding
    BY <1>1 DEF IndInv, CallersInv, AddingInv
  <1> QED BY <1>2, <1>3, <1>4, HandlerAlone DEF Panic, SameBooks

LEMMA ReturnInv ==
    ASSUME IndInv, NEW o \in Operations, Return(o)
    PROVE  IndInv'
  <1>1. /\ op[o].pc = "return" /\ TypeOK /\ o \in Actors
        /\ "returned" \in OperationSteps /\ "returned" \notin Early
    BY DEF Return, At, IndInv, Actors, OperationSteps, Early
  <1>2. o \notin enum.callers /\ adding[o] = NotAdding
    BY <1>1 DEF IndInv, CallersInv, AddingInv
  <1>3. tell' \in [Actors -> SUBSET Operations]  BY <1>1 DEF Return, TypeOK
  <1>4. CASE op[o].done \/ (op[o].sealed /\ op[o].recorded)
    <2>1. PICK s : /\ Good(s) /\ op' = [op EXCEPT ![o] = s] /\ s.pc = "returned"
                   /\ SameBooks(op[o], s)
      BY <1>1, <1>4, HandlerGoes DEF Return
    <2> QED BY <1>2, <1>3, <2>1, HandlerAlone DEF Return, SameBooks
  <1>5. CASE ~(op[o].done \/ (op[o].sealed /\ op[o].recorded))
    <2>1. PICK r : r = op[o]  OBVIOUS
    <2>2. PICK s : s = [[r EXCEPT !.error = TRUE, !.recorded = TRUE, !.sealed = TRUE,
                                  !.pending = {}] EXCEPT !.pc = "returned"]
      OBVIOUS
    <2>3. Good(r)  BY <2>1, AllGood
    <2>4. r.registered = {}  BY <1>5, <2>1, <2>3 DEF Good, Life
    <2>5. Good(s) /\ s.pc = "returned" /\ SameBooks(r, s)
      BY <2>2, <2>3, <2>4, GiveUpGood
    <2>6. op' = [op EXCEPT ![o] = s]  BY <1>5, <2>1, <2>2 DEF Return, GiveUpOn
    <2> QED BY <1>2, <1>3, <2>1, <2>5, <2>6, HandlerAlone DEF Return, SameBooks
  <1> QED BY <1>4, <1>5

LEMMA DeadlineInv ==
    ASSUME IndInv, NEW o \in Operations, Deadline(o)
    PROVE  IndInv'
  <1>1. PICK r : r = op[o]  OBVIOUS
  <1>2. PICK s : s = [r EXCEPT !.overdue = TRUE]  OBVIOUS
  <1>3. Good(r) /\ TRUE \in BOOLEAN  BY <1>1, AllGood
  <1>4. Good(s) /\ s.pc = r.pc /\ SameBooks(r, s)  BY <1>2, <1>3, OverdueGood
  <1>5. op' = [op EXCEPT ![o] = s]  BY <1>1, <1>2 DEF Deadline, IndInv, TypeOK
  <1>6. /\ tell' \in [Actors -> SUBSET Operations] /\ enum' \in EnumStates
        /\ adding' \in [Enqueuers -> AddingStates]
    BY DEF Deadline, IndInv, TypeOK
  <1>7. /\ o \in enum.callers => s.pc = "enumerating"
        /\ s.pc \notin {"seal", "enqueue"} => adding[o] = NotAdding
    BY <1>1, <1>4 DEF IndInv, CallersInv, AddingInv
  <1> QED BY <1>1, <1>4, <1>5, <1>6, <1>7, HandlerKeeps DEF Deadline, SameBooks

LEMMA MaybeFinishInv ==
    ASSUME IndInv, NEW a \in Actors, NEW o \in Operations, MaybeFinish(a, o)
    PROVE  IndInv'
  <1>1. /\ tell' \in [Actors -> SUBSET Operations] /\ enum' \in EnumStates
        /\ adding' \in [Enqueuers -> AddingStates]
    BY DEF MaybeFinish, IndInv, TypeOK
  <1>2. PICK r : r = op[o]  OBVIOUS
  <1>3. PICK s : Good(s) /\ s.pc = r.pc /\ SameBooks(r, s) /\ op' = [op EXCEPT ![o] = s]
    <2>1. CASE Ready(o)
      <3>1. PICK s : s = [r EXCEPT !.done = TRUE, !.messages = @ + 1]  OBVIOUS
      <3>2. Good(r) /\ ~r.done /\ r.sealed /\ r.pending = {}
        BY <1>2, <2>1, AllGood DEF Ready
      <3>3. Good(s) /\ s.pc = r.pc /\ SameBooks(r, s)  BY <3>1, <3>2, DeliverGood
      <3>4. op' = [op EXCEPT ![o] = s]
        BY <1>2, <2>1, <3>1 DEF MaybeFinish, IndInv, TypeOK
      <3> QED BY <3>3, <3>4
    <2>2. CASE ~Ready(o)
      <3>1. op' = [op EXCEPT ![o] = r]  BY <1>2, <2>2 DEF MaybeFinish, IndInv, TypeOK
      <3> QED BY <1>2, <3>1, AllGood DEF SameBooks
    <2> QED BY <2>1, <2>2
  <1>4. /\ o \in enum.callers => s.pc = "enumerating"
        /\ s.pc \notin {"seal", "enqueue"} => adding[o] = NotAdding
    BY <1>2, <1>3 DEF IndInv, CallersInv, AddingInv
  <1> QED BY <1>1, <1>2, <1>3, <1>4, HandlerKeeps DEF MaybeFinish, SameBooks

-----------------------------------------------------------------------------
\* The calls of completeDatabase.

\* Every operation that waits for d stops waiting for it.
Completes(d) ==
    /\ op' = [o \in Operations |-> op'[o]]
    /\ \A o \in Operations :
         \/ d \notin op[o].pending /\ op'[o] = op[o]
         \/ /\ d \in op[o].pending
            /\ op'[o] = [op[o] EXCEPT !.pending = @ \ {d}, !.succeeded = @ \cup {d}]
         \/ /\ d \in op[o].pending
            /\ op'[o] = [op[o] EXCEPT !.pending = @ \ {d}, !.failed = @ \cup {d}]

LEMMA CompletesEffect ==
    ASSUME IndInv, NEW d \in Databases, Completes(d)
    PROVE  /\ op' \in [Operations -> OperationStates] /\ OperationInv'
           /\ \A o \in Operations : /\ op'[o].pc = op[o].pc
                                    /\ op'[o].pending = op[o].pending \ {d}
                                    /\ op'[o].unfinished = op[o].unfinished
  <1>1. ASSUME NEW o \in Operations
        PROVE  /\ Good(op'[o]) /\ op'[o].pc = op[o].pc
               /\ op'[o].pending = op[o].pending \ {d}
               /\ op'[o].unfinished = op[o].unfinished
    <2>1. PICK r, s : r = op[o] /\ s = op'[o]  OBVIOUS
    <2>2. Good(r)  BY <2>1, AllGood
    <2>3. CASE d \notin r.pending
      BY <2>1, <2>2, <2>3 DEF Completes
    <2>4. CASE d \in r.pending
      <3>1. \/ s = [r EXCEPT !.pending = @ \ {d}, !.succeeded = @ \cup {d}]
            \/ s = [r EXCEPT !.pending = @ \ {d}, !.failed = @ \cup {d}]
        BY <2>1, <2>4 DEF Completes
      <3>2. Good(s) /\ s.pc = r.pc /\ s.pending = r.pending \ {d} /\ s.unfinished = r.unfinished
        <4>1. Good(s)  BY <2>2, <2>4, <3>1, CompleteGood
        <4>2. r \in OperationStates  BY <2>2 DEF Good
        <4>3. CASE s = [r EXCEPT !.pending = @ \ {d}, !.succeeded = @ \cup {d}]
          BY <4>1, <4>2, <4>3, Zenon DEF OperationStates
        <4>4. CASE s = [r EXCEPT !.pending = @ \ {d}, !.failed = @ \cup {d}]
          BY <4>1, <4>2, <4>4, Zenon DEF OperationStates
        <4> QED BY <3>1, <4>3, <4>4
      <3> QED BY <2>1, <3>2
    <2> QED BY <2>3, <2>4
  <1>2. \A o \in Operations : op'[o] \in OperationStates /\ Book(op'[o]) /\ Life(op'[o])
    BY <1>1 DEF Good
  <1>3. op' \in [Operations -> OperationStates]  BY <1>2 DEF Completes
  <1> QED BY <1>1, <1>2, <1>3 DEF OperationInv

\* The caller that had d in its hands lets go of it, and of no other database.
LEMMA TellKeeps ==
    ASSUME IndInv, NEW d \in Databases, Completes(d),
           UNCHANGED <<present, hidden, queue, retry, gate, adding, scan>>,
           tell' \in [Actors -> SUBSET Operations], checker' \in CheckerStates,
           worker' \in [Databases -> WorkerStates], enum' \in EnumStates,
           enum'.callers = enum.callers, EnumInv', CheckerInv',
           \A e \in Databases \ {d} : /\ e \in enum.told => e \in enum'.told
                                      /\ e \in checker.dropped => e \in checker'.dropped
                                      /\ WillReport(e) => WillReport(e)'
    PROVE  IndInv'
  <1>1. /\ op' \in [Operations -> OperationStates] /\ OperationInv'
        /\ \A o \in Operations : /\ op'[o].pc = op[o].pc
                                 /\ op'[o].pending = op[o].pending \ {d}
    BY CompletesEffect
  <1>2. TypeOK'  BY <1>1 DEF IndInv, TypeOK
  <1>3. CallersInv' /\ AddingInv'  BY <1>1 DEF IndInv, CallersInv, AddingInv
  <1>4. SomebodyReports'
    <2> SUFFICES ASSUME NEW o \in Operations, NEW e \in op'[o].pending
                 PROVE  Reported(o, e)'
      BY Zenon DEF SomebodyReports, Reported
    <2>1. e \in op[o].pending /\ e # d  BY <1>1
    <2>2. e \in Databases  BY <2>1, FieldsTyped DEF IndInv, TypeOK
    <2>3. Reported(o, e)  BY <2>1 DEF IndInv, SomebodyReports, Reported
    <2> QED BY <2>1, <2>2, <2>3 DEF Reported
  <1> QED BY <1>1, <1>2, <1>3, <1>4 DEF IndInv

LEMMA CompleteInv ==
    ASSUME IndInv, NEW d \in Databases, Complete(d)
    PROVE  IndInv'
  <1>1. TypeOK /\ d \in Actors /\ worker[d].pc \in {"report", "complete"}
    BY DEF IndInv, Actors, Complete, WorkerAt
  <1>2. Completes(d)  BY Zenon DEF Complete, CompleteDatabase, Completes
  <1>3. PICK pc \in {"retry", "exit"} : worker' = [worker EXCEPT ![d].pc = pc]
    BY DEF Complete
  <1>4. pc \in WorkerSteps  BY DEF WorkerSteps
  <1>5. /\ worker' \in [Databases -> WorkerStates]
        /\ \A e \in Databases \ {d} : worker'[e] = worker[e]
    BY <1>1, <1>3, <1>4, WorkerGoes
  <1>6. tell' \in [Actors -> SUBSET Operations]
    BY <1>1 DEF Complete, CompleteDatabase, TypeOK
  <1>7. UNCHANGED <<present, hidden, queue, retry, gate, checker, enum, adding, scan>>
    BY DEF Complete
  <1>8. EnumInv'  BY <1>7 DEF IndInv, EnumInv
  <1>9. CheckerInv'  BY <1>1, <1>7 DEF IndInv, CheckerInv
  <1>10. \A e \in Databases \ {d} : WillReport(e) => WillReport(e)'
    BY <1>5 DEF WillReport
  <1> QED BY <1>1, <1>2, <1>5, <1>6, <1>7, <1>8, <1>9, <1>10, TellKeeps DEF TypeOK

LEMMA TellHiddenInv ==
    ASSUME IndInv, NEW d \in Databases, TellHidden(d)
    PROVE  IndInv'
  <1>1. TypeOK /\ "enum" \in Actors /\ d \in enum.told  BY DEF IndInv, Actors, TellHidden
  <1>2. Completes(d)  BY Zenon DEF TellHidden, CompleteDatabase, Completes
  <1>3. tell' \in [Actors -> SUBSET Operations]
    BY <1>1 DEF TellHidden, CompleteDatabase, TypeOK
  <1>4. UNCHANGED <<present, hidden, queue, retry, gate, checker, worker, adding, scan>>
    BY DEF TellHidden
  <1>5. /\ enum' \in EnumStates /\ enum'.told = {} /\ enum'.callers = enum.callers
    <2>1. enum \in EnumStates /\ enum' = [enum EXCEPT !.told = {}] /\ {} \in SUBSET Databases
      BY <1>1 DEF TellHidden, TypeOK
    <2> QED BY <2>1, Zenon DEF EnumStates
  <1>6. EnumInv'  BY <1>5 DEF EnumInv
  <1>7. CheckerInv'  BY <1>4 DEF IndInv, CheckerInv
  <1>8. \A e \in Databases \ {d} : e \notin enum.told  BY <1>1 DEF IndInv, EnumInv
  <1>9. \A e \in Databases : WillReport(e) => WillReport(e)'  BY <1>4 DEF WillReport
  <1> QED BY <1>1, <1>2, <1>3, <1>4, <1>5, <1>6, <1>7, <1>8, <1>9, TellKeeps DEF TypeOK

LEMMA TellGoneInv ==
    ASSUME IndInv, NEW d \in Databases, TellGone(d)
    PROVE  IndInv'
  <1>1. TypeOK /\ "checker" \in Actors /\ d \in checker.dropped
    BY DEF IndInv, Actors, TellGone
  <1>2. Completes(d)  BY Zenon DEF TellGone, CompleteDatabase, Completes
  <1>3. tell' \in [Actors -> SUBSET Operations]
    BY <1>1 DEF TellGone, CompleteDatabase, TypeOK
  <1>4. UNCHANGED <<present, hidden, queue, retry, gate, worker, enum, adding, scan>>
    BY DEF TellGone
  <1>5. checker' \in CheckerStates /\ checker'.dropped = {} /\ checker'.pc = checker.pc
    <2>1. /\ checker \in CheckerStates /\ checker' = [checker EXCEPT !.dropped = {}]
          /\ {} \in SUBSET Databases
      BY <1>1 DEF TellGone, TypeOK
    <2> QED BY <2>1, Zenon DEF CheckerStates
  <1>6. EnumInv'  BY <1>4 DEF IndInv, EnumInv
  <1>7. CheckerInv'  BY <1>4, <1>5 DEF IndInv, CheckerInv
  <1>8. \A e \in Databases \ {d} : e \notin checker.dropped  BY <1>1 DEF IndInv, CheckerInv
  <1>9. \A e \in Databases : WillReport(e) => WillReport(e)'  BY <1>4 DEF WillReport
  <1> QED BY <1>1, <1>2, <1>3, <1>4, <1>5, <1>6, <1>7, <1>8, <1>9, TellKeeps DEF TypeOK

-----------------------------------------------------------------------------
\* The lists of databases to enqueue.

LEMMA SupersedeInv ==
    ASSUME IndInv, NEW a \in Enqueuers, NEW d \in Databases, Supersede(a, d)
    PROVE  IndInv'
  <1>1. TypeOK /\ (a \in Operations => op[a].pc = "enqueue")
    BY ActorsAssumption DEF IndInv, Supersede, At
  <1>2. retry' \in [Databases -> Retries]  BY <1>1, NoRetryTyped DEF Supersede, TypeOK
  <1>3. PICK t : t = [adding[a] EXCEPT !.current = {d}]  OBVIOUS
  <1>4. t \in AddingStates /\ t.todo = adding[a].todo
    <2>1. adding[a] \in AddingStates /\ {d} \in SUBSET Databases  BY <1>1 DEF TypeOK
    <2> QED BY <1>3, <2>1, Zenon DEF AddingStates
  <1>5. adding' = [adding EXCEPT ![a] = t]  BY <1>1, <1>3 DEF Supersede, TypeOK
  <1>6. /\ adding' \in [Enqueuers -> AddingStates]
        /\ \A p \in Enqueuers : adding'[p].todo = adding[p].todo
        /\ \A p \in Enqueuers \ {a} : adding'[p] = adding[p]
    BY <1>1, <1>4, <1>5 DEF TypeOK
  <1>7. TypeOK'  BY <1>1, <1>2, <1>6 DEF Supersede, TypeOK
  <1>8. EnumInv' /\ CheckerInv'  BY DEF Supersede, IndInv, EnumInv, CheckerInv
  <1>9. \A o \in Operations : op[o].pc \notin {"seal", "enqueue"} => adding'[o] = adding[o]
    BY <1>1, <1>6 DEF Enqueuers
  <1>10. \A o \in Operations, e \in Databases : Reported(o, e) => Reported(o, e)'
    BY <1>6 DEF Supersede, Reported, WillReport, Enqueuers
  <1> QED BY <1>7, <1>8, <1>9, <1>10, OthersKeep DEF Supersede

LEMMA EnqueueInv ==
    ASSUME IndInv, NEW a \in Enqueuers, NEW d \in Databases, Enqueue(a, d)
    PROVE  IndInv'
  <1>1. TypeOK /\ d \in adding[a].current  BY DEF IndInv, Enqueue
  <1>2. a \in Operations => op[a].pc \in {"seal", "enqueue"}
    BY <1>1, NotAddingTyped DEF IndInv, AddingInv
  <1>3. /\ queue' \in [Databases -> BOOLEAN] /\ queue'[d]
        /\ \A e \in Databases : queue[e] => queue'[e]
    BY <1>1 DEF Enqueue, TypeOK
  <1>4. PICK todo \in SUBSET Databases : todo = adding[a].todo \ {d}
    <2>1. adding[a].todo \in SUBSET Databases  BY <1>1, Zenon DEF TypeOK, AddingStates
    <2> QED BY <2>1
  <1>5. PICK t : t = [todo |-> todo, current |-> {}]  OBVIOUS
  <1>6. t \in AddingStates /\ t.todo = todo  BY <1>5 DEF AddingStates
  <1>7. adding' = [adding EXCEPT ![a] = t]  BY <1>1, <1>4, <1>5 DEF Enqueue, TypeOK
  <1>8. /\ adding' \in [Enqueuers -> AddingStates]
        /\ \A p \in Enqueuers : \A e \in adding[p].todo : e \in adding'[p].todo \/ e = d
        /\ \A p \in Enqueuers \ {a} : adding'[p] = adding[p]
    BY <1>1, <1>4, <1>6, <1>7 DEF TypeOK
  <1>9. TypeOK'  BY <1>1, <1>3, <1>8 DEF Enqueue, TypeOK
  <1>10. EnumInv' /\ CheckerInv'  BY DEF Enqueue, IndInv, EnumInv, CheckerInv
  <1>11. \A o \in Operations : op[o].pc \notin {"seal", "enqueue"} => adding'[o] = adding[o]
    BY <1>2, <1>8 DEF Enqueuers
  <1>12. \A o \in Operations, e \in Databases : Reported(o, e) => Reported(o, e)'
    BY <1>3, <1>8 DEF Enqueue, Reported, WillReport, Enqueuers
  <1> QED BY <1>9, <1>10, <1>11, <1>12, OthersKeep DEF Enqueue

-----------------------------------------------------------------------------
\* The enumeration and the periodic scan.

LEMMA EnumFields ==
    ASSUME TypeOK
    PROVE  /\ enum.pc \in {"idle", "running", "created", "applied"}
           /\ enum.owner \in SUBSET Enqueuers /\ enum.callers \in SUBSET Enqueuers
           /\ enum.new \in SUBSET Databases /\ enum.missing \in SUBSET Databases
           /\ enum.told \in SUBSET Databases
  BY Zenon DEF TypeOK, EnumStates

LEMMA NoEnumTyped ==
    NoEnum \in EnumStates /\ NoEnum.pc = "idle" /\ NoEnum.callers = {} /\ NoEnum.told = {}
  <1>1. "idle" \in {"idle", "running", "created", "applied"}  OBVIOUS
  <1>2. {} \in SUBSET Enqueuers /\ {} \in SUBSET Databases  OBVIOUS
  <1> QED BY <1>1, <1>2, Zenon DEF NoEnum, EnumStates

\* The handlers that called hear the result and go on.
LEMMA PublishKeeps ==
    ASSUME IndInv, NEW result \in {"ok", "error", "panic"}, PublishEnum(result),
           enum.told = {}, scan' \in {"idle", "enumerating", "list", "enqueue"},
           UNCHANGED <<present, hidden, queue, retry, gate, checker, worker, adding, tell>>
    PROVE  IndInv'
  <1>1. TypeOK /\ enum' = NoEnum  BY DEF IndInv, PublishEnum
  <1>2. ASSUME NEW o \in Operations
        PROVE  /\ Good(op'[o])
               /\ \/ op'[o] = op[o] /\ o \notin enum.callers
                  \/ /\ op[o].pc = "enumerating" /\ op'[o].pc \in {"ended", "errored", "return"}
                     /\ op'[o].pending = {}
    <2>1. CASE o \notin enum.callers
      BY <2>1, AllGood DEF PublishEnum
    <2>2. CASE o \in enum.callers
      <3>1. op[o].pc = "enumerating"  BY <2>2 DEF IndInv, CallersInv
      <3>2. PICK r : r = op[o]  OBVIOUS
      <3>3. PICK pc \in {"ended", "errored", "return"} :
              pc = IF result = "ok" THEN "ended"
                   ELSE IF result = "panic" /\ o \in enum.owner THEN "return" ELSE "errored"
        OBVIOUS
      <3>4. PICK found \in SUBSET Databases : found = IF result = "ok" THEN enum.new ELSE {}
        BY <1>1, EnumFields
      <3>5. PICK s : s = [r EXCEPT !.pc = pc, !.found = found]  OBVIOUS
      <3>6. op'[o] = s  BY <2>2, <3>2, <3>3, <3>4, <3>5 DEF PublishEnum
      <3>7. Good(r) /\ r.pc \in Early  BY <3>1, <3>2, AllGood DEF Early
      <3>8. Good(s) /\ s.pc = pc /\ SameBooks(r, s)  BY <3>5, <3>7, ReturnGood, ZenonT(60)
      <3>9. r.pending = {}  BY <3>7 DEF Good, Life, Book
      <3> QED BY <3>1, <3>3, <3>6, <3>8, <3>9 DEF SameBooks
    <2> QED BY <2>1, <2>2
  <1>3. /\ op' \in [Operations -> OperationStates]
        /\ OperationInv'
    <2>1. op' = [o \in Operations |-> op'[o]]  BY Zenon DEF PublishEnum
    <2>2. \A o \in Operations : op'[o] \in OperationStates /\ Book(op'[o]) /\ Life(op'[o])
      BY <1>2 DEF Good
    <2> QED BY <2>1, <2>2 DEF OperationInv
  <1>4. TypeOK'  BY <1>1, <1>3, NoEnumTyped DEF TypeOK
  <1>5. CallersInv'  BY <1>1, NoEnumTyped DEF CallersInv
  <1>6. AddingInv'  BY <1>2 DEF IndInv, AddingInv
  <1>7. EnumInv'  BY <1>1, NoEnumTyped DEF EnumInv
  <1>8. CheckerInv'  BY DEF IndInv, CheckerInv
  <1>9. SomebodyReports'
    <2> SUFFICES ASSUME NEW o \in Operations, NEW d \in op'[o].pending
                 PROVE  Reported(o, d)'
      BY Zenon DEF SomebodyReports, Reported
    <2>1. op'[o] = op[o]  BY <1>2
    <2>2. Reported(o, d)  BY <2>1 DEF IndInv, SomebodyReports, Reported
    <2> QED BY <2>2 DEF Reported, WillReport
  <1> QED BY <1>3, <1>4, <1>5, <1>6, <1>7, <1>8, <1>9 DEF IndInv

LEMMA EnumFailsInv ==
    ASSUME IndInv, NEW result \in {"error", "panic"}, EnumFails(result)
    PROVE  IndInv'
  <1>1. enum.told = {}  BY DEF EnumFails, IndInv, EnumInv
  <1>2. scan' \in {"idle", "enumerating", "list", "enqueue"}
    BY DEF EnumFails, IndInv, TypeOK
  <1> QED BY <1>1, <1>2, PublishKeeps DEF EnumFails

LEMMA EnumSucceedsInv ==
    ASSUME IndInv, EnumSucceeds
    PROVE  IndInv'
  <1>1. scan' \in {"idle", "enumerating", "list", "enqueue"}
    BY DEF EnumSucceeds, IndInv, TypeOK
  <1> QED BY <1>1, PublishKeeps DEF EnumSucceeds

LEMMA EnumCreateInv ==
    ASSUME IndInv, NEW S \in SUBSET Databases, EnumCreate(S)
    PROVE  IndInv'
  <1>1. TypeOK /\ enum.pc = "running" /\ enum.told = {}
    BY DEF EnumCreate, IndInv, EnumInv
  <1>2. hidden' \in [Databases -> BOOLEAN]  BY DEF EnumCreate
  <1>3. PICK new, missing \in SUBSET Databases :
          new = {d \in S : hidden[d]} /\ missing = {d \in Databases \ S : ~hidden[d]}
    OBVIOUS
  <1>4. /\ enum' \in EnumStates /\ enum'.pc = "created" /\ enum'.told = {}
        /\ enum'.callers = enum.callers
    <2>1. enum' = [enum EXCEPT !.pc = "created", !.new = new, !.missing = missing]
      BY <1>3 DEF EnumCreate
    <2>2. enum \in EnumStates /\ "created" \in {"idle", "running", "created", "applied"}
      BY <1>1 DEF TypeOK
    <2> QED BY <1>1, <2>1, <2>2, Zenon DEF EnumStates
  <1>5. TypeOK'  BY <1>1, <1>2, <1>4 DEF EnumCreate, TypeOK
  <1>6. EnumInv'  BY <1>4 DEF EnumInv
  <1>7. CheckerInv'  BY DEF EnumCreate, IndInv, CheckerInv
  <1>8. \A o \in Operations, d \in Databases : Reported(o, d) => Reported(o, d)'
    BY <1>1 DEF EnumCreate, Reported, WillReport
  <1> QED BY <1>4, <1>5, <1>6, <1>7, <1>8, OthersKeep DEF EnumCreate

LEMMA EnumHideInv ==
    ASSUME IndInv, EnumHide
    PROVE  IndInv'
  <1>1. TypeOK /\ enum.pc = "created" /\ enum.told = {}
    BY DEF EnumHide, IndInv, EnumInv
  <1>2. hidden' \in [Databases -> BOOLEAN]  BY DEF EnumHide
  <1>3. /\ enum' \in EnumStates /\ enum'.told = {} /\ enum'.callers = enum.callers
    <2>1. /\ enum \in EnumStates /\ enum' = [enum EXCEPT !.pc = "applied"]
          /\ "applied" \in {"idle", "running", "created", "applied"}
      BY <1>1 DEF EnumHide, TypeOK
    <2> QED BY <1>1, <2>1, Zenon DEF EnumStates
  <1>4. TypeOK'  BY <1>1, <1>2, <1>3 DEF EnumHide, TypeOK
  <1>5. EnumInv'  BY <1>3 DEF EnumInv
  <1>6. CheckerInv'  BY DEF EnumHide, IndInv, CheckerInv
  <1>7. \A o \in Operations, d \in Databases : Reported(o, d) => Reported(o, d)'
    BY <1>1 DEF EnumHide, Reported, WillReport
  <1> QED BY <1>3, <1>4, <1>5, <1>6, <1>7, OthersKeep DEF EnumHide

LEMMA ForgetInv ==
    ASSUME IndInv, NEW d \in Databases, Forget(d)
    PROVE  IndInv'
  <1>1. TypeOK /\ enum.pc = "applied" /\ enum.told = {}  BY DEF Forget, IndInv
  <1>2. /\ queue' \in [Databases -> BOOLEAN]
        /\ \A e \in Databases \ {d} : queue'[e] = queue[e]
    BY <1>1 DEF Forget, TypeOK
  <1>3. retry' \in [Databases -> Retries]  BY <1>1, NoRetryTyped DEF Forget, TypeOK
  <1>4. /\ enum' \in EnumStates /\ enum'.told = {d} /\ enum'.callers = enum.callers
        /\ enum'.pc = "applied"
    <2>1. /\ enum \in EnumStates /\ enum' = [enum EXCEPT !.missing = @ \ {d}, !.told = {d}]
          /\ {d} \in SUBSET Databases /\ enum.missing \ {d} \in SUBSET Databases
      BY <1>1, EnumFields DEF Forget, TypeOK
    <2> QED BY <1>1, <2>1, Zenon DEF EnumStates
  <1>5. TypeOK'  BY <1>1, <1>2, <1>3, <1>4 DEF Forget, TypeOK
  <1>6. EnumInv'  BY <1>4 DEF EnumInv
  <1>7. CheckerInv'  BY DEF Forget, IndInv, CheckerInv
  <1>8. \A o \in Operations, e \in Databases : Reported(o, e) => Reported(o, e)'
    <2> SUFFICES ASSUME NEW o \in Operations, NEW e \in Databases, Reported(o, e)
                 PROVE  Reported(o, e)'
      OBVIOUS
    <2>1. CASE e = d  BY <1>4, <2>1 DEF Reported
    <2>2. CASE e # d  BY <1>1, <1>2, <2>2 DEF Forget, Reported, WillReport
    <2> QED BY <2>1, <2>2
  <1> QED BY <1>4, <1>5, <1>6, <1>7, <1>8, OthersKeep DEF Forget

LEMMA ScanBeginInv ==
    ASSUME IndInv, ScanBegin
    PROVE  IndInv'
  <1>1. TypeOK /\ "scan" \in Enqueuers /\ "scan" \notin Operations
    BY ActorsAssumption DEF IndInv, Enqueuers
  <1>2. /\ enum' \in EnumStates /\ enum'.told = enum.told
        /\ enum'.callers = enum.callers \cup {"scan"}
        /\ enum'.pc = IF enum.pc = "idle" THEN "running" ELSE enum.pc
    BY <1>1, AcquireEffect DEF ScanBegin
  <1>3. TypeOK'  BY <1>1, <1>2 DEF ScanBegin, TypeOK
  <1>4. EnumInv'  BY <1>2 DEF IndInv, EnumInv
  <1>5. CheckerInv'  BY DEF ScanBegin, IndInv, CheckerInv
  <1>6. \A o \in Operations : o \in enum'.callers => o \in enum.callers  BY <1>1, <1>2
  <1>7. \A o \in Operations, d \in Databases : Reported(o, d) => Reported(o, d)'
    BY <1>2 DEF ScanBegin, Reported, WillReport
  <1> QED BY <1>3, <1>4, <1>5, <1>6, <1>7, OthersKeep DEF ScanBegin

LEMMA ScanNotDueInv ==
    ASSUME IndInv, ScanNotDue
    PROVE  IndInv'
  <1>1. TypeOK'  BY DEF ScanNotDue, IndInv, TypeOK
  <1>2. EnumInv' /\ CheckerInv'  BY DEF ScanNotDue, IndInv, EnumInv, CheckerInv
  <1>3. \A o \in Operations, d \in Databases : Reported(o, d) => Reported(o, d)'
    BY DEF ScanNotDue, Reported, WillReport
  <1> QED BY <1>1, <1>2, <1>3, OthersKeep DEF ScanNotDue

LEMMA ScanListInv ==
    ASSUME IndInv, NEW due \in SUBSET Databases, ScanList(due)
    PROVE  IndInv'
  <1>1. TypeOK /\ "scan" \in Enqueuers /\ "scan" \notin Operations
    BY ActorsAssumption DEF IndInv, Enqueuers
  <1>2. PICK todo \in SUBSET Databases : todo = {d \in due : ~hidden[d]}  OBVIOUS
  <1>3. PICK t : t = [adding["scan"] EXCEPT !.todo = todo]  OBVIOUS
  <1>4. t \in AddingStates  BY <1>1, <1>3, ZenonT(60) DEF TypeOK, AddingStates
  <1>5. adding' = [adding EXCEPT !["scan"] = t]  BY <1>1, <1>2, <1>3 DEF ScanList, TypeOK
  <1>6. /\ adding' \in [Enqueuers -> AddingStates]
        /\ \A o \in Operations : adding'[o] = adding[o]
    BY <1>1, <1>4, <1>5 DEF TypeOK, Enqueuers
  <1>7. TypeOK'  BY <1>1, <1>6 DEF ScanList, TypeOK
  <1>8. EnumInv' /\ CheckerInv'  BY DEF ScanList, IndInv, EnumInv, CheckerInv
  <1>9. \A o \in Operations, d \in Databases : Reported(o, d) => Reported(o, d)'
    BY <1>6 DEF ScanList, Reported, WillReport
  <1> QED BY <1>6, <1>7, <1>8, <1>9, OthersKeep DEF ScanList

LEMMA ScanFailsInv ==
    ASSUME IndInv, ScanFails
    PROVE  IndInv'
  <1>1. TypeOK  BY DEF IndInv
  <1>2. /\ enum' \in EnumStates /\ enum'.told = enum.told /\ enum'.pc = enum.pc
        /\ enum'.callers = enum.callers \ {"scan"}
    <2>1. /\ enum \in EnumStates /\ enum' = [enum EXCEPT !.callers = @ \ {"scan"}]
          /\ enum.callers \ {"scan"} \in SUBSET Enqueuers
      BY <1>1, EnumFields DEF ScanFails, TypeOK
    <2> QED BY <2>1, Zenon DEF EnumStates
  <1>3. TypeOK'  BY <1>1, <1>2 DEF ScanFails, TypeOK
  <1>4. EnumInv'  BY <1>2 DEF IndInv, EnumInv
  <1>5. CheckerInv'  BY DEF ScanFails, IndInv, CheckerInv
  <1>6. \A o \in Operations, d \in Databases : Reported(o, d) => Reported(o, d)'
    BY <1>2 DEF ScanFails, Reported, WillReport
  <1> QED BY <1>2, <1>3, <1>4, <1>5, <1>6, OthersKeep DEF ScanFails

LEMMA ScanEndInv ==
    ASSUME IndInv, ScanEnd
    PROVE  IndInv'
  <1>1. TypeOK'  BY DEF ScanEnd, IndInv, TypeOK
  <1>2. EnumInv' /\ CheckerInv'  BY DEF ScanEnd, IndInv, EnumInv, CheckerInv
  <1>3. \A o \in Operations, d \in Databases : Reported(o, d) => Reported(o, d)'
    BY DEF ScanEnd, Reported, WillReport
  <1> QED BY <1>1, <1>2, <1>3, OthersKeep DEF ScanEnd

LEMMA InstanceChangesInv ==
    ASSUME IndInv, InstanceChanges
    PROVE  IndInv'
  <1>1. TypeOK'
    <2>1. present' \in BOOLEAN  BY DEF InstanceChanges
    <2> QED BY <2>1 DEF InstanceChanges, IndInv, TypeOK
  <1>2. EnumInv' /\ CheckerInv'  BY DEF InstanceChanges, IndInv, EnumInv, CheckerInv
  <1>3. \A o \in Operations, d \in Databases : Reported(o, d) => Reported(o, d)'
    BY DEF InstanceChanges, Reported, WillReport
  <1> QED BY <1>1, <1>2, <1>3, OthersKeep DEF InstanceChanges

-----------------------------------------------------------------------------
\* The checker.

LEMMA CheckerFields ==
    ASSUME TypeOK
    PROVE  /\ checker \in CheckerStates
           /\ checker.pc \in {"idle", "ticked", "ranging"} /\ checker.seen \in BOOLEAN
           /\ checker.visit \in SUBSET Databases /\ checker.dropped \in SUBSET Databases
  BY Zenon DEF TypeOK, CheckerStates

LEMMA NoRangeTyped == NoRange \in CheckerStates /\ NoRange.pc = "idle" /\ NoRange.dropped = {}
  <1>1. "idle" \in {"idle", "ticked", "ranging"} /\ FALSE \in BOOLEAN /\ {} \in SUBSET Databases
    OBVIOUS
  <1> QED BY <1>1, Zenon DEF NoRange, CheckerStates

\* expireOperations gives up what an operation waits for only when none of it
\* is queued or being synced.
LEMMA TickEffect ==
    ASSUME IndInv, Tick, NEW o \in Operations
    PROVE  /\ Good(op'[o]) /\ op'[o].pc = op[o].pc
           /\ op'[o].pending \subseteq op[o].pending
           /\ \/ op'[o].unfinished = op[o].unfinished
              \/ /\ op'[o].unfinished = op[o].unfinished \cup op[o].pending
                 /\ ~HasWorkInProgress(o)
  <1>1. PICK r : r = op[o]  OBVIOUS
  <1>2. Good(r) /\ FALSE \in BOOLEAN  BY <1>1, AllGood
  <1>3. CASE ~Overdue(o)
    BY <1>1, <1>2, <1>3 DEF Tick
  <1>4. CASE Overdue(o) /\ HasWorkInProgress(o)
    <2>1. PICK s : s = [r EXCEPT !.overdue = FALSE]  OBVIOUS
    <2>2. op'[o] = s  BY <1>1, <1>4, <2>1 DEF Tick
    <2>3. Good(s) /\ s.pc = r.pc /\ SameBooks(r, s)  BY <1>2, <2>1, OverdueGood
    <2> QED BY <1>1, <2>2, <2>3 DEF SameBooks
  <1>5. CASE Overdue(o) /\ ~HasWorkInProgress(o)
    <2> DEFINE error == op[o].error \/ ~op[o].recorded
    <2>1. error \in BOOLEAN  OBVIOUS
    <2>2. PICK s : s = [op[o] EXCEPT !.unfinished = op[o].unfinished \cup op[o].pending,
                                     !.pending = {}, !.error = error,
                                     !.recorded = TRUE, !.sealed = TRUE]
      OBVIOUS
    <2>3. op'[o] = s  BY <1>5, <2>2 DEF Tick
    <2> HIDE DEF error
    <2>4. s = [r EXCEPT !.unfinished = @ \cup r.pending, !.pending = {}, !.error = error,
                        !.recorded = TRUE, !.sealed = TRUE]
      BY <1>1, <2>2
    <2>5. ~r.done  BY <1>1, <1>5 DEF Overdue
    <2>6. Good(s)  BY <1>2, <2>1, <2>4, <2>5, ExpireGood
    <2>7. r \in OperationStates  BY <1>2 DEF Good
    <2>8. s.pc = r.pc /\ s.pending = {} /\ s.unfinished = r.unfinished \cup r.pending
      BY <2>4, <2>7, Zenon DEF OperationStates
    <2> QED BY <1>1, <1>5, <2>3, <2>6, <2>8
  <1> QED BY <1>3, <1>4, <1>5

LEMMA TickInv ==
    ASSUME IndInv, Tick
    PROVE  IndInv'
  <1>1. TypeOK /\ checker.pc = "idle" /\ "checker" \in Actors
    BY DEF Tick, IndInv, Actors
  <1>2. \A o \in Operations : /\ op'[o] \in OperationStates /\ Book(op'[o]) /\ Life(op'[o])
                              /\ op'[o].pc = op[o].pc /\ op'[o].pending \subseteq op[o].pending
    BY TickEffect DEF Good
  <1>3. op' \in [Operations -> OperationStates] /\ OperationInv'
    <2>1. op' = [o \in Operations |-> op'[o]]  BY Zenon DEF Tick
    <2> QED BY <1>2, <2>1 DEF OperationInv
  <1>4. /\ checker' \in CheckerStates /\ checker'.dropped = checker.dropped
        /\ checker'.pc = "ticked"
    <2>1. checker' = [checker EXCEPT !.pc = "ticked"] /\ "ticked" \in {"idle", "ticked", "ranging"}
      BY DEF Tick
    <2> QED BY <1>1, <2>1, CheckerFields, Zenon DEF CheckerStates
  <1>5. tell' \in [Actors -> SUBSET Operations]  BY <1>1 DEF Tick, TypeOK
  <1>6. UNCHANGED <<present, hidden, queue, retry, gate, worker, enum, adding, scan>>
    BY DEF Tick
  <1>7. TypeOK'  BY <1>1, <1>3, <1>4, <1>5, <1>6 DEF TypeOK
  <1>8. CallersInv' /\ AddingInv'  BY <1>2, <1>6 DEF IndInv, CallersInv, AddingInv
  <1>9. EnumInv' /\ CheckerInv'  BY <1>1, <1>4, <1>6 DEF IndInv, EnumInv, CheckerInv
  <1>10. SomebodyReports'
    <2> SUFFICES ASSUME NEW o \in Operations, NEW d \in op'[o].pending
                 PROVE  Reported(o, d)'
      BY Zenon DEF SomebodyReports, Reported
    <2>1. Reported(o, d)  BY <1>2 DEF IndInv, SomebodyReports, Reported
    <2> QED BY <1>4, <1>6, <2>1 DEF Reported, WillReport
  <1> QED BY <1>3, <1>7, <1>8, <1>9, <1>10 DEF IndInv

\* A step of the checker that tells nobody and leaves the queue alone.
LEMMA CheckerKeeps ==
    ASSUME IndInv, UNCHANGED <<present, hidden, queue, retry, gate, worker, enum, adding, scan,
                               op, tell>>,
           checker' \in CheckerStates, checker'.dropped = checker.dropped,
           checker'.pc # "ranging" => /\ checker.dropped = {}
                                      /\ \A d \in Databases : worker[d].pc = "none"
    PROVE  IndInv'
  <1>1. TypeOK'  BY DEF IndInv, TypeOK
  <1>2. EnumInv' /\ CheckerInv'  BY DEF IndInv, EnumInv, CheckerInv
  <1>3. \A o \in Operations, d \in Databases : Reported(o, d) => Reported(o, d)'
    BY DEF Reported, WillReport
  <1> QED BY <1>1, <1>2, <1>3, OthersKeep

LEMMA RangeBeginInv ==
    ASSUME IndInv, NEW extra \in SUBSET Databases, RangeBegin(extra)
    PROVE  IndInv'
  <1>1. TypeOK  BY DEF IndInv
  <1>2. PICK visit \in SUBSET Databases : visit = extra \cup {d \in Databases : queue[d]}
    OBVIOUS
  <1>3. /\ checker' \in CheckerStates /\ checker'.dropped = checker.dropped
        /\ checker'.pc = "ranging"
    <2>1. /\ checker' = [checker EXCEPT !.pc = "ranging", !.seen = present, !.visit = visit]
          /\ "ranging" \in {"idle", "ticked", "ranging"} /\ present \in BOOLEAN
      BY <1>1, <1>2 DEF RangeBegin, TypeOK
    <2> QED BY <1>1, <2>1, CheckerFields, Zenon DEF CheckerStates
  <1> QED BY <1>3, CheckerKeeps DEF RangeBegin

LEMMA RangeSkippedInv ==
    ASSUME IndInv, RangeSkipped
    PROVE  IndInv'
  <1>1. TypeOK /\ checker.pc = "ticked"  BY DEF IndInv, RangeSkipped
  <1>2. checker' \in CheckerStates /\ checker'.dropped = checker.dropped
    <2>1. checker' = [checker EXCEPT !.pc = "idle"] /\ "idle" \in {"idle", "ticked", "ranging"}
      BY DEF RangeSkipped
    <2> QED BY <1>1, <2>1, CheckerFields, Zenon DEF CheckerStates
  <1>3. checker.dropped = {} /\ \A d \in Databases : worker[d].pc = "none"
    BY <1>1 DEF IndInv, CheckerInv
  <1> QED BY <1>2, <1>3, CheckerKeeps DEF RangeSkipped

LEMMA RangeEndInv ==
    ASSUME IndInv, RangeEnd
    PROVE  IndInv'
  <1>1. checker' \in CheckerStates /\ checker'.dropped = {} /\ checker.dropped = {}
    BY NoRangeTyped DEF RangeEnd
  <1> QED BY <1>1, CheckerKeeps DEF RangeEnd

\* The key is visited, and the round goes on.
LEMMA VisitedEffect ==
    ASSUME TypeOK, NEW d \in Databases, Visited(d)
    PROVE  /\ checker' \in CheckerStates /\ checker'.dropped = checker.dropped
           /\ checker'.pc = checker.pc
  <1>1. /\ checker' = [checker EXCEPT !.visit = @ \ {d}]
        /\ checker.visit \ {d} \in SUBSET Databases
    BY CheckerFields DEF Visited
  <1> QED BY <1>1, CheckerFields, Zenon DEF CheckerStates

LEMMA SkipWaitingInv ==
    ASSUME IndInv, NEW d \in Databases, SkipWaiting(d)
    PROVE  IndInv'
  <1>1. TypeOK /\ checker.pc = "ranging"  BY DEF IndInv, SkipWaiting, Visiting
  <1>2. /\ checker' \in CheckerStates /\ checker'.dropped = checker.dropped
        /\ checker'.pc = checker.pc
    BY <1>1, VisitedEffect DEF SkipWaiting
  <1> QED BY <1>1, <1>2, CheckerKeeps DEF SkipWaiting

LEMMA DropGoneInv ==
    ASSUME IndInv, NEW d \in Databases, DropGone(d)
    PROVE  IndInv'
  <1>1. TypeOK /\ checker.pc = "ranging" /\ checker.dropped = {}
    BY DEF IndInv, DropGone, Visiting
  <1>2. /\ queue' \in [Databases -> BOOLEAN]
        /\ \A e \in Databases \ {d} : queue'[e] = queue[e]
    BY <1>1 DEF DropGone, TypeOK
  <1>3. retry' \in [Databases -> Retries]  BY <1>1, NoRetryTyped DEF DropGone, TypeOK
  <1>4. checker' \in CheckerStates /\ checker'.dropped = {d} /\ checker'.pc = "ranging"
    <2>1. /\ checker' = [checker EXCEPT !.visit = @ \ {d}, !.dropped = {d}]
          /\ checker.visit \ {d} \in SUBSET Databases /\ {d} \in SUBSET Databases
      BY <1>1, CheckerFields DEF DropGone
    <2> QED BY <1>1, <2>1, CheckerFields, Zenon DEF CheckerStates
  <1>5. TypeOK'  BY <1>1, <1>2, <1>3, <1>4 DEF DropGone, TypeOK
  <1>6. EnumInv'  BY DEF DropGone, IndInv, EnumInv
  <1>7. CheckerInv'  BY <1>4 DEF CheckerInv
  <1>8. \A o \in Operations, e \in Databases : Reported(o, e) => Reported(o, e)'
    <2> SUFFICES ASSUME NEW o \in Operations, NEW e \in Databases, Reported(o, e)
                 PROVE  Reported(o, e)'
      OBVIOUS
    <2>1. CASE e = d  BY <1>4, <2>1 DEF Reported
    <2>2. CASE e # d  BY <1>1, <1>2, <2>2 DEF DropGone, Reported, WillReport
    <2> QED BY <2>1, <2>2
  <1> QED BY <1>5, <1>6, <1>7, <1>8, OthersKeep DEF DropGone

LEMMA DequeueInv ==
    ASSUME IndInv, NEW d \in Databases, Dequeue(d)
    PROVE  IndInv'
  <1>1. TypeOK /\ checker.pc = "ranging" /\ "start" \in WorkerSteps
    BY DEF IndInv, Dequeue, Visiting, WorkerSteps
  <1>2. /\ checker' \in CheckerStates /\ checker'.dropped = checker.dropped
        /\ checker'.pc = checker.pc
    BY <1>1, VisitedEffect DEF Dequeue
  <1>3. /\ queue' \in [Databases -> BOOLEAN]
        /\ \A e \in Databases \ {d} : queue'[e] = queue[e]
    BY <1>1 DEF Dequeue, TypeOK
  <1>4. /\ worker' \in [Databases -> WorkerStates] /\ worker'[d].pc = "start"
        /\ \A e \in Databases \ {d} : worker'[e] = worker[e]
    BY <1>1, WorkerGoes DEF Dequeue
  <1>5. TypeOK'  BY <1>1, <1>2, <1>3, <1>4 DEF Dequeue, TypeOK
  <1>6. EnumInv'  BY DEF Dequeue, IndInv, EnumInv
  <1>7. CheckerInv'  BY <1>1, <1>2 DEF IndInv, CheckerInv
  <1>8. \A o \in Operations, e \in Databases : Reported(o, e) => Reported(o, e)'
    <2> SUFFICES ASSUME NEW o \in Operations, NEW e \in Databases, Reported(o, e)
                 PROVE  Reported(o, e)'
      OBVIOUS
    <2>1. CASE e = d  BY <1>4, <2>1 DEF Reported, WillReport
    <2>2. CASE e # d  BY <1>2, <1>3, <1>4, <2>2 DEF Dequeue, Reported, WillReport
    <2> QED BY <2>1, <2>2
  <1> QED BY <1>5, <1>6, <1>7, <1>8, OthersKeep DEF Dequeue

-----------------------------------------------------------------------------
\* The theorems.

LEMMA InitInv == Init => IndInv
  <1> SUFFICES ASSUME Init  PROVE IndInv  OBVIOUS
  <1>1. PICK r : r = NewOperation  OBVIOUS
  <1>2. /\ r \in OperationStates /\ r.pc = "none" /\ r.sealed = FALSE /\ r.recorded = FALSE
        /\ r.done = FALSE /\ r.messages = 0 /\ r.registered = {} /\ r.pending = {}
        /\ r.succeeded = {} /\ r.failed = {} /\ r.unfinished = {}
    <2>1. "none" \in OperationSteps /\ FALSE \in BOOLEAN /\ 0 \in Nat /\ {} \in SUBSET Databases
      BY DEF OperationSteps
    <2> QED BY <1>1, <2>1, Zenon DEF NewOperation, OperationStates
  <1>3. op = [o \in Operations |-> r]  BY <1>1 DEF Init
  <1>4. Book(r) /\ Life(r)  BY <1>2 DEF Book, Life
  <1>5. op \in [Operations -> OperationStates] /\ \A o \in Operations : op[o] = r
    BY <1>2, <1>3
  <1>6. TypeOK
    <2>1. /\ retry \in [Databases -> Retries] /\ worker \in [Databases -> WorkerStates]
          /\ adding \in [Enqueuers -> AddingStates]
      BY NoRetryTyped, NoWorkerTyped, NotAddingTyped DEF Init
    <2>2. checker \in CheckerStates /\ enum \in EnumStates
      BY NoRangeTyped, NoEnumTyped DEF Init
    <2> QED BY <1>5, <2>1, <2>2 DEF Init, TypeOK
  <1>7. OperationInv  BY <1>4, <1>5 DEF OperationInv
  <1>8. CallersInv  BY NoEnumTyped DEF Init, CallersInv
  <1>9. AddingInv  BY DEF Init, AddingInv, Enqueuers
  <1>10. EnumInv  BY NoEnumTyped DEF Init, EnumInv
  <1>11. CheckerInv  BY NoRangeTyped, NoWorkerTyped DEF Init, CheckerInv
  <1>12. SomebodyReports
    <2>1. \A o \in Operations : op[o].pending = {}  BY <1>2, <1>5
    <2> QED BY <2>1 DEF SomebodyReports
  <1> QED BY <1>6, <1>7, <1>8, <1>9, <1>10, <1>11, <1>12 DEF IndInv

LEMMA HandlerInv ==
    ASSUME IndInv, NEW o \in Operations, Handler(o)
    PROVE  IndInv'
  <1>1. o \in Enqueuers  BY DEF Enqueuers
  <1> QED
    BY <1>1, JoinInv, LeaveInv, RecordInv, ListInv, ListFailsInv, SealInv, EnqueuedInv,
       PanicInv, ReturnInv, SupersedeInv, EnqueueInv
    DEF Handler

LEMMA ScanInv ==
    ASSUME IndInv, Scan
    PROVE  IndInv'
  <1>1. "scan" \in Enqueuers  BY DEF Enqueuers
  <1> QED BY <1>1, ScanListInv, SupersedeInv, EnqueueInv, ScanFailsInv, ScanEndInv DEF Scan

LEMMA NextInv == IndInv /\ [Next]_vars => IndInv'
  <1> SUFFICES ASSUME IndInv, [Next]_vars  PROVE IndInv'  OBVIOUS
  <1>1. ASSUME NEW a \in Actors, NEW o \in Operations, MaybeFinish(a, o)  PROVE IndInv'
    BY <1>1, MaybeFinishInv
  <1>2. ASSUME NEW o \in Operations, Start(o) \/ Handler(o) \/ Deadline(o)  PROVE IndInv'
    BY <1>2, StartInv, HandlerInv, DeadlineInv
  <1>3. CASE Enumerate
    BY <1>3, EnumHideInv, EnumSucceedsInv, EnumFailsInv, EnumCreateInv, ForgetInv, TellHiddenInv
    DEF Enumerate
  <1>4. CASE ScanBegin \/ ScanNotDue \/ Scan
    BY <1>4, ScanBeginInv, ScanNotDueInv, ScanInv
  <1>5. CASE Check
    BY <1>5, TickInv, RangeSkippedInv, RangeEndInv, RangeBeginInv, DropGoneInv, TellGoneInv,
       SkipWaitingInv, DequeueInv
    DEF Check
  <1>6. ASSUME NEW d \in Databases, UserBegin(d) \/ Work(d) \/ Elapse(d)  PROVE IndInv'
    BY <1>6, UserBeginInv, ElapseInv, SyncBeginInv, DeferInv, ClearBackoffInv, CompleteInv,
       BackoffInv, RequeueInv, ExitInv
    DEF Work
  <1>7. ASSUME NEW d \in Databases, NEW outcome \in Outcomes, SyncEnd(d, outcome)  PROVE IndInv'
    BY <1>7, SyncEndInv
  <1>8. CASE InstanceChanges  BY <1>8, InstanceChangesInv
  <1>9. CASE UNCHANGED vars
    BY <1>9 DEF vars, IndInv, TypeOK, OperationInv, CallersInv, AddingInv, EnumInv, CheckerInv,
                SomebodyReports, WillReport
  <1> QED BY <1>1, <1>2, <1>3, <1>4, <1>5, <1>6, <1>7, <1>8, <1>9 DEF Next

\* The inductive invariant of the syncer: the types, the books of the operations,
\* and who holds a database that an operation waits for.
THEOREM Invariance == Spec => []IndInv
  BY InitInv, NextInv, PTL DEF Spec

\* The queue, the gates, the goroutines and the operations keep the shape the
\* code gives them.
THEOREM TypeCorrectness == Spec => []TypeOK
  <1>1. IndInv => TypeOK  BY DEF IndInv
  <1> QED BY Invariance, <1>1, PTL

\* maybeFinishOperation: whichever actors find the operation ready, one message
\* is delivered.
THEOREM OneMessageEach == Spec => []OneMessage
  <1>1. IndInv => OneMessage
    BY DEF IndInv, OperationInv, Life, OneMessage
  <1> QED BY Invariance, <1>1, PTL

\* The message's numbers: what was registered is waited for or counted once, and
\* a message that reports success counts every database as synced.
THEOREM BooksAlwaysBalance == Spec => []BooksBalance
  <1>1. IndInv => BooksBalance
    <2> SUFFICES ASSUME IndInv, NEW o \in Operations
                 PROVE  LET counted == <<op[o].pending, op[o].succeeded, op[o].failed, op[o].unfinished>>
                        IN  /\ op[o].registered = UNION {counted[i] : i \in 1 .. 4}
                            /\ \A i, j \in 1 .. 4 : i # j => counted[i] \cap counted[j] = {}
                            /\ op[o].messages > 0 => op[o].pending = {}
                            /\ op[o].messages > 0 /\ Severity(o) = "INFO"
                                   => op[o].succeeded = op[o].registered
      BY DEF BooksBalance
    <2> DEFINE counted == <<op[o].pending, op[o].succeeded, op[o].failed, op[o].unfinished>>
    <2>1. /\ counted[1] = op[o].pending /\ counted[2] = op[o].succeeded
          /\ counted[3] = op[o].failed /\ counted[4] = op[o].unfinished
      OBVIOUS
    <2>2. \A i \in 1 .. 4 : i = 1 \/ i = 2 \/ i = 3 \/ i = 4  OBVIOUS
    <2>3. Book(op[o]) /\ Life(op[o])  BY DEF IndInv, OperationInv
    <2> HIDE DEF counted
    <2>4. op[o].registered = UNION {counted[i] : i \in 1 .. 4}
      <3>1. {counted[i] : i \in 1 .. 4} = {counted[1], counted[2], counted[3], counted[4]}
        BY <2>2
      <3>2. UNION {counted[1], counted[2], counted[3], counted[4]}
              = counted[1] \cup counted[2] \cup counted[3] \cup counted[4]
        OBVIOUS
      <3> QED BY <2>1, <2>3, <3>1, <3>2 DEF Book
    <2>5. \A i, j \in 1 .. 4 : i # j => counted[i] \cap counted[j] = {}
      <3>1. /\ counted[1] \cap counted[2] = {} /\ counted[1] \cap counted[3] = {}
            /\ counted[1] \cap counted[4] = {} /\ counted[2] \cap counted[3] = {}
            /\ counted[2] \cap counted[4] = {} /\ counted[3] \cap counted[4] = {}
        BY <2>1, <2>3 DEF Book
      <3>2. \A S, T : S \cap T = T \cap S  OBVIOUS
      <3> QED BY <2>2, <3>1, <3>2
    <2>6. op[o].messages > 0 => op[o].pending = {}  BY <2>3 DEF Life
    <2>7. op[o].messages > 0 /\ Severity(o) = "INFO" => op[o].succeeded = op[o].registered
      BY <2>3, <2>6 DEF Book, Severity
    <2> QED BY <2>4, <2>5, <2>6, <2>7 DEF counted
  <1> QED BY Invariance, <1>1, PTL

\* Every database an operation waits for is in the hands of somebody who will
\* report it, through drops, retries, deferrals and hidden databases.
THEOREM SomebodyAlwaysReports == Spec => []SomebodyReports
  <1>1. IndInv => SomebodyReports  BY DEF IndInv
  <1> QED BY Invariance, <1>1, PTL

\* Only expireOperations gives a database up once the handler has returned.
LEMMA OnlyTheDeadline ==
    ASSUME IndInv, Next, ~Tick, NEW o \in Operations, op[o].pc = "returned"
    PROVE  op'[o].unfinished = op[o].unfinished
  <1>1. op \in [Operations -> OperationStates]  BY DEF IndInv, TypeOK
  <1>2. ASSUME NEW a \in Actors, NEW p \in Operations, MaybeFinish(a, p)
        PROVE  op'[o].unfinished = op[o].unfinished
    <2>1. CASE p # o \/ ~Ready(p)  BY <1>1, <1>2, <2>1 DEF MaybeFinish
    <2>2. CASE p = o /\ Ready(p)
      <3>1. PICK r, s : r = op[o] /\ s = [r EXCEPT !.done = TRUE, !.messages = @ + 1]  OBVIOUS
      <3>2. op'[o] = s  BY <1>1, <1>2, <2>2, <3>1 DEF MaybeFinish
      <3>3. r \in OperationStates  BY <1>1, <3>1
      <3>4. s.unfinished = r.unfinished  BY <3>1, <3>3, Zenon DEF OperationStates
      <3> QED BY <3>1, <3>2, <3>4
    <2> QED BY <2>1, <2>2
  <1>3. ASSUME NEW p \in Operations, Deadline(p)
        PROVE  op'[o].unfinished = op[o].unfinished
    <2>1. CASE p # o  BY <1>1, <1>3, <2>1 DEF Deadline
    <2>2. CASE p = o
      <3>1. PICK r, s : r = op[o] /\ s = [r EXCEPT !.overdue = TRUE]  OBVIOUS
      <3>2. op'[o] = s  BY <1>1, <1>3, <2>2, <3>1 DEF Deadline
      <3>3. r \in OperationStates  BY <1>1, <3>1
      <3>4. s.unfinished = r.unfinished  BY <3>1, <3>3, Zenon DEF OperationStates
      <3> QED BY <3>1, <3>2, <3>4
    <2> QED BY <2>1, <2>2
  <1>4. ASSUME NEW p \in Operations, Start(p) \/ Join(p)  PROVE op'[o] = op[o]
    BY <1>1, <1>4 DEF Start, Join, At
  <1>5. ASSUME NEW p \in Operations, Leave(p)  PROVE op'[o] = op[o]
    BY <1>1, <1>5 DEF Leave, IndInv, CallersInv
  <1>6. ASSUME NEW p \in Operations, Record(p, "ended") \/ Record(p, "errored")
        PROVE  op'[o] = op[o]
    BY <1>1, <1>6 DEF Record, At
  <1>7. ASSUME NEW p \in Operations, List(p, TRUE) \/ List(p, FALSE) \/ ListFails(p)
        PROVE  op'[o] = op[o]
    BY <1>1, <1>7 DEF List, ListFails, At
  <1>8. ASSUME NEW p \in Operations, Seal(p)  PROVE op'[o] = op[o]
    BY <1>1, <1>8 DEF Seal, At
  <1>9. ASSUME NEW p \in Operations, Enqueued(p) \/ Panic(p)  PROVE op'[o] = op[o]
    BY <1>1, <1>9 DEF Enqueued, Panic, At
  <1>10. ASSUME NEW p \in Operations, Return(p)  PROVE op'[o] = op[o]
    BY <1>1, <1>10 DEF Return, At
  <1>11. ASSUME NEW p \in Operations, Handler(p)  PROVE op'[o] = op[o]
    BY <1>4, <1>5, <1>6, <1>7, <1>8, <1>9, <1>10, <1>11 DEF Handler, Supersede, Enqueue
  <1>12. CASE Enumerate
    <2>1. ASSUME NEW result, PublishEnum(result)  PROVE op'[o] = op[o]
      BY <2>1 DEF PublishEnum, IndInv, CallersInv
    <2>2. ASSUME NEW d \in Databases, TellHidden(d)
          PROVE  op'[o].unfinished = op[o].unfinished
      <3>1. Completes(d)  BY <2>2, Zenon DEF TellHidden, CompleteDatabase, Completes
      <3> QED BY <3>1, CompletesEffect
    <2> QED
      BY <1>12, <2>1, <2>2
      DEF Enumerate, EnumHide, EnumSucceeds, EnumFails, EnumCreate, Forget
  <1>13. CASE ScanBegin \/ ScanNotDue \/ Scan \/ InstanceChanges
    BY <1>13 DEF ScanBegin, ScanNotDue, Scan, ScanList, Supersede, Enqueue, ScanFails, ScanEnd,
                 InstanceChanges
  <1>14. CASE Check
    <2>1. ASSUME NEW d \in Databases, TellGone(d)
          PROVE  op'[o].unfinished = op[o].unfinished
      <3>1. Completes(d)  BY <2>1, Zenon DEF TellGone, CompleteDatabase, Completes
      <3> QED BY <3>1, CompletesEffect
    <2> QED
      BY <1>14, <2>1
      DEF Check, RangeSkipped, RangeEnd, RangeBegin, DropGone, SkipWaiting, Dequeue
  <1>15. ASSUME NEW d \in Databases, Work(d)  PROVE op'[o].unfinished = op[o].unfinished
    <2>1. CASE Complete(d)
      <3>1. Completes(d)  BY <2>1, Zenon DEF Complete, CompleteDatabase, Completes
      <3> QED BY <3>1, CompletesEffect
    <2> QED
      BY <1>15, <2>1 DEF Work, SyncBegin, Defer, ClearBackoff, Backoff, Requeue, Exit
  <1>16. ASSUME NEW d \in Databases,
                UserBegin(d) \/ Elapse(d) \/ \E outcome \in Outcomes : SyncEnd(d, outcome)
         PROVE  op'[o] = op[o]
    BY <1>16 DEF UserBegin, Elapse, SyncEnd
  <1> QED
    BY <1>2, <1>3, <1>4, <1>11, <1>12, <1>13, <1>14, <1>15, <1>16 DEF Next

\* expireOperations never gives up a database that is queued or being synced
\* once the handler has returned.
THEOREM ExpiryComesLast == Spec => ExpiryIsLast
  <1> DEFINE Last == \A o \in Operations : op[o].pc = "returned" =>
                        op'[o].unfinished \ op[o].unfinished \subseteq enum.told
  <1>1. IndInv /\ Next => Last
    <2> SUFFICES ASSUME IndInv, Next, NEW o \in Operations, op[o].pc = "returned",
                        NEW d \in op'[o].unfinished, d \notin op[o].unfinished
                 PROVE  d \in enum.told
      OBVIOUS
    <2>1. Good(op[o])  BY AllGood
    <2>2. CASE Tick
      <3>1. d \in op[o].pending /\ ~HasWorkInProgress(o)  BY <2>2, TickEffect
      <3>2. d \in Databases  BY <3>1, FieldsTyped DEF IndInv, TypeOK
      <3>3. Reported(o, d)  BY <3>1 DEF IndInv, SomebodyReports, Reported
      <3>4. ~queue[d]  BY <3>1 DEF HasWorkInProgress
      <3>5. worker[d].pc = "none" /\ checker.dropped = {}
        BY <2>2, <3>2 DEF Tick, IndInv, CheckerInv
      <3>6. d \notin adding[o].todo  BY NotAddingTyped DEF IndInv, AddingInv
      <3> QED BY <3>3, <3>4, <3>5, <3>6 DEF Reported, WillReport
    <2>3. CASE ~Tick  BY <2>3, OnlyTheDeadline
    <2> QED BY <2>2, <2>3
  <1> QED BY <1>1, Invariance, PTL DEF Spec, ExpiryIsLast
=============================================================================
