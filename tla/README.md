# Formal models of metaxisdata

TLA+ models of the concurrent and failure-prone parts of the metaxisdata backend,
the TLC runs that check them on small instances, and TLAPS proofs of the results
that hold for every instance.  Paths are relative to the repository
(`src/` here is its root).

Contents: [the system](#the-system), [plan](#plan),
[the modules](#the-modules), [runs](#runs), [bounds](#bounds),
[fairness](#fairness), [proofs](#proofs),
[disagreements found](#disagreements-between-the-code-and-its-documentation),
[what is not modelled](#what-is-not-modelled).

## The system

metaxisdata is one server process with a PostgreSQL store.  It connects to the
database instances its users register, reads their schemas, computes column
lineage from object definitions, runs data-quality checks, and notifies people
about the results.  The deployment is a single process (docs/deploy.md:245,
docs/security-posture.md:12, docs/notifications.md:230), so in-memory queues and
gates are authoritative and a restart loses them; only the tables survive.  The
authentication code is the exception: its comments and its cache lifetime are
written for several replicas over one database, and it is modelled that way.

Components with state, and how they interact:

| Component (source under backend/) | State | Operations | Hard behaviour | Correct when |
|---|---|---|---|---|
| Connection governor (component/state/connection.go) | holder count and queue of waiters per instance, under one mutex | acquire, tryAcquire, release, dispatch | a grant racing a context that ends; ceilings edited under waiting requests | slots are never leaked, duplicated or over-committed; the queue is not overtaken; no waiter sleeps next to a free slot |
| Schema syncer (runner/schemasync) | sync queue, backoffs, per-database and per-instance gates, user operations | checker tick and workers, instance enumeration, periodic scan, handlers, deadline | five kinds of goroutines report to one operation; databases and instances disappear mid-sync | one message per operation, exact counts, nobody waits in vain |
| Lineage analyzer (runner/lineageanalyzer) | event queue, scan backlog, backoffs | QueueAnalysis, full scan, drain and workers, retry | workers update the maps without the enqueue mutex; definitions change during analysis | no request lost, no result overwritten by an older one, lineage catches up |
| Notification outbox (store/notification_delivery.go, runner/notificationdispatcher) | table of deliveries with leases | create, claim, attempt, finish, defer, release, requeue, prune | crashes and failed statements between post and record; quiet hours changed mid-batch | every row settles; duplicates only where a success was lost; waiting costs no attempt |
| Quality runner (runner/qualityrunner, store/quality_run.go, store/quality_execution.go, store/quality_target_schedule.go) | batches, executions and target schedules in tables; manual queue, scheduled queue, busy instances and in-flight checks in memory | RunQualityRules, manual lane, due scan, scheduled workers, abandon paths, startup sweep | two lanes reach the same check; each of several writes of a cleanup may fail; a deadline passes during a query | the lanes never share a check or an instance; no row is stranded; the tables keep a batch's promise; a due cycle settles and none is skipped |
| Quality issue ledger (store/quality_issue.go, runner/qualityrunner/issue.go, component/dataquality/issue.go) | at most one unresolved issue per check | open, touch, resolve, acknowledge, prune | verdicts are settled after the batch, by two lanes, against users; settlements get lost | one unresolved issue; resolved is final; a failing check has an issue |
| Connected apps (api/oauth, store/oauth_grant.go, api/auth/authenticator.go, component/state/revocation_cache.go) | one row per grant, a decision cache per replica | authorize, refresh, revoke, check, prune | refreshes race each other and revocations; slow reads refill caches | a refresh token is used once; a revocation is final and reaches every replica in time |
| Web sessions (api/auth, store/web_refresh_token.go) | refresh tokens | rotate, log out | two refreshes racing | a consumed token is dead |
| Limiters (component/state/*_limiter.go, device_login.go) | bounded in-memory windows | allow, record, expire | capacity and expiry edges | the limit holds at the edge |
| Agent sessions, suggestion jobs (runner/qualitysessionrunner, runner/qualitysuggestionrunner) | job rows with leases | claim, heartbeat, finish | lease expiry racing a late result | one worker finishes a job |

The syncer and the quality runner take their connections from the governor (a
refused background request is the outcome "saturated" of a sync); the syncer
queues changed objects at the lineage analyzer and sends an operation's outcome
through the notification service, whose channels fan out into the outbox.

The hazards the properties aim at are listed, each at its line, in
`PROJECT.json` under `hazards`.

## Plan

Done, each with proofs: `ConnectionGovernor`, `NotificationDelivery`, `LineageQueue`,
`SchemaSync`, `QualityExecution` with the abstract `QualityBatch` it implements,
`IssueLedger`, `ConnectedApp`.

Next, in this order:

1. An abstract outbox (an event per channel is posted at least once and settles)
   and an abstract counting semaphore, with `NotificationDelivery` and
   `ConnectionGovernor` shown to implement them through refinement mappings, checked
   and proved.
2. Web sessions, device logins and the limiters: the same rotation in another table,
   and bounded in-memory stores with expiry.
3. Agent sessions and suggestion jobs: claim and lease of jobs.
4. A composition of `SchemaSync` and `QualityExecution` with the governor, for the
   question who can starve whom.

None of the modules has a RECURSIVE operator, so all of them can be proved about.

## The modules

Each `MC*` module extends the module of the same name and names the small sets its
configurations use.  Definitions called `...Mutant...` are deliberately wrong
versions of the definition that follows them; replacing the definition by its
mutant makes the named property fail, which shows that the property depends on
that piece of code.  They take part in no specification.

### ConnectionGovernor

One instance's budget.  A critical section of the governor's mutex is one action;
what a goroutine does between two critical sections of one call (`select`, the gap
before handing a slot back) is a program point in `pc`.  The queue is a set,
because service depends on (priority, sequence) only.  `Woken(h)` is the loop of
`dispatchLocked` in closed form: a waiter is woken when everyone served before it,
and it itself, is admitted by its own ceiling.  `ContextDone` covers the race in
which both channels of the select are ready.  Ceilings belong to requests, because
callers read `maximum_connections` themselves and administrators edit it.

### NotificationDelivery

The `notification_delivery` table and the dispatcher.  One SQL statement is one
action.  Time is one bit per row, `due` (`next_attempt_at <= NOW()`), which
`Elapse` may set at any moment: a lease, a backoff and a quiet window all end this
way.  `phase` and `job` are the dispatcher's batch and its goroutines: `Claim`
leases rows, `Resolve` reads the channels and evaluates quiet hours once for the
batch, each goroutine attempts, defers or releases its row and writes the outcome.
Statements may fail, the claim may commit without its rows being read, the
receiver may accept a post that looks failed from here, and the process may stop
anywhere (`Crash`).  `posts`, `lost` and `tries` are history.  A delivery whose row
is deleted by a channel deletion finishes into nothing.

### LineageQueue

The analyzer's three maps at the grain of single map operations, because the
workers of a batch do not take `queueMu` while `QueueAnalysis` and `queueScan` hold
it.  A definition is a version number; `analyzed` is the version the stored lineage
was computed from.  A generation is a token different from every one in use, which
is all the atomic counter provides.  `Restart` empties everything that lives in
memory.  `leftToScan` is history: the object is nobody's request any more and waits
for the next full scan.

A worker reads a view through the registry cache, any other object from the registry.
`cache[k]` is the version the entry holds, 0 for none; `listed[k]` are the versions a
reader may have listed and not yet added, which are all that the registry held since
the process started, because a reader takes no lock and may be slow; `dirty[k]` is the
time between a sync's commit and its invalidation.  `Cached` are the objects that are
views.  Readers and evictions are environment: `ReaderAdds` puts back any version that
may have been listed, after the invalidation too.  A version left behind this way makes
every analysis stale until the entry goes, so `Converges` has that premise: the lineage
catches up if, from some time on, the entry is absent or current.

### SchemaSync

The syncer of one instance: the queue and backoffs, the checker and its workers,
the database gate with the user's own syncs, the enumeration behind the instance
gate, the periodic scan, and the operations with the handlers that drive them.  A
critical section or one operation on a concurrent map is one action; the exceptions
are in the module's header.  `op[o]` holds the fields of `SyncOperation` and the
handler's program point; `tell[a]` are the operations for which actor `a` has left
the critical section and not yet called `maybeFinishOperation`, so that several
actors can be between the two at once.  Counts are sets of databases, which makes
double counting visible.  `RangeBegin(extra)` lets `sync.Map.Range` visit keys
stored after it began.  A sync is abstracted to its outcome.  The checker's list of
instances (`checker.seen`) is read before the walk and used throughout it.

### QualityBatch and QualityExecution

`QualityBatch` is what a reader of `quality_run` and `quality_execution` may rely on:
the executions of a batch appear together, a check runs only inside a started batch,
a verdict or an abandonment is never rewritten, and a batch is COMPLETED only when
all its executions have verdicts.  `RefinesQualityBatch` says that
`QualityExecution` implements it with the same two variables; everything else of the
runner is hidden.

`QualityExecution` is the runner for one target on one instance.  `lane` holds the
runner loop, which executes manual batches and scans for due work, and the scheduled
workers; `api` the requests to `RunQualityRules`; `queue`, `group`, `reserved` and
`inflight` are `r.manual`, `r.scheduled`, `r.scheduledInstances` and `r.inflight`.  One
statement, critical section or channel operation is one action, and a lane's program
point says which comes next.  executeBatch is written once and used by both lanes.
Time is reduced to the slots of the target: `next` is `next_run_at`, `cycle` the latest
slot that arrived, `slot` is `started_at` as a cycle, and `scheduledAt` the slot a batch
was planned for.  The slots lie any distance apart, as intervals and cron expressions
put them.  `Pending` has the three conditions of the query: no verdict since the slot,
attempts left, and the run cadence (`Gated`): a check with a verdict of a slot less than
its `Period` before this one sits the cycle out, and the cycle does not wait for it.
`past` are the checks with a verdict of slot 0, the last one before the batches
modelled, so that the first cycle already has checks to leave out.  `late` is the
expired batch context: every later statement on it fails, while the abandon writes
use a context of their own.  `excused` (history) are the batches whose cleanup was
itself cut off and that are left to the startup sweep; `basis` (history) is what the
runner looked at when it decided to move the schedule on.

### IssueLedger

The ledger of one check, executed by two lanes.  The lanes read the previous status,
mark, query, write the verdict and settle it later, in that order and at the grain of
statements; `PlanIssueTransition` is the transition table.  The partial unique index
is the guard of `OpenIssue`.  `alone` and `clean` are history: `FailingIsOpen` and
`RecoveredIsResolved` speak of executions that overlapped no other one and whose
settlement was neither lost nor undone by a user.  What came before them may have
gone wrong in any way.

### ConnectedApp

One grant of one app on several replicas.  `row` is its row in
`oauth_refresh_token`: refresh tokens are numbered as they are minted and
`row.hash` is the current one.  A call (refresh, revocation or request) runs on one
replica, takes its `now` at the beginning as the code does, and is cut wherever it
leaves the process or the cache mutex; the clock moves between the parts.  The
principal lookup of a refresh is an input with three answers.  `since`, `sealed`,
`issued` and `after` are history.  `Evict` drops a cache entry, as the LRU may at any
time for other apps' entries.

## Runs

`tlc -config <cfg> <module>` in this directory.

| Run | Shows |
|---|---|
| governor_one_ceiling | Four callers of three classes on a budget of two: `SlotsAccounted` (count = slots owned), `CeilingRespected`, `WorkConserving` (nobody waits next to a free slot) |
| governor_mixed_ceilings | Requests with ceilings "none", 1 and 2: `NoLostWakeup`, `NoOvertaking`, and under fairness `TopClassServed` |
| delivery_outbox | Two deliveries, one ignoring quiet hours: `OwnsLease` (the outcome written by id alone always meets its own lease), `DuplicatesExplained`, `SentIsTerminal`, `WaitingIsFree` (deferrals are not charged), `BudgetEnds` (no more attempts than the budget and one per fault), `Settles` under fairness |
| lineage_requests | One view through changes, failures, retries, restarts, cache fills and evictions: `NoLostRequest`, `NeverBackwards` (a stale cached text is never stored over a newer one), `Converges` under fairness |
| lineage_batch_cap | Two objects that are not views and a batch of one: the object left out stays queued |
| sync_operation | One operation against everybody else: `OneMessage`, `SomebodyReports`, `ExpiryIsLast` |
| sync_two_databases | Two databases of one operation: `BooksBalance`, and `Delivered` under fairness |
| quality_batches | Manual and scheduled batches against each other, cancelled requests, timeouts, panics and restarts: `OneQueryPerRule`, `InstanceIsSerial`, `NothingStranded`, `RefinesQualityBatch` |
| quality_cycle | A due target with its retry budget, a check that follows the target and one that runs less often, schedule edits and checks switched on and off: `NoCycleSkipped`, `RefinesQualityBatch`, and `CycleSettles` under fairness |
| issue_ledger | Two lanes, users, retention, lost writes and restarts: `OneUnresolved`, `ResolvedIsFinal`, `FailingIsOpen` |
| issue_recovery | violation of `RecoveredIsResolved`, see below |
| connected_app | Two replicas, two concurrent calls: `SingleUse`, `RevocationIsFinal`, `RefusedWithinTTL`, `RefusedHereAtOnce` |

Deadlock is checked for the governor, the lineage queue and the sync, which never
rest.  The others may: the outbox when every delivery has settled, the quality runner
and the ledger when their bounded batches, cycles and executions are used up, a
connected app when it is pruned at the end of the bounded clock.

## Bounds

* Governor: `MaxSequence` bounds the requests that ever queue.  Four callers on a
  budget of two give two holders and two waiters; three classes give every order
  of service.  Ceiling 0 means "no limit" to the governor; its callers replace a
  setting of 0 by the default of 10, so it is the governor's own edge case.
* Outbox: `MaxFaults` (crashes, failed statements, ambiguous answers),
  `MaxRequeues`, `MaxWindows`.  An attempt budget of 2 stands for 6: a first, a
  last and a retry between them.  One fault is enough to lose a lease, a record or
  a post; the proofs cover any number.
  A release is only attempted after another statement failed; its own failure
  counts as the same fault.
* Lineage: `MaxText` definitions, `MaxFaults` failures and restarts, one retry
  instead of three.  `lineage_requests` has a view, which can do all that another
  object can: its reads find no entry, or a current one.  Readers, invalidations and
  evictions are unbounded.
* Sync: one or two databases, one operation, one retry instead of three; the
  number of instance deletions, scans, user syncs and ticks is unbounded.
  `PeriodicSync` is the instance's sync interval: without one (the default) the
  periodic scan ignores the instance, and the state space is small enough for two
  databases and liveness.

* Quality runner: `quality_batches` has one check, so that every batch competes for
  it, two manual and two scheduled batches, two workers, two requests for a queue of
  one and one fault; `quality_cycle` has two checks, an attempt budget of 2 instead of
  3, two faults, one edit and more scheduled batches than the budget can use, so that
  running out of ids never hides a stuck cycle.  One of its checks has a period of two
  slots and, in half of the initial states, a verdict of slot 0: the cycle leaves it out
  there and includes it in the other half.  `MaxFaults` bounds together all that
  can go wrong, `MaxEdits` what users change, `MaxCycles` the due slots.
* Ledger: four executions of one check by two lanes, one fault, one user action; the
  shortest interesting histories (open, lost settlement, healing failure; open,
  resolve, fail again) take three.
* Connected app: two replicas and two calls under way, which is a racing pair of any
  two kinds; the cache lifetime is two ticks of a clock of two, so a decision can be
  fresh, aged and expired; the refresh token expires after one.  `MaxTokens` bounds
  the tokens presented and `MaxFaults` the failed statements, lost responses,
  evictions and restarts.

## Fairness

* Governor: lease owners release (every caller defers it), a goroutine whose channel
  is ready runs.  Nobody is obliged to call or to give up.
* Outbox: the ticker keeps firing, each goroutine of a batch ends (posts have a
  timeout), time passes, windows end.  Faults have no fairness, and `MaxFaults`
  makes them finite: `Settles` claims progress only when faults stop.
* Lineage: tickers and goroutines keep running, backoffs elapse.  Strong fairness
  for the calls that compete for `queueMu`: a Go mutex hands itself to a waiter
  that has starved for a millisecond.  A sync that committed invalidates the entry.
  Nothing is assumed of the readers that fill the cache and of evictions.
* Sync: one weak-fairness condition per goroutine.  Strong fairness in two places:
  listing the instances is retried every tick and does not fail for ever, and a
  database that keeps being synced is not refused a connection for ever (`TopClassServed`
  is about the highest class; the background class has no such guarantee, so this
  is an assumption on the load).  The two-hour deadline has no fairness: `Delivered`
  holds without it.
* Quality runner: the loop and each scheduled worker keep running, a check ends
  (its query has a timeout).  Nothing is assumed of users, requests and faults;
  `MaxFaults` makes faults finite, and a restart is one of them, so `CycleSettles`
  claims progress when faults stop.

## Proofs

Seven modules hold the proofs, one per component, each checked with
`tlapm <module>.tla`.  Every invariant and every action property that a passing run
checks is a theorem for all values of the constants, and so is the refinement of
`QualityBatch`.  `PROJECT.json` lists the theorems with the property each states.

The assumptions are the named ASSUMEs of the modules, and no others:

| Module | Assumed of the constants |
|---|---|
| `ConnectionGovernor` | finitely many callers, classes within 0..2, ceilings are integers, the bound is a natural number |
| `NotificationDelivery` | finitely many deliveries, those that bypass quiet hours among them, a positive attempt budget and claim limit, natural bounds |
| `ConnectedApp` | positive lifetimes of cache entries and refresh tokens, a natural retention, natural bounds and at least one token |
| `IssueLedger` | verdicts are statuses, natural bounds |
| `QualityExecution` | batch ids are positive, manual and scheduled ones distinct, finitely many scheduled; no worker is called "loop"; a positive budget and queue capacity, natural periods and bounds |
| `LineageQueue` | at least one definition, the views are among the objects, natural retry budget and bounds |
| `SchemaSync` | a natural retry budget; databases, operations and the three singletons (checker, enumeration, scan) have different names |

The bounds (`MaxFaults`, `MaxTime` and their like) are constants of the models, so a
theorem that holds for every bound holds for every finite behaviour of the program.

Each module states an inductive invariant `IndInv`, proves `Invariance`
(`Spec => []IndInv`) with one step per action, and draws the properties from it.
`IndInv` of the later modules was checked with TLC before it was proved.  Why the
properties alone are not inductive, and what has to be added:

**Governor.**  A release subtracts the slot of its caller and adds those it hands
over, so `SlotsAccounted` needs that the woken callers are waiting, hold nothing and
are woken once.  `IndInv` adds that the queue is exactly the set of callers blocked
without a grant, that sequence numbers are distinct (so the order of service is total
and a non-empty queue has a head), and that somebody holds a slot whenever somebody
waits.  The last part needs the lemma that a dispatch from an idle budget always wakes
the head.

**Outbox.**  A claim could lease a row somebody works on, and resolving a batch could
restart a goroutine that holds a success, as far as `OwnsLease` knows.  `PhaseInv`
excludes both: between two batches no goroutine holds a row, and before the channels
are read none has started.  `PostsAccounted` strengthens `DuplicatesExplained` to an
equation: every accepted post is a lost one, a success in the hands of a goroutine, or
the success in the row.  `TryInv` keeps a second account per row, of what was charged
against what was tried: the claim charges in advance, a deferral or release gives the
charge back, and only a fault can leave a charge without a try or let a row be claimed
once more than its budget.  `WaitingIsFree` and `BudgetEnds` follow.

**Connected apps.**  Between the rotation of the row and the answer, a refresh holds
the one right to the pair of the token it presented; `PairInv` says no two calls hold
the same right, and `TokenInv` that a token whose pair was issued is not the row's any
more, which together give `SingleUse`.  For the revocation, a call that decided "live"
and a cached "live" are stamped no later than the revocation (`CallInv`,
`ReplicaInv`); and a replica that has marked it, or restarted since, has neither such
an entry nor a read under way that could store one unless the cached revocation
outranks it.

**Issue ledger.**  `OneUnresolved` is the partial unique index, restated so that the
set of unresolved issues has at most one member.  `FailingIsOpen` needs to know what
lanes may do while the last verdict is clean: nobody shares the check (`AloneInv`), a
lane that has not written runs a newer execution, a lane that settles carries the last
verdict (`CleanInv`), and a failure has its issue or the lane that will open it
(`FailInv`).

**Quality runner.**  The argument is about ownership.  A batch that is open belongs to
one of the requests, the manual queue and the lanes (`BookInv`, `OwnInv`), and what the
tables say of it follows from where its owner stands (`LaneInv`, `CallerInv`); nobody
else touches them until a restart takes every owner away at once.  That makes every
write of the runner a step of `QualityBatch`: `TablesKeepThePromise` shows the initial
state and, action by action, that a step maps to a step or a stutter.  `BasisInv`
carries what the runner counted when it decided to move the schedule on up to the
write; it rests on three facts about every step: a verdict stays, a stamp is never set
back, and the slot of a planned batch stays, so that the run cadence excuses a check as
long as it did.  The proof for any number of cycles showed that the count proves a verdict *in
or after* the cycle looked at, not in it; see below.

**Lineage queues.**  From the change of a definition until its lineage is stored,
something holds the request: the writer that has yet to queue it, the call under
`queueMu`, an entry of a queue, or the worker that withdrew the entry to retry it
(`HolderInv`).  The delicate step is a worker's compare-and-delete: `ConsumeInv` says
that an entry about to be consumed does not carry a change later than the text the
worker read, because a request that arrived since has a generation of its own
(`FreshGeneration`).  The cache needs no part in `HolderInv`: what it returns is a
version the registry held since the process started (`CacheTypes`, part of
`Invariance`), and the write refuses it when the registry has moved on.

**Schema sync.**  An operation registers its databases once, when its handler seals it,
and every later step moves a database from pending to one outcome, or gives up on an
operation that registered none (`Book`, `Life`).  `SomebodyReports` is inductive
together with the shape of the calls: the enumeration and the checker tell of one
database at a time, the handler adds databases only before it returns, and workers live
only while the checker ranges.  `ExpiryIsLast` follows, since the deadline is looked at
between two rounds, when the only one left who may be about to report is the
enumeration.

Only model-checked: liveness (`TopClassServed`, `Settles`, `Converges`, `Delivered`,
`CycleSettles`), because fairness and ENABLED are outside the provers' reach, and
`RecoveredIsResolved`, which is false.  The type invariants of the governor and the
outbox are proved for every instance, so no run repeats them.

## Disagreements between the code and its documentation

One run ends in a violation and states what a document says:

* `RecoveredIsResolved` (docs/data-quality.md:804, "When a check passes again its issue
  resolves itself"): recovery is recognised only when the execution right before the
  pass failed (component/dataquality/issue.go:50).  FAIL, WARN, PASS leaves the issue
  open, and so does every pass after it, until a user resolves it or the check fails
  and passes directly.

Others were met while modelling and have no run of their own:

* component/state/connection.go:86: a request waits although its own ceiling admits
  it, when a caller with a smaller ceiling leaves the queue before it; that does not
  dispatch.  Needs an edit of `maximum_connections`.
* docs/notifications.md:56, "After six attempts the delivery is dead": a dispatcher
  that stops in the sixth attempt leaves a row that the claim leases for a seventh.
  `BudgetEnds` is the promise that does hold: one more per fault.
* docs/notifications.md:159: a batch that evaluated quiet hours before the schedule
  changed defers its rows after the held ones were released.
* runner/lineageanalyzer/queue.go:53: a request that interleaves with a retry inherits
  its backoff.
* runner/schemasync/instance_sync.go:268: a hidden database is queued again by the
  worker that was syncing it, or stays queued when the sync itself hid it.
* runner/qualityrunner/schedule.go:195: the recheck is there so that a stale plan does
  not "duplicate a completed cycle", and looks at the target only.  The scan reads the
  due targets before it looks at the busy instances; a group that ends in between
  with some checks judged and others not leaves the target due, and the stale plan
  executes the judged ones again.
* store/quality_target_schedule.go:448: the write that ends a cycle asks only that the
  target is due, with a `now` taken after the pending checks were counted
  (runner/qualityrunner/schedule.go:308).  When a reader edits the schedule between the
  count and the write and the new slot comes due as well, the write ends the new cycle
  on the count of the old one, and the checks that have not run in the new cycle wait for
  the next.  `NoCycleSkipped` therefore speaks of the cycle that was counted.
* runner/qualityrunner/execute.go:175: verdicts are settled after the whole batch, so
  the lanes may settle one check in the opposite order of its executions and leave
  the ledger behind the newer verdict until the next one.
* component/state/revocation_cache.go:11, an eviction costs "never an accepted revoked
  token": when the entry of a revocation is evicted while a read from before it is
  under way, that read stores "live".  The lifetime of the entry bounds it.
* store/store.go:38, "The other caches hold rows whose staleness is only cosmetic", and
  docs/security-posture.md:12, the hourly scan re-queues stale objects: a reader that
  listed a view before a sync's commit (runner/schemasync/database_sync.go:308) and adds
  it after the sync's invalidation (:364) leaves the old definition in
  `metaRegistryGUIDCache`, an LRU without a lifetime (store/meta_resource.go:124-150,
  store/store.go:90).  The analyzer reads that entry, the store refuses the result as
  stale, and the worker queues the object again (runner/lineageanalyzer/analyze.go:60-62),
  without end and without progress; the scan queues it for the same read.  An eviction,
  a reader that adds the current row, the next change of the view or a restart ends it.
  Without its premise `Converges` is violated by this behaviour.
* The lineage queues are not disjoint (runner/lineageanalyzer/queue.go:88), because
  `scheduleRetry` stores into the event queue without `queueMu`; and the checker drops
  a queued database of an instance created after the tick listed the instances
  (runner/schemasync/syncer.go:164).  Both are harmless to the properties checked.

## What is not modelled

* What a sync reads and writes: the diff of metadata rows, definitions and schema
  fingerprints, and the refresh cadence (database_sync.go, metadata_batch.go,
  object_definition.go, schema_fingerprint.go, refresh.go).
* What a lineage analysis computes, the SQL parsers and per-engine analyzers.
* Routing of a notification to channels and the channel senders.
* The background-failure notices to administrators, metrics and logging.
* Restarts of the syncer: everything it keeps is lost, the operations too, and its
  comments say so.  Several server processes, except for connected apps: not a
  supported deployment of the runners.
* Quality runner: several targets and the chunking of large ones, the daily quota,
  edits of a check's run cadence, retention of batches and of the executions the run
  cadence looks at, a panic of the runner loop itself, what a
  check measures.  Issues: muting, storms, notifications, the occurrence count.
* Tokens: web sessions, the list of revoked token ids (the same cache code), the
  authorization code, client registration, resources and scopes, the expiry of access
  tokens.
* The components of the plan that have no module yet, and the ones `PROJECT.json`
  lists as not modelled: drivers, identity providers, report rendering, migrations,
  CLI and front end.
