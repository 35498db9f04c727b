------------------------- MODULE ConnectionGovernor -------------------------
(***************************************************************************)
(* The per-instance connection budget of backend/component/state/          *)
(* connection.go.  A request that cannot be admitted waits in a queue and  *)
(* is woken with a slot that a releasing holder hands over.                *)
(*                                                                         *)
(* The governor keeps one holder count and one queue per instance under    *)
(* one mutex; instances share nothing but the sequence counter, so one     *)
(* instance is modelled.  Every critical section of the mutex is one       *)
(* action; what a goroutine does between two critical sections of the same *)
(* call (the select of acquire, the gap between "granted := waiter.granted"*)
(* and g.release) is a separate program point.                             *)
(*                                                                         *)
(* The queue is a slice in the code, but nothing depends on its order:     *)
(* bestWaiterIndex chooses by (priority, sequence) and sequence numbers    *)
(* are unique, so it is modelled as a set of callers.                      *)
(***************************************************************************)
EXTENDS Integers, FiniteSets

CONSTANTS
    Callers,      \* goroutines that lease connections of the instance
    Priorities,   \* ConnectionPriority classes in use: 0 background, 1 manual,
                  \* 2 interactive; a higher number is served first
    Ceilings,     \* values of maximum_connections that requests may carry
    MaxSequence   \* bound: number of requests that may ever queue

ASSUME CallersAssumption == IsFiniteSet(Callers)
ASSUME PrioritiesAssumption == Priorities \in SUBSET (0 .. 2) /\ Priorities # {}
ASSUME CeilingsAssumption == Ceilings \in SUBSET Int /\ Ceilings # {}
ASSUME MaxSequenceAssumption == MaxSequence \in Nat

VARIABLES
    holders,   \* g.holders[instance]
    waiters,   \* g.waiters[instance]: callers whose waiter is in the queue
    sequence,  \* g.sequence
    waiter,    \* the connectionWaiter of a caller's latest queued request
    granted,   \* callers whose waiter has granted = true (its ready is closed)
    pc         \* where each caller is between critical sections

vars == <<holders, waiters, sequence, waiter, granted, pc>>

(***************************************************************************)
(* "idle"       no call in progress and no release function                *)
(* "selecting"  blocked in the select of acquire                           *)
(* "returning"  its context ended, it saw granted = true and is about to   *)
(*              call g.release                                             *)
(* "leased"     owns a release function that has not run                   *)
(* "released"   owns a release function whose sync.Once has fired          *)
(***************************************************************************)
Steps == {"idle", "selecting", "returning", "leased", "released"}

Waiter == [priority : Priorities, sequence : Nat, limit : Ceilings]

\* A caller that has never queued has no waiter; any record stands for that.
NoWaiter == [priority |-> CHOOSE p \in Priorities : TRUE,
             sequence |-> 0,
             limit |-> CHOOSE l \in Ceilings : TRUE]

\* Callers that own one slot of the budget, wherever their call stands.
Slots == {c \in Callers : \/ pc[c] \in {"leased", "returning"}
                          \/ pc[c] = "selecting" /\ c \in granted}

Init ==
    /\ holders = 0
    /\ waiters = {}
    /\ sequence = 0
    /\ waiter = [c \in Callers |-> NoWaiter]
    /\ granted = {}
    /\ pc = [c \in Callers |-> "idle"]

-----------------------------------------------------------------------------
\* Mutant: the ceiling itself is still admitted (off by one).
AdmissibleMutant(limit, h) == limit <= 0 \/ h <= limit

\* admissibleLocked, and the same test in dispatchLocked, for h holders.
AdmissibleLocked(limit, h) == limit <= 0 \/ h < limit

\* bestWaiterIndex: waiter v is served before waiter w.
Before(v, w) ==
    \/ waiter[v].priority > waiter[w].priority
    \/ /\ waiter[v].priority = waiter[w].priority
       /\ waiter[v].sequence < waiter[w].sequence

\* Waiters of the queue that dispatchLocked serves before w.
Ahead(w) == {v \in waiters : Before(v, w)}

\* The waiters dispatchLocked wakes when it starts with h holders.  It takes
\* the best waiter again and again, counting each as a holder, and stops at
\* the first one whose own limit does not admit it.
Woken(h) ==
    {w \in waiters : \A v \in Ahead(w) \cup {w} :
        AdmissibleLocked(waiter[v].limit, h + Cardinality(Ahead(v)))}

\* Mutant: release frees the slot without dispatching the queue.
ReleaseMutantNoDispatch ==
    /\ holders' = IF holders <= 1 THEN 0 ELSE holders - 1
    /\ UNCHANGED <<waiters, granted, sequence, waiter>>

\* release: give the slot back and dispatch, in one critical section.
ReleaseAndDispatch ==
    LET left == IF holders <= 1 THEN 0 ELSE holders - 1
    IN  /\ holders' = left + Cardinality(Woken(left))
        /\ waiters' = waiters \ Woken(left)
        /\ granted' = granted \cup Woken(left)
        /\ UNCHANGED <<sequence, waiter>>

-----------------------------------------------------------------------------
CanCall(c) == pc[c] \in {"idle", "released"}

\* acquire and tryAcquire on their fast path: nobody queued and a free slot.
Admit(c, limit) ==
    /\ waiters = {}
    /\ AdmissibleLocked(limit, holders)
    /\ holders' = holders + 1
    /\ pc' = [pc EXCEPT ![c] = "leased"]
    /\ UNCHANGED <<waiters, sequence, waiter, granted>>

AcquireNow(c, limit) == CanCall(c) /\ Admit(c, limit)

\* Mutant: tryAcquire looks at the holder count only.
TryAcquireMutant(c, limit) ==
    /\ CanCall(c)
    /\ AdmissibleLocked(limit, holders)
    /\ holders' = holders + 1
    /\ pc' = [pc EXCEPT ![c] = "leased"]
    /\ UNCHANGED <<waiters, sequence, waiter, granted>>

\* tryAcquire; a refusal changes no state.
TryAcquire(c, limit) == CanCall(c) /\ Admit(c, limit)

\* acquire on its slow path: queue a waiter and block in the select.  A
\* context that is already done returns before the lock and changes nothing.
AcquireQueued(c, priority, limit) ==
    /\ CanCall(c)
    /\ ~(waiters = {} /\ AdmissibleLocked(limit, holders))
    /\ sequence < MaxSequence
    /\ waiter' = [waiter EXCEPT ![c] = [priority |-> priority,
                                        sequence |-> sequence,
                                        limit |-> limit]]
    /\ sequence' = sequence + 1
    /\ waiters' = waiters \cup {c}
    /\ pc' = [pc EXCEPT ![c] = "selecting"]
    /\ UNCHANGED <<holders, granted>>

\* The call returns and nothing refers to its connectionWaiter any more.
DropWaiter(c) ==
    /\ waiter' = [waiter EXCEPT ![c] = NoWaiter]
    /\ granted' = granted \ {c}

\* The select receives from waiter.ready.
Ready(c) ==
    /\ pc[c] = "selecting"
    /\ c \in granted
    /\ pc' = [pc EXCEPT ![c] = "leased"]
    /\ DropWaiter(c)
    /\ UNCHANGED <<holders, waiters, sequence>>

\* Mutant: a caller that gives up never looks at waiter.granted.
ContextDoneMutantLeak(c) ==
    /\ pc[c] = "selecting"
    /\ waiters' = waiters \ {c}
    /\ pc' = [pc EXCEPT ![c] = "idle"]
    /\ DropWaiter(c)
    /\ UNCHANGED <<holders, sequence>>

\* The select receives from ctx.Done (it may, even when ready is closed too):
\* leave the queue, or remember that the slot has to be handed back.
ContextDone(c) ==
    /\ pc[c] = "selecting"
    /\ waiters' = IF c \in granted THEN waiters ELSE waiters \ {c}
    /\ pc' = [pc EXCEPT ![c] = IF c \in granted THEN "returning" ELSE "idle"]
    /\ DropWaiter(c)
    /\ UNCHANGED <<holders, sequence>>

\* Mutant: the slot is given back without waking the queue.
ReturnSlotMutant(c) ==
    /\ pc[c] = "returning"
    /\ ReleaseMutantNoDispatch
    /\ pc' = [pc EXCEPT ![c] = "idle"]

\* The g.release call of a caller that gave up after it was granted a slot.
ReturnSlot(c) ==
    /\ pc[c] = "returning"
    /\ ReleaseAndDispatch
    /\ pc' = [pc EXCEPT ![c] = "idle"]

\* The release function of a lease; sync.Once makes every later call a no-op.
Release(c) ==
    \/ /\ pc[c] = "leased"
       /\ ReleaseAndDispatch
       /\ pc' = [pc EXCEPT ![c] = "released"]
    \/ /\ pc[c] = "released"
       /\ UNCHANGED vars

Next ==
    \E c \in Callers :
        \/ \E l \in Ceilings : AcquireNow(c, l) \/ TryAcquire(c, l)
        \/ \E p \in Priorities, l \in Ceilings : AcquireQueued(c, p, l)
        \/ Ready(c)
        \/ ContextDone(c)
        \/ ReturnSlot(c)
        \/ Release(c)

\* Callers run their release function and a goroutine whose channel is ready
\* is eventually scheduled; nobody is obliged to call or to give up.
Fairness ==
    \A c \in Callers :
        /\ WF_vars(pc[c] = "leased" /\ Release(c))
        /\ WF_vars(ReturnSlot(c))
        /\ WF_vars(Ready(c))

Spec == Init /\ [][Next]_vars

FairSpec == Spec /\ Fairness

-----------------------------------------------------------------------------
\* Every variable has the shape the code gives it.
TypeOK ==
    /\ holders \in Nat
    /\ waiters \in SUBSET Callers
    /\ sequence \in Nat
    /\ waiter \in [Callers -> Waiter]
    /\ granted \in SUBSET Callers
    /\ pc \in [Callers -> Steps]

\* No slot is leaked and none is freed twice: the count is the number of
\* callers that own a slot, through every race of a grant with a context
\* that ends and through repeated calls of a release function.
SlotsAccounted == holders = Cardinality(Slots)

\* The queue holds exactly the callers blocked without a grant, so a caller
\* that gave up cannot be woken and a woken one cannot be woken twice.
QueueConsistent ==
    waiters = {c \in Callers : pc[c] = "selecting" /\ c \notin granted}

\* No lost wakeup: somebody holds a slot whenever somebody waits, so a release
\* that dispatches the queue is still to come.  Holds for any mix of ceilings.
NoLostWakeup == waiters # {} => holders >= 1

\* Waiters carry distinct sequence numbers below the counter, so the order of
\* service is total, and only a blocked caller can have an unobserved grant.
WaitersOrdered ==
    /\ \A w \in waiters : waiter[w].sequence < sequence
    /\ \A v, w \in waiters : v # w => waiter[v].sequence # waiter[w].sequence
    /\ \A c \in granted : pc[c] = "selecting"

\* The inductive invariant: the count, the queue and the grants of the
\* governor agree with where every calling goroutine stands.
IndInv ==
    /\ TypeOK
    /\ SlotsAccounted
    /\ QueueConsistent
    /\ WaitersOrdered
    /\ NoLostWakeup

\* With one ceiling for all callers, the open sessions never exceed it.
CeilingRespected ==
    \A l \in Ceilings : Ceilings = {l} /\ l > 0 => Cardinality(Slots) <= l

\* With one ceiling for all callers, nobody waits while a slot is free, and
\* an instance without a ceiling never queues.
WorkConserving ==
    \A l \in Ceilings : Ceilings = {l} /\ waiters # {} => l > 0 /\ holders >= l

\* A slot never goes to a caller while another that ranks before it, or that
\* queued while it did not, stays in the queue: dispatch serves the highest
\* class first, oldest first inside a class, and neither acquire nor
\* tryAcquire overtakes the queue.
NoOvertaking ==
    [][\A c \in Slots' \ Slots : \A w \in waiters' :
          c \in waiters /\ Before(c, w)]_vars

\* A request of the highest class is served or gives up: only older requests
\* of its own class are ahead of it, and each of those leaves the queue.
TopClassServed ==
    \A c \in Callers :
        (pc[c] = "selecting" /\ \A p \in Priorities : waiter[c].priority >= p)
            ~> (pc[c] # "selecting")
=============================================================================
